----------------------------- MODULE ModelImport -----------------------------
(* models/importer.py with models/dynamic_registry.py: a custom model is      *)
(* copied or downloaded into a staging folder, promoted by two renames and    *)
(* listed, on the thread of the download queue; requests register and remove  *)
(* it on threads of their own, and the process may end at any moment.  One    *)
(* model: others share only a state file that is used under one lock.  Left   *)
(* out: what a manifest says, and whether the model is enabled.               *)
EXTENDS Integers

CONSTANTS
    MaxJobs,        \* bound: imports and installs; a job is also its version
    MaxFaults       \* bound: renames, deletions and saves that fail, and exits

ASSUME ImportAssumption == MaxJobs \in Nat /\ MaxFaults \in Nat

(* What a folder holds: a version that is whole, or one of these.  A bare one *)
(* has the manifest that register writes, and nothing else; a damaged one has *)
(* lost files to a deletion, but not its marker; a stub has lost the marker   *)
(* too, and what else it has, if anything, is open.                           *)
Versions == 1..MaxJobs
Absent == 0
Bare == -1
Partial == -2
Damaged == -3
Stub == -4

VARIABLES
    target, backup, \* custom/<id> and custom/.<id>.previous
    staging,        \* .staging/<id>-<pid> of this process
    record,         \* the registry's record: none, listed or installed
    up,             \* is the process running?
    worker,         \* where the queue's thread is in a job
    job, op,        \* the job's number, and whether it is an import or an install
    scanned,        \* what its record_path read from disk
    requester,      \* where a request is in register
    seen,           \* what its record_path read
    remover,        \* where a thread is in uninstall_dynamic
    before,         \* history: the target and the record when the job began
    kept,           \* history: promoted, and not removed since?
    clash,          \* history: has a request worked on the model during the job?
    faults          \* history: what went wrong so far

folderVars == <<target, backup, staging>>
jobVars == <<job, op, before>>
requestVars == <<requester, seen>>
vars == <<folderVars, record, up, worker, jobVars, scanned, requestVars, remover,
          kept, clash, faults>>

Init ==
    /\ target = Absent /\ backup = Absent /\ staging = Absent
    /\ record = "none" /\ up = TRUE
    /\ worker = "idle" /\ job = 0 /\ op = "import" /\ scanned = "none"
    /\ requester = "idle" /\ seen = "none" /\ remover = "idle"
    /\ before = <<target, record>> /\ kept = FALSE /\ clash = FALSE /\ faults = 0

(* What _scan_item may make of the folder.  The marker counts; without it the *)
(* files that the manifest names, or weights if it says local.  It raises     *)
(* where no manifest is and none can be inferred.                             *)
Scan ==
    {found \in {"installed", "listed", "raises"} :
        \/ found = "installed" /\ target \notin {Absent, Bare}
        \/ found = "listed" /\ target \in {Bare, Stub}
        \/ found = "raises" /\ target \in {Absent, Damaged, Stub}}

(* What a deletion that was cut short may leave.                              *)
Cut(folder) == {folder, Stub} \cup (IF folder \in Versions THEN {Damaged} ELSE {})

Fault(n) == faults + n <= MaxFaults /\ faults' = faults + n

-----------------------------------------------------------------------------
(* A job of the queue: import_local or install_huggingface                    *)

Goto(here, there) == up /\ worker = here /\ worker' = there
WorkerOnly == UNCHANGED <<up, jobVars, requestVars, remover, clash>>

(* A leftover staging folder is cleared first, outside the try: if that fails *)
(* the job has failed.  An install needs the record of what register wrote.   *)
BeginJob ==
    /\ \/ Goto("idle", "fetching") /\ staging' = Partial /\ UNCHANGED faults
       \/ Goto("idle", "idle") /\ staging # Absent /\ staging' = staging /\ Fault(1)
    /\ job < MaxJobs /\ job' = job + 1
    /\ \/ op' = "import"
       \/ op' = "install" /\ record # "none"
    /\ before' = <<target, record>>
    /\ clash' = (requester # "idle" \/ remover # "idle")
    /\ UNCHANGED <<target, backup, record, up, scanned, requestVars, remover, kept>>

(* The except clause after n faults: what was staged is deleted, but errors   *)
(* are ignored, and then something of it stays.                               *)
Abandon(here, n) ==
    /\ Goto(here, "idle")
    /\ \/ staging' = Absent /\ Fault(n)
       \/ staging' = Partial /\ Fault(n + 1)

(* A network error, a full disk, a missing file, or Stop.                     *)
FetchFails ==
    /\ Abandon("fetching", 0)
    /\ WorkerOnly /\ UNCHANGED <<target, backup, record, scanned, kept>>

(* Everything is there; manifest and marker are written.                      *)
Fetched ==
    /\ Goto("fetching", "clearing")
    /\ staging' = job
    /\ WorkerOnly /\ UNCHANGED <<target, backup, record, scanned, kept, faults>>

(* _promote: an old backup is deleted, ...                                    *)
ClearBackup ==
    /\ \/ Goto("clearing", "moving") /\ backup' = Absent /\ UNCHANGED <<staging, faults>>
       \/ backup # Absent /\ Abandon("clearing", 1) /\ backup' \in Cut(backup)
    /\ WorkerOnly /\ UNCHANGED <<target, record, scanned, kept>>

(* Seeded bug: the old version is deleted.                                    *)
MoveOld_Deletes ==
    /\ Goto("moving", "promoting") /\ target' = Absent
    /\ UNCHANGED <<backup, staging, faults>>
    /\ WorkerOnly /\ UNCHANGED <<record, scanned, kept>>

(* ... the version in place becomes the backup, ...                           *)
MoveOld ==
    /\ \/ /\ Goto("moving", "promoting")
          /\ backup' = (IF target = Absent THEN backup ELSE target) /\ target' = Absent
          /\ UNCHANGED <<staging, faults>>
       \/ /\ target # Absent /\ Abandon("moving", 1)
          /\ UNCHANGED <<target, backup>>
    /\ WorkerOnly /\ UNCHANGED <<record, scanned, kept>>

(* Seeded bug: the backup stays a backup.                                     *)
Promote_NoRestore ==
    /\ \/ /\ Goto("promoting", "dropping") /\ target = Absent
          /\ target' = staging /\ staging' = Absent /\ kept' = TRUE
          /\ UNCHANGED <<backup, faults>>
       \/ /\ target = Absent /\ Abandon("promoting", 1)
          /\ UNCHANGED <<target, backup, kept>>
    /\ WorkerOnly /\ UNCHANGED <<record, scanned>>

(* ... and the staged one takes its place.  If that fails the backup is put   *)
(* back, unless register made a new folder meanwhile, which alone makes it    *)
(* fail; putting it back may fail as well.                                    *)
Promote ==
    /\ \/ /\ Goto("promoting", "dropping") /\ target = Absent
          /\ target' = staging /\ staging' = Absent /\ kept' = TRUE
          /\ UNCHANGED <<backup, faults>>
       \/ /\ target = Absent /\ Abandon("promoting", 1)
          /\ target' = backup /\ backup' = Absent /\ UNCHANGED kept
       \/ /\ target = Absent /\ backup # Absent /\ Abandon("promoting", 2)
          /\ UNCHANGED <<target, backup, kept>>
       \/ /\ target # Absent /\ Abandon("promoting", 1)
          /\ UNCHANGED <<target, backup, kept>>
    /\ WorkerOnly /\ UNCHANGED <<record, scanned>>

(* The deletion of the backup ignores errors.                                 *)
DropBackup ==
    /\ Goto("dropping", "scanning")
    /\ \/ backup' = Absent /\ UNCHANGED faults
       \/ backup # Absent /\ backup' \in Cut(backup) /\ Fault(1)
    /\ WorkerOnly /\ UNCHANGED <<target, staging, record, scanned, kept>>

(* record_path: the disk is read first, the record is set under the lock.     *)
(* What was promoted may be gone.                                             *)
ScanTarget ==
    /\ \/ Goto("scanning", "listing") /\ scanned' \in Scan \ {"raises"}
       \/ Goto("scanning", "idle") /\ "raises" \in Scan /\ UNCHANGED scanned
    /\ WorkerOnly /\ UNCHANGED <<folderVars, record, kept, faults>>

(* An import enables the model only if a setting says so.                     *)
ListTarget ==
    /\ \/ Goto("listing", "enabling")
       \/ Goto("listing", "idle") /\ op = "import"
    /\ record' = scanned
    /\ WorkerOnly /\ UNCHANGED <<folderVars, scanned, kept, faults>>

(* set_enabled raises for a record that is gone, or if it cannot save.        *)
Enable ==
    /\ Goto("enabling", "idle")
    /\ Fault(1) \/ UNCHANGED faults
    /\ WorkerOnly /\ UNCHANGED <<folderVars, record, scanned, kept>>

-----------------------------------------------------------------------------
(* Requests, and the process                                                  *)

(* register: the manifest goes straight into the target.                      *)
RegisterWrites ==
    /\ up /\ requester = "idle" /\ requester' = "scanning"
    /\ target' = IF target = Absent THEN Bare ELSE target
    /\ clash' = (clash \/ worker # "idle")
    /\ UNCHANGED <<backup, staging, record, up, worker, jobVars, scanned, seen, remover, kept, faults>>

RegisterScans ==
    /\ requester = "scanning"
    /\ \/ requester' = "listing" /\ seen' \in Scan \ {"raises"}
       \/ requester' = "idle" /\ "raises" \in Scan /\ UNCHANGED seen
    /\ UNCHANGED <<folderVars, record, up, worker, jobVars, scanned, remover, kept, clash, faults>>

RegisterLists ==
    /\ requester = "listing" /\ requester' = "idle"
    /\ record' = seen
    /\ UNCHANGED <<folderVars, up, worker, jobVars, scanned, seen, remover, kept, clash, faults>>

(* uninstall_dynamic: look up, delete, drop the record.                       *)
RemoveBegins ==
    /\ up /\ record # "none" /\ remover = "idle" /\ remover' = "deleting"
    /\ clash' = (clash \/ worker # "idle")
    /\ UNCHANGED <<folderVars, record, up, worker, jobVars, scanned, requestVars, kept, faults>>

(* File by file, while others may use the folder.                             *)
RemoveCuts ==
    /\ remover = "deleting" /\ kept' = FALSE
    /\ target # Absent /\ target' \in Cut(target)
    /\ UNCHANGED <<backup, staging, record, up, worker, jobVars, scanned, requestVars, remover,
                   clash, faults>>

(* A deletion that raises half-way leaves the record alone.                   *)
RemoveDeletes ==
    /\ remover = "deleting" /\ kept' = FALSE
    /\ \/ remover' = "dropping" /\ target' = Absent /\ UNCHANGED faults
       \/ remover' = "idle" /\ target # Absent /\ target' = target /\ Fault(1)
    /\ UNCHANGED <<backup, staging, record, up, worker, jobVars, scanned, requestVars, clash>>

RemoveDrops ==
    /\ remover = "dropping" /\ remover' = "idle"
    /\ record' = "none"
    /\ UNCHANGED <<folderVars, up, worker, jobVars, scanned, requestVars, kept, clash, faults>>

(* Killed or shut down, in the middle of a deletion perhaps; another process  *)
(* will have another staging folder.                                          *)
Exit ==
    /\ up /\ up' = FALSE /\ Fault(1)
    /\ \/ UNCHANGED backup
       \/ worker \in {"clearing", "dropping"} /\ backup # Absent /\ backup' \in Cut(backup)
    /\ staging' = Absent /\ record' = "none"
    /\ worker' = "idle" /\ requester' = "idle" /\ remover' = "idle" /\ clash' = FALSE
    /\ UNCHANGED <<target, kept, jobVars, scanned, seen>>

(* _load_startup lists what it finds, and skips what it cannot tell.          *)
Start ==
    /\ ~up /\ up' = TRUE
    /\ \E found \in Scan : record' = IF found = "raises" THEN "none" ELSE found
    /\ UNCHANGED <<folderVars, worker, jobVars, scanned, requestVars, remover, kept, clash, faults>>

-----------------------------------------------------------------------------
JobStep ==
    \/ BeginJob \/ FetchFails \/ Fetched \/ ClearBackup \/ MoveOld \/ Promote \/ DropBackup
    \/ ScanTarget \/ ListTarget \/ Enable
RequestStep ==
    \/ RegisterWrites \/ RegisterScans \/ RegisterLists
    \/ RemoveBegins \/ RemoveCuts \/ RemoveDeletes \/ RemoveDrops

Next == JobStep \/ RequestStep \/ Exit \/ Start

Spec == Init /\ [][Next]_vars

-----------------------------------------------------------------------------
(* Properties *)

TypeOK ==
    /\ target \in Versions \cup {Absent, Bare, Damaged, Stub}
    /\ backup \in Versions \cup {Absent, Bare, Damaged, Stub}
    /\ staging \in Versions \cup {Absent, Partial}
    /\ {record, scanned, seen} \subseteq {"none", "listed", "installed"}
    /\ up \in BOOLEAN /\ kept \in BOOLEAN /\ clash \in BOOLEAN
    /\ worker \in {"idle", "fetching", "clearing", "moving", "promoting", "dropping",
                   "scanning", "listing", "enabling"}
    /\ job \in 0..MaxJobs /\ op \in {"import", "install"}
    /\ requester \in {"idle", "scanning", "listing"}
    /\ remover \in {"idle", "deleting", "dropping"}
    /\ before \in (Versions \cup {Absent, Bare, Damaged, Stub}) \X {"none", "listed", "installed"}
    /\ faults \in 0..MaxFaults

(* "promoted atomically", as far as it goes: after a model was promoted, and  *)
(* until it is removed, a whole version of it is on disk although one rename, *)
(* deletion or save failed or the process ended, at any moment, be it only    *)
(* under the backup's name.  A second fault can take the last one.            *)
OneFaultLosesNothing ==
    kept /\ faults <= 1 => {target, backup, staging} \cap Versions # {}

(* A job that no request disturbs ends with its version in place and listed   *)
(* as installed, or with the folder and the record as they were when it       *)
(* began, whichever steps failed; only if the promotion failed and putting    *)
(* the old version back as well, that is left under the backup's name.        *)
(* Something stays staged only if the job failed, and its deletion, too.      *)
AllOrNothing ==
    [][worker # "idle" /\ worker' = "idle" /\ up' /\ ~clash' =>
          \/ <<target', record'>> = <<job, "installed">> /\ staging' = Absent
          \/ /\ \/ <<target', record'>> = before
                \/ target' = Absent /\ <<backup', record'>> = before /\ faults' >= faults + 2
             /\ staging' = Absent \/ faults' > faults]_vars
=============================================================================
