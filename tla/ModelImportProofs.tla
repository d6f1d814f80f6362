-------------------------- MODULE ModelImportProofs --------------------------
(* Proofs about ModelImport, for any number of jobs and any number of faults. *)
EXTENDS ModelImport, TLAPS

(* The staged version is whole until it is promoted and gone afterwards, but  *)
(* for what a failed job could not delete; a backup that is about to be made  *)
(* finds its place free.                                                      *)
Staging ==
    /\ worker # "idle" => up /\ job \in Versions
    /\ worker \in {"clearing", "moving", "promoting"} => staging = job
    /\ worker \in {"dropping", "scanning", "listing", "enabling"} => staging = Absent
    /\ worker = "idle" => staging \in {Absent, Partial}
    /\ worker = "moving" => backup = Absent

(* Where the whole version is that OneFaultLosesNothing speaks of.  Without a *)
(* fault only _promote takes it from its place, to the backup; after one it   *)
(* may be left there, and then it is deleted only when the next is staged.    *)
KeptSomewhere ==
    kept /\ faults <= 1 =>
        \/ target \in Versions
        \/ backup \in Versions /\ (faults = 1 \/ worker = "promoting")
        \/ faults = 1 /\ worker \in {"moving", "promoting"}

(* Between promotion and deletion of the backup it is in its place.           *)
KeptAtDrop == worker = "dropping" /\ kept => target \in Versions

(* A job that no request disturbs: what it finds, moves and lists.            *)
Undisturbed ==
    worker # "idle" /\ ~clash =>
        /\ requester = "idle" /\ remover = "idle"
        /\ worker \in {"fetching", "clearing", "moving"} => before = <<target, record>>
        /\ worker = "promoting" => target = Absent /\ before = <<backup, record>>
        /\ worker \in {"dropping", "scanning", "listing", "enabling"} => target = job
        /\ worker = "listing" => scanned = "installed"
        /\ worker = "enabling" => record = "installed"

ImportInv == TypeOK /\ Staging /\ KeptSomewhere /\ KeptAtDrop /\ Undisturbed

USE ImportAssumption DEF Versions, Absent, Bare, Partial, Damaged, Stub

-----------------------------------------------------------------------------
(* Every action keeps every variable in its set.                              *)
LEMMA TypesPreserved == ImportInv /\ [Next]_vars => TypeOK'
<1> SUFFICES ASSUME ImportInv, [Next]_vars PROVE TypeOK'
  OBVIOUS
<1> USE DEF ImportInv, TypeOK, Staging, Goto, WorkerOnly, Abandon, Fault, Cut, Scan,
            folderVars, jobVars, requestVars
<1>1. CASE BeginJob
  BY <1>1 DEF BeginJob
<1>2. CASE FetchFails \/ Fetched
  BY <1>2 DEF FetchFails, Fetched
<1>3. CASE ClearBackup
  BY <1>3 DEF ClearBackup
<1>4. CASE MoveOld
  BY <1>4 DEF MoveOld
<1>5. CASE Promote
  <2>1. up' \in BOOLEAN /\ kept' \in BOOLEAN /\ clash' \in BOOLEAN
    BY <1>5 DEF Promote
  <2>2. target' \in Versions \cup {Absent, Bare, Damaged, Stub}
    BY <1>5 DEF Promote
  <2> QED BY <1>5, <2>1, <2>2 DEF Promote
<1>6. CASE DropBackup
  BY <1>6 DEF DropBackup
<1>7. CASE ScanTarget \/ ListTarget \/ Enable
  BY <1>7 DEF ScanTarget, ListTarget, Enable
<1>8. CASE RegisterWrites \/ RegisterScans \/ RegisterLists
  BY <1>8 DEF RegisterWrites, RegisterScans, RegisterLists
<1>9. CASE RemoveBegins
  BY <1>9 DEF RemoveBegins
<1>10. CASE RemoveDeletes \/ RemoveDrops
  <2>1. target' \in Versions \cup {Absent, Bare, Damaged, Stub}
    BY <1>10 DEF RemoveDeletes, RemoveDrops
  <2>2. remover' \in {"idle", "deleting", "dropping"} /\ kept' \in BOOLEAN
    BY <1>10 DEF RemoveDeletes, RemoveDrops
  <2>3. faults' \in 0..MaxFaults
    BY <1>10 DEF RemoveDeletes, RemoveDrops
  <2> QED BY <1>10, <2>1, <2>2, <2>3 DEF RemoveDeletes, RemoveDrops
<1>11. CASE RemoveCuts
  <2>1. target' \in Versions \cup {Absent, Bare, Damaged, Stub}
    BY <1>11 DEF RemoveCuts
  <2>2. kept' \in BOOLEAN
    BY <1>11 DEF RemoveCuts
  <2> QED BY <1>11, <2>1, <2>2 DEF RemoveCuts
<1>12. CASE Exit
  <2>1. target' \in Versions \cup {Absent, Bare, Damaged, Stub}
    BY <1>12 DEF Exit
  <2>2. backup' \in Versions \cup {Absent, Bare, Damaged, Stub}
    BY <1>12 DEF Exit
  <2>3. up' \in BOOLEAN /\ kept' \in BOOLEAN /\ clash' \in BOOLEAN
    BY <1>12 DEF Exit
  <2>4. faults' \in 0..MaxFaults
    BY <1>12 DEF Exit
  <2> QED BY <1>12, <2>1, <2>2, <2>3, <2>4 DEF Exit
<1>13. CASE Start
  BY <1>13 DEF Start
<1>14. CASE UNCHANGED vars
  BY <1>14 DEF vars
<1> QED BY <1>1, <1>2, <1>3, <1>4, <1>5, <1>6, <1>7, <1>8, <1>9, <1>10, <1>11, <1>12, <1>13,
       <1>14 DEF Next, JobStep, RequestStep

(* One step of a job at a time: each leaves staging and backup as the next    *)
(* one expects them, and a request touches neither.                           *)
LEMMA StagingPreserved == ImportInv /\ [Next]_vars => Staging'
<1> SUFFICES ASSUME ImportInv, [Next]_vars PROVE Staging'
  OBVIOUS
<1> USE DEF ImportInv, TypeOK, Staging, Goto, WorkerOnly, Abandon,
            folderVars, jobVars, requestVars
<1>1. CASE BeginJob \/ FetchFails \/ Fetched
  BY <1>1 DEF BeginJob, FetchFails, Fetched
<1>2. CASE ClearBackup \/ MoveOld
  BY <1>2 DEF ClearBackup, MoveOld
<1>3. CASE Promote
  BY <1>3 DEF Promote
<1>4. CASE DropBackup \/ ScanTarget \/ ListTarget \/ Enable
  BY <1>4 DEF DropBackup, ScanTarget, ListTarget, Enable
<1>5. CASE RequestStep
  BY <1>5 DEF RequestStep, RegisterWrites, RegisterScans, RegisterLists,
              RemoveBegins, RemoveCuts, RemoveDeletes, RemoveDrops
<1>6. CASE Exit \/ Start \/ UNCHANGED vars
  BY <1>6 DEF Exit, Start, vars
<1> QED BY <1>1, <1>2, <1>3, <1>4, <1>5, <1>6 DEF Next, JobStep

(* The whole version changes its place only in the steps KeptSomewhere names; *)
(* a fault that costs a place finds another one taken, unless it is the       *)
(* second.                                                                    *)
LEMMA KeptPreserved == ImportInv /\ [Next]_vars => (KeptSomewhere /\ KeptAtDrop)'
<1> SUFFICES ASSUME ImportInv, [Next]_vars PROVE (KeptSomewhere /\ KeptAtDrop)'
  OBVIOUS
<1> USE DEF ImportInv, TypeOK, Staging, KeptSomewhere, KeptAtDrop, Goto, WorkerOnly, Abandon,
            Fault, folderVars, jobVars, requestVars
<1>1. CASE BeginJob \/ FetchFails \/ Fetched
  BY <1>1 DEF BeginJob, FetchFails, Fetched
<1>2. CASE ClearBackup
  BY <1>2 DEF ClearBackup
<1>3. CASE MoveOld
  BY <1>3 DEF MoveOld
<1>4. CASE Promote
  BY <1>4 DEF Promote
<1>5. CASE DropBackup
  BY <1>5 DEF DropBackup
<1>6. CASE ScanTarget \/ ListTarget \/ Enable
  BY <1>6 DEF ScanTarget, ListTarget, Enable
<1>7. CASE RequestStep
  BY <1>7 DEF RequestStep, RegisterWrites, RegisterScans, RegisterLists,
              RemoveBegins, RemoveCuts, RemoveDeletes, RemoveDrops
<1>8. CASE Exit
  BY <1>8 DEF Exit
<1>9. CASE Start \/ UNCHANGED vars
  BY <1>9 DEF Start, vars
<1> QED BY <1>1, <1>2, <1>3, <1>4, <1>5, <1>6, <1>7, <1>8, <1>9 DEF Next, JobStep

(* A request that begins during a job disturbs it; else only the job writes.  *)
LEMMA UndisturbedPreserved == ImportInv /\ [Next]_vars => Undisturbed'
<1> SUFFICES ASSUME ImportInv, [Next]_vars PROVE Undisturbed'
  OBVIOUS
<1> USE DEF ImportInv, TypeOK, Staging, Undisturbed, Goto, WorkerOnly, Abandon,
            Fault, Scan, folderVars, jobVars, requestVars
<1>1. CASE BeginJob \/ FetchFails \/ Fetched
  BY <1>1 DEF BeginJob, FetchFails, Fetched
<1>2. CASE ClearBackup
  BY <1>2 DEF ClearBackup
<1>3. CASE MoveOld
  BY <1>3 DEF MoveOld
<1>4. CASE Promote
  BY <1>4 DEF Promote
<1>5. CASE DropBackup \/ ScanTarget \/ ListTarget \/ Enable
  BY <1>5 DEF DropBackup, ScanTarget, ListTarget, Enable
<1>6. CASE RegisterWrites \/ RemoveBegins
  BY <1>6 DEF RegisterWrites, RemoveBegins
<1>7. CASE RegisterScans \/ RegisterLists
  BY <1>7 DEF RegisterScans, RegisterLists
<1>8. CASE RemoveCuts \/ RemoveDeletes \/ RemoveDrops
  BY <1>8 DEF RemoveCuts, RemoveDeletes, RemoveDrops
<1>9. CASE Exit \/ Start
  BY <1>9 DEF Exit, Start
<1>10. CASE UNCHANGED vars
  BY <1>10 DEF vars
<1> QED BY <1>1, <1>2, <1>3, <1>4, <1>5, <1>6, <1>7, <1>8, <1>9, <1>10
       DEF Next, JobStep, RequestStep

THEOREM Invariance == Spec => []ImportInv
<1>1. Init => ImportInv
  <2> SUFFICES ASSUME Init PROVE ImportInv
    OBVIOUS
  <2>1. TypeOK
    <3>1. up \in BOOLEAN /\ kept \in BOOLEAN /\ clash \in BOOLEAN
      BY DEF Init
    <3>2. before \in (Versions \cup {Absent, Bare, Damaged, Stub}) \X {"none", "listed", "installed"}
      BY DEF Init
    <3> QED BY <3>1, <3>2 DEF Init, TypeOK
  <2>2. Staging /\ KeptSomewhere /\ KeptAtDrop /\ Undisturbed
    BY DEF Init, Staging, KeptSomewhere, KeptAtDrop, Undisturbed
  <2> QED BY <2>1, <2>2 DEF ImportInv
<1>2. ImportInv /\ [Next]_vars => ImportInv'
  BY TypesPreserved, StagingPreserved, KeptPreserved, UndisturbedPreserved DEF ImportInv
<1> QED BY <1>1, <1>2, PTL DEF Spec

-----------------------------------------------------------------------------
(* Folders, record and counters stay in their sets.                           *)
THEOREM TypeCorrect == Spec => []TypeOK
<1>1. ImportInv => TypeOK
  BY DEF ImportInv
<1> QED BY Invariance, <1>1, PTL

(* _promote's backup does its work: one failed rename, deletion or save, or   *)
(* one end of the process, at any moment, leaves a whole version on disk.     *)
THEOREM OneFaultIsSurvived == Spec => []OneFaultLosesNothing
<1>1. ImportInv => OneFaultLosesNothing
  BY DEF ImportInv, Staging, KeptSomewhere, OneFaultLosesNothing
<1> QED BY Invariance, <1>1, PTL

(* An import or an install either puts its version in place and lists it, or  *)
(* leaves folder and record as they were; the old version is left under the   *)
(* backup's name only if putting it back failed too, and something stays      *)
(* staged only if its deletion did.                                           *)
THEOREM ImportIsAllOrNothing == Spec => AllOrNothing
<1> DEFINE
      Ends == worker # "idle" /\ worker' = "idle" /\ up' /\ ~clash'
      Done == <<target', record'>> = <<job, "installed">> /\ staging' = Absent
      AsBefore ==
          \/ <<target', record'>> = before
          \/ target' = Absent /\ <<backup', record'>> = before /\ faults' >= faults + 2
      Undone == AsBefore /\ (staging' = Absent \/ faults' > faults)
<1>1. ASSUME ImportInv, Next, Ends
      PROVE  Done \/ Undone
  <2> USE <1>1 DEF ImportInv, TypeOK, Staging, Undisturbed, Goto, WorkerOnly, Abandon,
                   Fault, Scan, folderVars, jobVars, requestVars
  <2>1. CASE FetchFails
    BY <2>1 DEF FetchFails
  <2>2. CASE ClearBackup \/ MoveOld
    BY <2>2 DEF ClearBackup, MoveOld
  <2>3. CASE Promote
    BY <2>3 DEF Promote
  <2>4. CASE ListTarget \/ Enable
    BY <2>4 DEF ListTarget, Enable
  <2>5. CASE BeginJob \/ Fetched \/ DropBackup \/ ScanTarget
    BY <2>5 DEF BeginJob, Fetched, DropBackup, ScanTarget
  <2>6. CASE RequestStep \/ Exit \/ Start
    BY <2>6 DEF RequestStep, RegisterWrites, RegisterScans, RegisterLists,
                RemoveBegins, RemoveCuts, RemoveDeletes, RemoveDrops, Exit, Start
  <2> QED BY <2>1, <2>2, <2>3, <2>4, <2>5, <2>6 DEF Next, JobStep
<1>2. ImportInv /\ [Next]_vars => [Ends => Done \/ Undone]_vars
  BY <1>1
<1> QED BY Invariance, <1>2, PTL DEF Spec, AllOrNothing
=============================================================================
