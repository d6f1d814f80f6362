# Lluna: a TLA+ model of its concurrent core

Lluna is a desktop application for image and video processing. A window
(Electron, `src/frontend`) talks over HTTP and a WebSocket to a Python process
(`src/backend`), which queues *runs* of node graphs, executes each one in
dependency waves on a pool of threads, hands the heavy nodes to one inference
worker process per GPU, and keeps what it made in a content-addressed cache on
disk. This directory holds TLA+ modules of the parts of that process in which
order, concurrency, cancellation and crashes decide what the user gets; the TLC
configurations that check them on small instances; and theorems about them,
checked by TLAPS for every value of the constants.

    tlc -workers 2 -config MCRunManager.cfg MCRunManager.tla     # a run
    tlapm ResultCacheProofs.tla                                  # the proofs of a module

`PROJECT.json` lists components, runs, seeded bugs (one for each property, so
that no property holds emptily), the source lines behind each definition, the
findings, the hazards of the code and the theorems.

## 1. Inventory

### Parts that are modelled

| Part | Source | State | Operations | Module |
|---|---|---|---|---|
| Slot admission | `graph/scheduler.py` `DeviceScheduler` | two semaphores, the deque of free devices and its lock | `slot()`, `heavy_capacity` | `DeviceScheduler`, over the abstract `SlotAdmission` |
| Execution of one run | `graph/executor.py` `_run_steps`, `_run_step`, `_wait_if_paused`; `graph/scheduler.py` `execution_waves`, `plan_concurrency` | the waves, the futures, the stored outputs, the pause and cancel events, the first exception, the states the nodes show | plan, submit, collect, join; gate, gather, look up, enter slot, run (once or for each item of a list), retry a worker job, store; blame a node; pause, resume, Stop | `WaveExecution` (composes `DeviceScheduler`), over the abstract `PlanRun` |
| Run queue and dispatcher | `graph/executor.py` `RunManager` | `_runs`, heap `_queue`, `_active_run_id`, snapshots, events of each `_RunControl`, the dispatcher thread | `start`, `pause`, `resume`, `cancel`, `shutdown`; pop, execute, prune | `RunManager`, over the abstract `RunQueue` |
| Inference client and worker loop | `tools/inference/client.py`, `worker.py`, `protocol.py` | active job, wait queue, worker process and its two queues, reader and watchdog threads, handshake, accelerator setting; in the worker: active job, cancel event, the terminal event held back | `start_job`, `ensure_started`, `cancel`, `request_release`, `shutdown`, reader, watchdog; the worker's command loop and job thread | `InferClient` |
| Node cache and artifact store | `graph/executor.py` `_run_step`, `_load_cache`, `_save_cache`, `clear_cache`; `graph/cache.py`; `artifacts/store.py`; `core/atomic.py`; `models/adapters.py` `acquire` | source files, artifact files, `_records` and `index.json`, `_cache` and `graph-cache.json`, the model stamp and the model a worker holds | key, look up, commit, store, clear, restart | `ResultCache` |
| Model downloads | `tools/shared/download_queue.py`, `download_registry.py`, `download_lifecycle.py`; `tools/installers/enhance.py`, `generate.py`, `first_run.py`; `models/artifacts.py`, `models/service.py` | the FIFO, the current job, the history and the worker thread; the registry's active set and cancel flag; the pending file, the flag file, the models' files and markers | enqueue, stop, uninstall, adopt; begin, fetch, check, verify, rename or mark, complete, revert, fail; shutdown in three steps, kill, start | `ModelDownloads` |
| Model import and registry | `models/importer.py`, `models/dynamic_registry.py`, `models/service.py` `_action` | the model's folder, its backup and the staging folder; the registry's record; the queue's thread, the request threads | import, install: fetch, promote, list, enable; register, uninstall; exit, start | `ModelImport` |
| Events and the window's run | `api/events.py`, `api/app.py` (the WebSocket), `api/routes_runs.py`; `frontend/src/state/runStore.js`, `src/api/client.js` | a subscriber's bounded queue, the calls in flight with their snapshots, the run the store shows | publish, drop the oldest, close, connect, handle; start, pause, resume, cancel and their answers; clear | `RunEvents` |

How they interact. The API calls `RunManager`; its dispatcher thread executes one
run at a time (`RunManager`). Within a run the executing thread and the threads of
its pool walk the graph (`WaveExecution`), sharing `DeviceScheduler` for devices, the
cache for outputs and the two events of the run for pause and Stop. A heavy step
whose adapter needs a model calls `start_job` of the client of its device
(`InferClient`) and waits for the callback, which arrives on the client's reader or
watchdog thread, or on the thread that cancelled. Its output goes through
`commit` into the store and into the cache (`ResultCache`). Whatever a run's status
becomes is published, outside the lock that guarded it, to the subscribers' queues and
comes to the window over a WebSocket, while the answers of the window's own calls come
over HTTP (`RunEvents`). Models are installed by a thread of their own, one after the
other (`ModelDownloads`); the user's own models are staged, promoted and listed on the same
thread (`ModelImport`), while requests register and remove them on others.

What is hard in them, and the property that says it does not go wrong:

* slots: a semaphore and a deque under different locks; they must not disagree
  (`AdmittedFindsDevice`, `SlotsAccounted`), no device may have two jobs
  (`ExclusiveIfDistinct`), the pieces must amount to an atomic grant
  (`ImplementsAdmission`);
* waves: missing inputs are skipped silently, so the barrier alone keeps a node from
  running on half its inputs (`InputsComplete`); a failure raises the flag of Stop,
  so the first exception must win, and the kill switch promises strict order
  (`ImplementsPlan`); the pool, the gate and the slots can wait for each other
  (`NeverStuck`, `RunEnds`); the capacity read for planning counts free
  devices (`QuietBetweenWaves`); Stop races with steps already handed to the pool
  (`StopsOthers`); a failure is put on the node that changed its state last
  (`BlamesTheRightNode`);
* run queue: each call sets a flag and later, under another lock, a status, while the
  dispatcher writes the same status (`ShownRunningIsActive`, `StopSticks`); stored queue
  positions go stale (`PositionsOrdered`), and an entry stays in the heap after its run was
  stopped (`ImplementsRunQueue`); pruning at the limit
  (`PruneKeepsYoungest`); one thread on which everything waits (`StopFreesQueue`,
  `EveryRunGetsItsTurn`);
* inference client: five parties race to end one job (`AnsweredOnce`, `AnswerIsOwn`,
  `EveryJobAnswered`); the queue must move on whatever ended it (`NoJobLost`, `Fifo`,
  `OneTool`); workers are replaced while others refer to them (`OneWorkerUnlessCrash`);
  the next job is sent on the event that ends the last one (`NeverRejected`);
* cache: two JSON files and the artifacts are saved one after the other, each save may
  fail and the process may die in between (`SavedFilesAgree`,
  `NothingForgotten`); a clear races with steps that store (`ClearedStaysCleared`); a key
  that does not tell two inputs apart serves the wrong image (`HitSameInputs`);
* downloads: an install can be stopped, fail, lose its files to an uninstall, be aborted
  by a shutdown or killed between any two steps, and what it leaves on disk must be
  found by the next start (`PartialsTracked`, `CleanWhenIdle`) and never taken for a model
  (`InstalledIsComplete`, `HonestCompletion`); the cancel flag is a file that outlives its
  reason (`CancelHasCause`); stop and worker race for a job (`AnsweredOnce`,
  `EveryJobAnswered`);
* imports: two renames with a crash, a failure or a request between them, and a record
  that is written after the folder (`OneFaultLosesNothing`, `AllOrNothing`);
* events: publishing threads, a queue that drops its oldest, and lost connections
  (`NewestKept`); answers and events on two connections, in no order between them
  (`TruthfulEnd`, `RightAtRest`).

### Parts that are not modelled

| Part | Why, or when |
|---|---|
| The executor's node adapters (`_run_node`'s branches) | a body that succeeds, fails, falters or is cancelled in `WaveExecution`; what they compute is numerical or a file copy |
| Validation, compiler, registry (`graph/validation.py`, `compiler.py`, ...) | pure; the modelled parts rely on what `validate_workflow` establishes. They take one argument and return one value, so unit tests reach them as well as a model would |
| Analysis and inventory of models (`models/importer.py` `analyze_*`, `models/service.py` `list_models`) | they read manifests and folders and return a description. `revision_stamp`, `acquire` and `evict_except` are in `ResultCache` |
| Configuration (`configuration/*`) | update under a lock, announcement outside it, fall back to a backup: first of what is left |
| Electron shell (`frontend/electron/*`) | timeouts around one child process; last |
| Editor (`editorStore.js`), HTTP routes, bootstrap, preflight, CLI | single actor, or one call of a modelled operation |
| The other six installers | they follow `enhance.py` step by step, with packages and runtimes of their own |
| Process registry, memory, diagnostics, media | the operating system's or the network's behaviour is all there is |
| Jobs and runtimes (diffusion, upscaling, matting, video) and the vendored model code | numerical; to `InferClient` a job ends, fails, is cancelled, hangs or takes the worker down |

## 2. Modules

### SlotAdmission and DeviceScheduler

`SlotAdmission` is the promise: a heavy slot is granted on a device nobody holds, at
most `LightCapacity` callers are in a light slot, grants and returns are single steps.
`DeviceScheduler` is `slot()`: `AcquireHeavy`, `TakeDevice` (the `popleft` under
`_devices_lock`), `ReturnDevice` and `ReleaseHeavy` (the `finally`, in its order) and
the light pair are each one action of one caller. `slotPc` is where the caller's thread
is; `device` is its local variable. The refinement maps a device to the caller that
holds it; the semaphores are internal.

### PlanRun and WaveExecution

`PlanRun` is the promise: a node is begun once, after all its inputs succeeded, and not
after a Stop; with the kill switch, not beside another nor after one that did not succeed;
and the outcome says what happened (COMPLETED: every node succeeded; FAILED: one failed;
CANCELLED: somebody asked). `WaveExecution` is one run of a plan, and maps to it by what
became of each node: begun once past its gate and the flag behind it, over once its
future is (`Became`). Nodes are numbers in plan order. The executing thread has
`PlanWave` (one turn of `execution_waves`, and `plan_concurrency`), `Collect` (one future,
in completion order), `EndWave` (the pool's join, or the return of the line) and
`Complete`. A step goes `entering` (pause gate, then the cancel flag), `gathering`
(under `values_lock`), `lookup`, `atSlot` (the actions of `DeviceScheduler`, with the node
as the caller), `running`, `leaving`, `storing`. In its slot a node with a list on an input
(`Batched`) is run once for each item, and between two items it passes the pause gate
and the cancel flag again (`BeginItem`); a heavy body whose worker job crashed, timed out
or was refused sleeps and is sent again (`Falters`, `Retry`). `nodeState` and `current` are
the snapshot's: `_node_state` (`Shows`) writes both, reports of progress included, and the
end of a failed run repaints `current` alone (`Fail`). `Pause`, `Resume` and `Cancel` are
the user. `concurrent` is `LLUNA_GRAPH_CONCURRENCY`. Abstracted: a value is only present or
not; whether a lookup hits is a free choice (`ResultCache` has the real one). Plans are
acyclic (`GraphsAssumption`): `execution_waves` raises `DependencyCycle` before the first
step of any other.

### RunQueue and RunManager

`RunQueue` is the promise: a line with a front and a back class, taken one at a time from
its head, each run once, and a Stop that takes a waiting run out and lets the current one
begin no further step. In `RunManager` the line is the entries of the heap whose run is
not flagged (`Line`); a flagged entry stays in the heap until it is popped, but is over for
the promise. There is one action per lock region: a call that sets an event and then takes a
lock is two actions, with `call[r]` between them; `cancel` is three. The dispatcher is a program
counter over `_dispatch_loop` and `_execute`; the steps of the active run are walked in
line, with the pause gate split in the test, the write of PAUSED and the wait.
`completedAt` is the snapshot's `completed_at`, by which the
history is sorted and pruned; `clock` makes each of these stamps later than the one
before, as they are unless two runs end in the same microsecond.
`Refresh` is `_refresh_queue_positions_locked` and is part of each action whose region
ends with it. The second `compile` may raise (`CompileRaises`), which ends the thread.

### InferClient

The callers' threads (`EnsureStarted`, `StartupReady`, `StartupExpires`, `StartupKills`,
`Submit`), `Cancel`, the reader (`Fetch` without the lock, then one of `DispatchAnswer`,
`DispatchStrands`, `DispatchStale` under it; `ReaderFindsCrash`), the watchdog, `Release`,
`Shutdown`, and the worker (`TakeStart`, `TakeCancel`, `TakeShutdown`, `JobEnds`, `WorkerIdle`,
`FlushTerminal`). Each worker is born with its own two queues, so events of a dead worker
can be fetched before and dispatched after its end. Worker names are reused only when
nothing refers to them. What goes wrong is drawn from `Mishaps`, at most `MaxMishaps` of
them: a crash, a freeze, a changed setting, a release, a handshake that expires, a
healthy worker too quiet for its watchdog.

### ResultCache

A step is `Gather` (inputs hashed, the stamp read), `Hit` or `Miss`, `Run` (which reads the
sources *now* and the model the worker holds), `WriteFile`, `Record` and `Store`, each of
which may fail where the code can raise. Beside them: `Clear`, `Restart` (a crash at any
point, then `_load` and `_load_cache`, each of which may take its file for an empty
one), `Edit` (a source is overwritten), `Replace` (the model is), `Evict`, `LoseFile`.
An artifact is named by the step that made it. The key is what `build_cache_key` tells
apart: the node, the *bag* of artifact hashes, the stamp. A hash is injective.

### ModelDownloads

`worker` is where the queue's thread is: between jobs, or in one of the steps of an
installer. Two installers stand for the eight, chosen by `InPlace`: one fetches beside
the model, verifies and renames (`Verify`), one fetches into the model's directory,
checks and puts a marker there (`Mark`). A stop of the
current job sets its flag (`StopCurrent`), one of a queued job is two actions
(`StopQueued`, `AnswerStopped`). `abort_all_and_revert` is `AbortAll`, `AbortSaves` and then
the deletions, with the worker between them; `Exit` ends the process at any
moment, after a shutdown or killed. The next `Start` discards what the pending file names,
before the first request is served (phase "starting"). `pending` holds two kinds of entry
because the queue and the installers name the same install differently.

A directory is deleted file by file, wherever the code calls `rmtree`: `Deletes` is one
step of it, in which files or the marker go in either order. The worker's `discard_partial`
(`ClearOld`, `RevertDeletes`), that of the shutdown and of the next start (`NextDiscard`,
which looks at the marker, and `DiscardStep`) and a request's uninstall
(`Uninstall`, then a thread of its own: `UninstallDiscards`, `UninstallUnlinks`,
`UninstallDeletes`, `UninstallDisables`) may be interleaved with everything, fail after any
step, or be ended by `Exit`. `is_model_installed` is three steps of a request: it sees the
files, asks the pending file, touches the marker (`LookSees`, `LookAsks`, `Adopt`).
`lost` says that the running download lost files it had fetched, which the installer's check by
name may overlook. `cut` is history: the models that such a deletion has left incomplete
where nothing tells them from complete ones (it began when they were marked or not
pending, or ended with an error), or that a late look marked in the middle of their download.
Abstracted: of a model's files there are none, some or all, so that it is open whether an
incomplete one still has the `model_index.json` by which it is adopted; a network error is a
free choice. Left out: without `huggingface_hub` (`tools/installers/generate.py:311`)
an install fails after it made an empty directory.

### ModelImport

One model with three places on disk: `target` (`custom/<id>`), `backup`
(`custom/.<id>.previous`) and `staging`. `worker` is where the queue's thread is in
`import_local` or `install_huggingface`: fetching, the four steps of `_promote`
(`ClearBackup`, `MoveOld`, `Promote`, `DropBackup`), the two halves of `record_path`
(`ScanTarget` reads the disk without the lock, `ListTarget` writes the record under it) and
`Enable`. A request's thread registers (`RegisterWrites` puts a manifest into the target
folder, with the same two halves of `record_path` after it) or uninstalls (`RemoveBegins`,
`RemoveCuts` file by file, `RemoveDeletes`, `RemoveDrops`). A rename, a deletion or a save may
fail, a deletion may be cut short (`Cut`), and `Exit` ends the process at any moment; `Start`
lists what is on disk. When a job fails, its staged folder is deleted with errors ignored, so
some of it may stay (`Abandon`); the next job clears it first, and fails if it cannot
(`BeginJob`). `Scan` is what `_scan_item` may make of a folder: the marker counts, else the files
the manifest names, so one that was cut short may scan as installed; and for a folder that is gone it
raises, which ends the job or the request without a record. `before`, `kept` and `clash` are history: what the job found, whether a version was
promoted and not removed since, and whether a request worked on the model during the job.
Abstracted: a version is a number; a folder is whole, has a manifest only, has lost files, or
has lost its marker as well.

### RunEvents

The manager is reduced to the statuses it writes and the event it publishes after each;
flag, status and lock are `RunManager`'s business. `Publish` is the broker's `publish` and
the loop's `_put` in one; `Handle` is the send and the store's `handleEvent`. A call is
`saying` (status written, event not published), `answering`, `answered` (the snapshot is
on its way), and applied by `Arrive`. `freshest` is a history variable: how many events
the newest thing the store applied knew of. Left out: node events and badges, the
panels (`loadActivity`), a second window, two calls of one kind in flight.

## 3. Runs

All runs fire every action between them; a property's seeded bug in `PROJECT.json` is
caught under the same configuration.

| Run | Instance | Question |
|---|---|---|
| `slots` | 3 heavy and 2 light callers, 2 devices, `light_slots = 0` (one light slot) | admission is exclusive, leaks nothing and implements `SlotAdmission` |
| `waves` | all acyclic graphs of 3 nodes, 2 of them heavy, one with a list of 2 items, 1 retry, 1 device, concurrent and serial | inputs, blame, quiet waves, Stop; nobody waits for one who waits; it implements `PlanRun`, and the run ends |
| `manager` | 2 runs, plans of up to 2 steps, 2 priorities, history of 1, 2 calls | positions, statuses, pruning, Stop; it implements `RunQueue`, and runs get their turn |
| `manager_cancel_twice` | the same with 1 step, 3 calls | *violated*: a run cancelled while queued stays in the history |
| `infer` | 2 jobs of 2 types, 1 mishap of any kind | one worker and one tool, one answer, its own, never refused or lost, in the end |
| `infer_crash` | 2 jobs, 1 crash | *violated*: never two workers on one device |
| `cache` | 2 steps of a one-image node, 1 file with 2 contents, 1 replacement of the model | the files on disk agree, and a hit has the right image |
| `cache_prompt` | 2 steps of a node with an image and a prompt port | *violated*: a hit has the right inputs |
| `cache_model` | 3 steps, 1 replacement | *violated*: a hit is never of an older model |
| `downloads` | a model of each installer, 2 installs, 1 uninstall, 2 starts, history of 1 | but for models that a deletion has cut: no debris, no half model in use; no stale cancel, one answer, in the end |
| `import` | 3 jobs on one model, 3 faults | one fault loses nothing, a job is all or nothing |
| `events` | 2 runs, a queue of 2 events, 1 click or lost connection (and the Resume of a held run) | order of events, no false end, the right status at rest |

Why the bounds are enough. *slots*: three heavy callers on two devices give a caller that
waits, one admitted and not yet holding, and one returning, at once; the theorems cover
the rest. *waves*: three nodes give chains, forks, joins and independent branches; two
heavy nodes on one device contend; the light node makes a pool of two possible beside a
full device; two items are a first and a last one, with the gate between them, and one
retry is one more than none. *manager*: two runs give a front run overtaking a queued one and a history
that must prune; two calls on either run race with each other and with the dispatcher.
A third run would only lengthen the queue, whose order is a property of pairs. *infer*:
two jobs are an active one and one behind it, or one of another tool; one mishap at
any moment is what a user meets, and two together would excuse more than they test. The
order of a longer queue is not checked but proved (`FirstInFirstOut`), and that four names for
workers are enough too (`NamesNeverRunOut`). *cache*: two steps are enough for a
maker and a reader, or for two makers of one key; the third of `cache_model` is the job
that keeps the old model loaded. *downloads*: two installs are one under way and one
queued, or a second try of the same model; two starts are a life cut short and the
next one, and the second life may be cut short too; a third would start from a state
the second can start from. `MaxJobs` counts the installs of all lives. With `Drains` no request
waits when a shutdown begins: the server has answered its requests before it runs the lifespan's
shutdown. The validation of a queued run, on the dispatcher's thread, may look at the
models even then; the invariants hold with `Drains = FALSE` as well, and the theorems
are for both. *import*: three jobs are a first version, its replacement
and the one after a replacement that went wrong; of three faults two may end one job (the
promotion fails, and putting the old version back or clearing the staged one as well) and one
may have left something from an earlier job. *events*: two runs are the one shown and another whose
events must be ignored; a queue of two drops its oldest; one click at every moment of
a run's life meets every event of it, and the Resume is free so that a held run can
go on.

Some bounds cut the counters (`MaxCalls`, `MaxSteps`, `MaxMishaps`, `NumWorkers`,
`MaxVersion`, `MaxJobs`, `MaxFaults`, `MaxStarts`, `MaxRemovals`, `MaxTurns`); each of them, and `Drains`, is in a guard and named in its module. `CHECK_DEADLOCK FALSE` stands
where the system really comes to rest: a run that ended, a manager or client that was
shut down or has nothing left to do.

### Fairness

* `WaveExecution`: weak fairness of the executing thread and of each step. Threads are
  scheduled, and a body ends because the client's watchdog kills a silent worker and
  other bodies are plain computation. No fairness on the user: `RunEnds` says only that
  a run that is not left paused, or that is stopped, ends. A semaphore that is taken
  again and again could starve a step under weak fairness, but a node asks once.
* `RunManager`: weak fairness of the dispatcher and of the second half of a call that
  began. Nobody has to call anything. That a step ends is what `waves` checks.
* `InferClient`: weak fairness of the reader, the handshake, a worker that
  is up, and the calls that began; and of the watchdog's timeout while the worker does not
  respond. A frozen worker takes no step, so that timeout is the only way out. Of a worker
  that answers its pings the watchdog asks nothing at the default limit: that one is too
  quiet for it is a mishap, which may happen and is never counted on, so a job that stayed with a
  live worker would be seen.
* `ModelDownloads`: weak fairness of the worker thread and of a stop that took its job
  out of the queue; that a fetch ends is an assumption about the network (a transfer that
  keeps running ends or fails), and `report_install_progress` raises when the flag is up.
  No fairness of uninstalls, looks and the shutdown's deletions: no answer waits for
  them. Nobody has to click, and a shutdown or a kill excuses the answers.
* `RunEvents`: none; its properties are safety. That the window is right once all has
  come to rest (`RightAtRest`) needs no promise that it does.

Safety runs use the specification without fairness where no liveness is asked.

## 4. What is proved

TLAPS checks these for every value of the constants that satisfies the named
`ASSUME`s of the modules (`CallersAssumption`, `DevicesAssumption`, `LightAssumption`,
`NodesAssumption`, `GraphsAssumption`, `StepsAssumption`, `ContentsAssumption`, and those of the other modules), which TLC evaluates on each
run. Nothing else is taken on trust.

**DeviceSchedulerProofs** — any callers, devices, number of light slots. The inductive
invariant `SlotsInv` is type correctness, `SlotsAccounted` (each semaphore is short of
exactly the callers inside) and `DevicesConserved` (each device is in the deque once or
with one caller). Neither half suffices: that `popleft` finds a device follows by counting
holders among the admitted, which needs `SlotsAccounted`; that the device it finds is
not in use needs `DevicesConserved`. From it follow `TypeCorrect`, `NeverPopsEmpty`,
`MutualExclusion`, `Conservation`, `NoLeak`, and `Refinement`: each action is a grant, a
return or a stutter of `SlotAdmission`.

**WaveExecutionProofs** — any acyclic graph, any devices, workers, items and retries.
`SchedulerIsUsed` shows
that each behaviour of a run is one of `DeviceScheduler`, so the theorems above hold in
it. `WaveInv` adds what the code relies on without saying so: a settled node has a
value unless something failed; a step past its gathering saw all its sources, which the
gate's flag and the barrier together ensure; in line at most one step is under way and
none waits behind a failure; the flag is up without the user only if a step raised; a
node is in a slot exactly while its step is at one. It yields `NoMissingInput`,
`CapacityIsTrue` and, as an action property, `StopReachesTheGates`.
`ShownInv` adds what the nodes show: in line, whoever is RUNNING, failed, or done and not
yet stored is the current node, because nobody else shows a state meanwhile. That is
what makes `RightNodeIsBlamed` true in line, and what two branches at once break.

`FlowInv` is about where the run is: each step at a slot is at the matching place of
`DeviceScheduler`, the wave under way is the one that is due, and the executing thread
knows of the end. With `WaveInv` it gives the types (`RunTypeCorrect`) and two results. `NoDeadlock` is freedom from
deadlock, which says more than that TLC met none: a step that waits for a slot finds it
free or held by a step that can move (`FullSlotIsHeld`, `HoldersGoOn`), so not everyone
waits for a slot; if no step can move, a place in the pool is free for the next one; and
a wave is never empty while nodes are left (`WavesGoOn`). The last is the only place where acyclicity is used.
`PlanRefinement` is the refinement of `PlanRun`: passing the gate is `Begin`
(`PassRefines`), and there every source has succeeded, since what is settled has a value
unless a step failed and a failure raises the flag the gate reads; the end of a future is
`Finish` (`LeavesRefine`); what is first collected decides the outcome
(`CollectRefines`, `EndRefines`). `OutcomeIsHonest` and `SerialMeansSerial` state two of its
consequences in the words of the code.

**ResultCacheProofs** — any number of steps, files, contents and replacements, over
crashes and failed saves. `CacheInv` strengthens the three properties of the stores by what is in
flight: an entry that is being stored names a recorded artifact; a step about to store
does not hold a forgotten one. Its second half, `ContentInv`, is about contents: as
long as no hash was out of date when used, an output suits every request with its key,
and so does every entry of either file. It yields `TypeCorrect`, `StoresAgree`, `ClearIsFinal`, `IndexOnlyGrows` and, for a node with one image port and
no prompt (`OneInput`), `HitsAreRight`. That assumption is needed: `cache_prompt` shows
what happens without it.

**RunManagerProofs** — any number of runs and calls, any length of a plan. The invariant
says that a run and a sequence number are in the heap once, that the stored positions
rank the pending runs (`RefreshRanks`: what a refresh writes is the number of entries
ahead, by counting), and that a run is shown as running only while the dispatcher has it:
a call's late status write is guarded, the dispatcher's own is not, so the places where
the active run must not be shown as running yet, or any more, are part of it
(`NotLiveYet`). It yields `PositionsHold`, `OnlyActiveShownRunning`, and from them, as action
properties, `TakesTheFirst` and `StopIsFinal`. `PrunesTheOldest` needs that no two runs
of the history have one stamp, which holds because only the dispatcher and a Stop in the
queue write it and each writes a later one; then a run with `HistoryLimit` younger ones is
dropped and one with fewer is kept, by counting along the order of the stamps. `TypeCorrect` bounds the counters: a sequence
number is drawn when a run is started (`CountInv`), which happens once, so no sequence number,
stamp or position exceeds the number of runs (`RankBounded`, by an injection of entries into runs).
`Refinement` shows that the manager implements `RunQueue`. It needs `LineInv`: an entry
of the heap that is not flagged is that of a registered run shown as QUEUED, and the
active run has no entry. `cancel` is a Stop of the abstract queue when it raises the flag;
what it does under the lock, and the pop of an entry that was flagged, are stutters.

**RunEventsProofs** — any capacity, any number of runs and clicks. `NewestKept` is
inductive with what the window has handled. `NoFalseEnd` needs that every carrier of a
status (the manager's record, the event about to be published, those in the queue,
the calls, the answers) tells the truth about an end: `TrueTold`. `ShownIsRightAtRest` is
about the statuses themselves: `RestInv` says that whatever carries the status of a run (an
answer on its way, the last event of the run in the queue, what the window shows) is out of
date only if something newer about that run is still to come, from a call, the dispatcher or
the queue. What is newer is counted in events: as long as the window took nothing out of
order, the queue holds exactly the events it has not handled (`Counted`). `TypeCorrect` includes
that the queue stays within its capacity: a full one drops its oldest event first.

**ModelDownloadsProofs** — any catalogue, any number of installs, removals and lives.
The invariant ties disk to thread, for all models that are not `cut` (`FilesFit`): a
half-downloaded model is that of the job in hand,
at a step that writes, or while the process starts one it is still to discard; from
begin() to the end of an install its entry is pending; a
model downloaded in place has no marker before `Mark`. The shutdown's flags are down
while the control plane is up (`FlagsFit`), and nobody works while the process is
down or starting (`Quiet`); a job is in one of the queue, the worker's hands and
the hands of a stop (`AnswersFit`). Deletions come from four threads, one file at a time; what
each of their steps keeps is proved once, of `Deletes` (`DeletesFacts`, `DeletesKeeps`,
`FilesDeleted`). It yields the six safety properties of `downloads` and `TypeCorrect`, with
the history within its limit.

**InferClientProofs** — any jobs, types and number of workers, any mishaps. Types,
processes, line and events are settled first: `process` is none or the worker of
`queues`; a dead worker has no job and no command; a job in the line is there once,
accepted and unanswered; events, flags and cancel commands tell the truth. Two facts carry the rest.
`SentOnce`: a job goes to a worker once, from the head of the line, and is then in one
place: in a command queue, on a worker, or over with its event on the way. Hence,
when the active job's event is dispatched, the client's worker has no other job, so
the next one finds it idle (`OneAtATime`), which is what `NeverRejected` says.
`ActiveServed`: unless a crash, a changed setting or an expired handshake interfered, a
job that was sent has a live worker with the current setting; so the reader need not
start one when it moves the queue on, `DispatchStrands` cannot happen, and the line stays
complete (`LineFull`). `HandsInv` says in whose hands the active job is: unless something excuses it
(`Excused`), reader and watchdog are up (`ClientUp`), an event is on the way at most once
(`EventsOnce`), and the active job is in a command, on the client's worker, or in an event
(`Carried`). That is the second half of `NoJobLost` and the safety core of
`EveryJobAnswered`: what fairness has to add is that those steps are taken. They yield `OneAnswer`, `AnswersAreTrue`, `NeverTwoWorkers`,
`WorkersNeverRefuse`, `LineLosesNoJob` and `ToolsNeverMix`. `LineOrder`, on top of them, ties
the line to the history of accepted jobs: a step adds at the end of both or shortens the
line (`StepMoves`), hence `FirstInFirstOut`, which says of any number of jobs what no run here
is large enough to say. `OneOther` is about what a crash leaves: the reader forgets a worker only
after it found the one before dead, so beside the client's worker at most one is alive. Hence
`NeverThreeWorkers`, `NamesNeverRunOut` (four names for workers are enough, so that bound
of the runs cuts nothing off) and, with it, `TypeCorrect`.

**ModelImportProofs** — any number of jobs and faults. `KeptSomewhere` says where the whole
version is: in its place; in the backup, if `_promote` is between its renames or a fault
happened; or, after a fault, only in staging, about to be promoted. It needs `Staging` (the
staged version is whole until it is promoted and gone afterwards, a failed job leaves
nothing staged but what it could not delete, and the backup's place is free when it is
made) and `KeptAtDrop` (the backup is deleted only while the target is whole). `Undisturbed`
follows a job that no request joins: the target and the record are those it found until
`MoveOld`, then the backup is, then the target is its own version. They yield
`OneFaultIsSurvived` and `ImportIsAllOrNothing`, however many faults there are: the old version
is left under the backup's name only if the promotion failed and putting it back failed, too, and
something is left staged only if its deletion did.

**Only model-checked.** Every safety and action property of a run, each refinement, and the
`TypeOK` of each module with a proof module is a theorem. What is left to TLC is liveness
(`RunEnds`, `EveryRunGetsItsTurn`, `StopFreesQueue`, and `EveryJobAnswered` of the client and
of the downloads): TLAPS has neither ENABLED nor fairness. The runs that expect a violation
refute their property on a small instance, which is all a refutation needs.

## 5. Findings

* **A second Stop loses a run** (`manager_cancel_twice`). `cancel()` writes
  CANCEL_REQUESTED over any status but QUEUED. After a run cancelled in the queue is
  cancelled once more, it is in neither the queue nor the history, nobody moves it on
  and no pruning removes it. The test of that case expects it in the history.
* **A worker is forgotten after a crash** (`infer_crash`). The reader replaces the dead
  worker and starts the next job on the new one, then sets `_process = None`. The next
  `start_job` spawns a second worker on the same device, but never a third (`NeverThreeWorkers`).
* **The key ignores plain values on ports** (`cache_prompt`). A node whose prompt comes from
  another node is served the image of the old prompt.
* **A replaced model lives on** (`cache_model`). The stamp changes with the files, but the
  worker keeps the old model under an unchanged name, and its output is stored under
  the new stamp.

Met on the way, and visible in the models, without a run of their own: a device named
twice in `LLUNA_INFER_DEVICES` gets two heavy slots (`ExclusiveIfDistinct` has the
precondition); an exception of the second `compile` leaves the run QUEUED for ever
(`CompileRaises`); the reader may wait for a handshake only it can read and end
(`DispatchStrands`); `ensure_started` kills a worker under its active job when the
setting changed (`Toggle`); an unreadable `index.json` is overwritten by the next save
(`unreadable`). The properties that these would break name them as exceptions. Further:

* with two branches under way the wrong node may be marked FAILED and the failed one
  stay RUNNING, and a Stop that is met before the next node has begun marks the last
  node, which succeeded, as CANCELLED (`BlamesTheRightNode` is about runs in line, and says
  nothing of CANCELLED);
* a Stop during a worker's crash makes the run FAILED, not CANCELLED, and a Stop during
  the second before a retry still sends one more job (`Falters`, `Retry`);
* a plan that the second compile finds empty makes the run COMPLETED without a step;
* a stopped install's entry stays in the pending file, because the queue drops an entry
  of kind "model" and the installers registered one of their own kind; a shutdown that
  deletes the files of a running install may turn its cancel into a failure, whose
  `fail()` drops the entry that was just saved. Neither leaves debris by itself;
* an uninstall of a model that was downloaded in place deletes it file by file and has no entry in
  the pending file: when it fails or the process is killed half-way, what is left is shown as
  installed if its marker is still there, or adopted by the next `list_models` if its
  `model_index.json` is (`tools/installers/generate.py:146-174`, `204-209`), which can also happen
  while it deletes; else it is debris that no start finds (`UninstallDeletes`, `Adopt`);
* `is_model_installed` sees the files and asks the pending file before it touches the marker: an
  install that begins in between gets the marker in the middle of its download, and its
  own revert then leaves the marked half alone (`Adopt`, `Kept`);
* `discard_partial` looks at the marker once and ignores errors. A shutdown that deletes
  while the worker puts the marker there ends with a marked, incomplete model; a deletion that
  fails in a revert leaves debris whose entry is dropped if the install had failed; and a
  download that lost files to a deletion passes a check that looks for some of the names
  (`DiscardStep`, `Revert`, `Verify`). `PartialsTracked`, `CleanWhenIdle` and
  `InstalledIsComplete` except the models this happened to (`cut`);
* the starter models that `--schedule-default-models` "queues ... after the first launch"
  (`README.md:58`) are in the pending file, but `prepare_restart_pending` only reverts and
  logs them: nothing queues them;
* an import "promoted atomically" (`models/reference/PLATFORM.md:86`) is promoted by two
  renames: after a crash between them the old version is on disk only as
  `.<id>.previous`, which `_load_startup` skips, so the model is gone from the list until it
  is imported again, and that import deletes the backup first; the same holds when a
  registration makes the folder anew between the renames, for then `_promote` does not put
  the backup back (`Promote`);
* `register` and `configure` rewrite the manifest of an installed model in place, before
  any new weights are there; an uninstall that fails or is cut short leaves a folder that
  still scans as installed if its marker survived (or the files that its manifest names did), or a
  record that says installed if it did not (`RemoveCuts`, `RemoveDeletes`); an uninstall during an
  import may take the folder before `record_path` reads it, and the import then fails
  without a record (`ScanTarget`); an uninstall that meets an import drops the record of the
  model just promoted; the staging folder of a process that died is never cleared, since
  its name has that process's number (`Exit`), and one that a failed job could not delete stays
  until the next job on the model;
* a window that lost an event to a full queue or a closed socket, or whose answer crossed
  a later event, shows a stale status until the next event (`RightAtRest` excludes it);
* (not modelled: `_save_output`) "Keep both" (`graph/registry.py:1353`) chooses all its new
  names before it reserves one (`graph/executor.py:1281`): of the items `a.png` and
  `a-1.png`, with an `a.png` already in the folder, both get `a-1.png` and the second
  overwrites the first. The check for existing files is done once, before the first copy,
  so that two Save nodes of one wave on one folder can both pass it under "Ask".

## 6. What is left

1. The configuration service (update under a lock, announcement outside it, fall back to a
   backup) and the Electron shell's stop.
2. The inference adapter's wait composed with `InferClient` itself: `Falters` is today a
   free choice, instead of what `InferClient` shows a job can end as.
3. The run store's panels and node badges beside `RunEvents`, and a second window.
4. The stop of `install.py` from another process, and installs that the worker starts
   itself (`ensure_model_installed`), in `ModelDownloads`.
