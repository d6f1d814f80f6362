----------------------------- MODULE ResultCache -----------------------------
(* The node cache of RunManager (graph/executor.py, graph/cache.py) over the  *)
(* artifact store (artifacts/store.py): the key of a step, the lookup, the    *)
(* commit of its output, the two JSON files that survive a crash, and the     *)
(* model a worker keeps loaded.  Steps of branches that run together, and of  *)
(* run after run, share the cache.  An artifact is named by the step that     *)
(* made it.  Left out: batches, whose items have keys of their own, and the   *)
(* thumbnails.                                                                *)
EXTENDS Naturals, FiniteSets, Functions

CONSTANTS
    Steps,          \* executions of _run_step on a content-addressed node
    Node,           \* the node executed, with its parameters
    ImagePorts,     \* its connected ports that carry an artifact
    Prompts,        \* values that may arrive on its other port
    Files,          \* the source files the user picks
    Contents,       \* what may be in them
    MaxVersion,     \* bound: how often the custom model is replaced in place
    Nothing

ASSUME StepsAssumption == IsFiniteSet(Steps) /\ Nothing \notin Steps
ASSUME ContentsAssumption == Contents # {} /\ MaxVersion \in Nat

VARIABLES
    source,         \* the content of each source file now
    known,          \* the contents it had when it was registered
    version,        \* the model's files now, told apart by revision_stamp
    resident,       \* the version DynamicRuntimeManager holds loaded, or Nothing
    pc,             \* where a step is
    request,        \* what a step found: files, hash and prompt, and the stamp
    output,         \* the artifact a step ended up with, or Nothing
    hit,            \* steps served from the cache
    made,           \* what each artifact was really made from
    files,          \* artifacts whose file is in files_dir
    lost,           \* ... or was, until somebody deleted it
    records, index, \* _records, and index.json
    cache, cacheFile,   \* _cache, and graph-cache.json
    forgotten,      \* artifacts a successful clear_cache took out
    torn,           \* was a hash out of date when it was used?
    unreadable      \* could one of the files not be read at a start?

diskVars == <<files, lost, index, cacheFile>>
memVars == <<records, cache>>
modelVars == <<version, resident>>
stepVars == <<pc, request, output, hit, made>>
vars == <<source, known, modelVars, stepVars, diskVars, memVars, forgotten, torn, unreadable>>

Busy == {s \in Steps : pc[s] \notin {"new", "done", "failed", "gone"}}

(* Seeded bug: an input is named by its path, not by its content.             *)
KeyOf_Paths(r) ==
    <<Node, [f \in Files |-> Cardinality({p \in ImagePorts : r.files[p] = f})], r.stamp>>

(* build_cache_key: the node with its parameters, the sorted hashes of its    *)
(* artifacts, from whatever port, and the stamp of the model.                 *)
KeyOf(r) ==
    <<Node, [c \in Contents |-> Cardinality({p \in ImagePorts : r.hash[p] = c})], r.stamp>>

Empty == [k \in {} |-> Nothing]
With(f, k, a) == [x \in DOMAIN f \cup {k} |-> IF x = k THEN a ELSE f[x]]

Init ==
    /\ source \in [Files -> Contents] /\ known = [f \in Files |-> {}]
    /\ version = 0 /\ resident = Nothing
    /\ pc = [s \in Steps |-> "new"]
    /\ request = [s \in Steps |-> Nothing] /\ output = [s \in Steps |-> Nothing]
    /\ hit = {} /\ made = [s \in Steps |-> Nothing]
    /\ files = {} /\ lost = {}
    /\ records = {} /\ index = {}
    /\ cache = Empty /\ cacheFile = Empty
    /\ forgotten = {} /\ torn = FALSE /\ unreadable = FALSE

Goto(s, l) == pc' = [pc EXCEPT ![s] = l]
FilesStay == UNCHANGED <<diskVars, memVars, forgotten, torn, unreadable>>

-----------------------------------------------------------------------------
(* A step: _run_step around one content-addressed node *)

(* _load_granted_media: a source is registered and hashed now, or, once its   *)
(* path grant expired, an earlier record is taken with the hash it has.       *)
HashesOf(f) == known[f] \cup {source[f]}

(* The hashes of the inputs and the stamp of the model are collected.         *)
Gather(s) ==
    /\ pc[s] = "new"
    /\ \E from \in [ImagePorts -> Files], found \in [ImagePorts -> Contents], prompt \in Prompts :
          /\ \A p \in ImagePorts : found[p] \in HashesOf(from[p])
          /\ known' = [f \in Files |->
                 known[f] \cup {found[p] : p \in {q \in ImagePorts : from[q] = f}}]
          /\ torn' = (torn \/ \E p \in ImagePorts : found[p] # source[from[p]])
          /\ request' = [request EXCEPT ![s] =
                 [files |-> from, hash |-> found, prompt |-> prompt, stamp |-> version]]
    /\ Goto(s, "keyed")
    /\ UNCHANGED <<source, modelVars, output, hit, made, diskVars, memVars, forgotten, unreadable>>

(* A hit needs the entry, the record and its file ...                         *)
Hit(s) ==
    /\ pc[s] = "keyed"
    /\ KeyOf(request[s]) \in DOMAIN cache
    /\ cache[KeyOf(request[s])] \in records \cap files
    /\ output' = [output EXCEPT ![s] = cache[KeyOf(request[s])]]
    /\ hit' = hit \cup {s}
    /\ Goto(s, "storing")
    /\ UNCHANGED <<source, known, modelVars, request, made>> /\ FilesStay

(* ... and a run may be forced, or the cache be off, at any time.             *)
Miss(s) ==
    /\ pc[s] = "keyed"
    /\ Goto(s, "missed")
    /\ UNCHANGED <<source, known, modelVars, request, output, hit, made>> /\ FilesStay

(* The job reads the sources and the model it has loaded, or loads it.        *)
Run(s) ==
    /\ pc[s] = "missed"
    /\ resident' = IF resident = Nothing THEN version ELSE resident
    /\ made' = [made EXCEPT ![s] = [images |-> [p \in ImagePorts |-> source[request[s].files[p]]],
                                    prompt |-> request[s].prompt, version |-> resident']]
    /\ Goto(s, "ran")
    /\ UNCHANGED <<source, known, version, request, output, hit>> /\ FilesStay

(* The job fails, or the copy into the store does.                            *)
Fails(s) ==
    /\ pc[s] \in {"missed", "ran"}
    /\ Goto(s, "failed")
    /\ UNCHANGED <<source, known, modelVars, request, output, hit, made>> /\ FilesStay

(* commit: the output is copied beside its place and renamed into it ...      *)
WriteFile(s) ==
    /\ pc[s] = "ran"
    /\ files' = files \cup {s}
    /\ Goto(s, "written")
    /\ UNCHANGED <<source, known, modelVars, request, output, hit, made, lost, index, cacheFile,
                   memVars, forgotten, torn, unreadable>>

(* Seeded bugs: an error of the save is passed over; only the new record is   *)
(* saved.                                                                     *)
Record_Unchecked(s) ==
    /\ pc[s] = "written"
    /\ records' = records \cup {s}
    /\ index' \in {index, records'}
    /\ output' = [output EXCEPT ![s] = s]
    /\ Goto(s, "storing")
    /\ UNCHANGED <<source, known, modelVars, request, hit, made, files, lost, cacheFile, cache,
                   forgotten, torn, unreadable>>

Record_Alone(s) ==
    /\ pc[s] = "written"
    /\ records' = records \cup {s}
    /\ index' = {s}
    /\ output' = [output EXCEPT ![s] = s]
    /\ Goto(s, "storing")
    /\ UNCHANGED <<source, known, modelVars, request, hit, made, files, lost, cacheFile, cache,
                   forgotten, torn, unreadable>>

(* ... and recorded under the store's lock; a save that raises leaves the     *)
(* record in memory.                                                          *)
Record(s) ==
    /\ pc[s] = "written"
    /\ records' = records \cup {s}
    /\ \/ /\ index' = records'
          /\ output' = [output EXCEPT ![s] = s]
          /\ Goto(s, "storing")
       \/ /\ Goto(s, "failed")
          /\ UNCHANGED <<index, output>>
    /\ UNCHANGED <<source, known, modelVars, request, hit, made, files, lost, cacheFile, cache,
                   forgotten, torn, unreadable>>

(* Under _cache_lock the entry is stored, after a hit once more, and all of   *)
(* the cache saved, which may raise.                                          *)
Store(s) ==
    /\ pc[s] = "storing"
    /\ cache' = With(cache, KeyOf(request[s]), output[s])
    /\ \/ cacheFile' = cache' /\ Goto(s, "done")
       \/ UNCHANGED cacheFile /\ Goto(s, "failed")
    /\ UNCHANGED <<source, known, modelVars, request, output, hit, made, files, lost, index, records,
                   forgotten, torn, unreadable>>

-----------------------------------------------------------------------------
(* What happens beside the steps *)

(* Seeded bug: the file is left as it is.                                     *)
Clear_MemoryOnly ==
    /\ cache' = Empty
    /\ forgotten' = forgotten \cup ((Range(cache) \cup Range(cacheFile)) \ {output[s] : s \in Busy})
    /\ UNCHANGED <<source, known, modelVars, stepVars, diskVars, records, torn, unreadable>>

(* clear_cache; if the save raises, the caller is told so.  An artifact that  *)
(* a step has in its hands may come back with that step.                      *)
Clear ==
    /\ cache' = Empty
    /\ \/ /\ cacheFile' = Empty
          /\ forgotten' = forgotten \cup
                 ((Range(cache) \cup Range(cacheFile)) \ {output[s] : s \in Busy})
       \/ UNCHANGED <<cacheFile, forgotten>>
    /\ UNCHANGED <<source, known, modelVars, stepVars, files, lost, index, records, torn, unreadable>>

(* The process dies at any point and starts again: _load and _load_cache,     *)
(* each of which takes a file it cannot read for an empty one.                *)
Restart ==
    /\ pc' = [s \in Steps |-> IF s \in Busy THEN "gone" ELSE pc[s]]
    /\ resident' = Nothing
    /\ \/ records' = index /\ cache' = cacheFile /\ UNCHANGED unreadable
       \/ records' = index /\ cache' = Empty /\ unreadable' = TRUE
       \/ records' = {} /\ cache' = cacheFile /\ unreadable' = TRUE
    /\ UNCHANGED <<source, known, version, request, output, hit, made, diskVars, forgotten, torn>>

(* The user saves another content over a source file.                         *)
Edit(f) ==
    /\ \E c \in Contents \ {source[f]} : source' = [source EXCEPT ![f] = c]
    /\ torn' = (torn \/ \E s \in Busy : pc[s] \in {"keyed", "missed"} /\ f \in Range(request[s].files))
    /\ UNCHANGED <<known, modelVars, stepVars, diskVars, memVars, forgotten, unreadable>>

(* The model is imported again or its files are swapped; no worker is told.   *)
Replace ==
    /\ version < MaxVersion
    /\ version' = version + 1
    /\ UNCHANGED <<source, known, resident, stepVars>> /\ FilesStay

(* A job of another kind, a release or a new worker empties the LRU cache.    *)
Evict ==
    /\ resident # Nothing
    /\ resident' = Nothing
    /\ UNCHANGED <<source, known, version, stepVars>> /\ FilesStay

(* Somebody cleans the data directory.                                        *)
LoseFile(a) ==
    /\ a \in files
    /\ files' = files \ {a} /\ lost' = lost \cup {a}
    /\ UNCHANGED <<source, known, modelVars, stepVars, index, cacheFile, memVars, forgotten, torn,
                   unreadable>>

-----------------------------------------------------------------------------
Step(s) == Gather(s) \/ Hit(s) \/ Miss(s) \/ Run(s) \/ Fails(s) \/ WriteFile(s) \/ Record(s) \/ Store(s)

Next ==
    \/ \E s \in Steps : Step(s) \/ LoseFile(s)
    \/ Clear \/ Restart \/ Replace \/ Evict
    \/ \E f \in Files : Edit(f)

Spec == Init /\ [][Next]_vars

-----------------------------------------------------------------------------
(* Properties *)

Requests == [files : [ImagePorts -> Files], hash : [ImagePorts -> Contents],
             prompt : Prompts, stamp : 0..MaxVersion]
Works == [images : [ImagePorts -> Contents], prompt : Prompts, version : 0..MaxVersion]

TypeOK ==
    /\ source \in [Files -> Contents] /\ known \in [Files -> SUBSET Contents]
    /\ version \in 0..MaxVersion /\ resident \in 0..MaxVersion \cup {Nothing}
    /\ pc \in [Steps -> {"new", "keyed", "missed", "ran", "written", "storing",
                         "done", "failed", "gone"}]
    /\ request \in [Steps -> Requests \cup {Nothing}]
    /\ output \in [Steps -> Steps \cup {Nothing}]
    /\ made \in [Steps -> Works \cup {Nothing}]
    /\ hit \cup files \cup lost \cup records \cup index \cup forgotten \subseteq Steps
    /\ Range(cache) \cup Range(cacheFile) \subseteq Steps
    /\ torn \in BOOLEAN /\ unreadable \in BOOLEAN

(* The three stores agree although they are saved one after the other, either *)
(* save may fail and a crash may come at any point: index.json names only     *)
(* artifacts whose file was completely written, unless somebody deleted it    *)
(* since, and graph-cache.json only artifacts that index.json names, unless a *)
(* start could not read a file.                                               *)
SavedFilesAgree ==
    /\ index \subseteq files \cup lost
    /\ unreadable \/ Range(cacheFile) \subseteq index

(* No save of one step loses the artifact of another, and no restart does,    *)
(* unless it could not read the index.                                        *)
NothingForgotten == [][unreadable \/ index \subseteq index']_vars

(* After a successful "clear cache" an entry never comes back, by a restart   *)
(* neither, but for the artifacts steps held at that moment.                  *)
ClearedStaysCleared == forgotten \cap (Range(cache) \cup Range(cacheFile)) = {}

(* "Reuse unchanged deterministic node outputs": a step served from the cache *)
(* gets an artifact made from the very inputs it has, unless the hash of a    *)
(* source was out of date when it was used.                                   *)
HitSameInputs ==
    torn \/ \A s \in hit : /\ made[output[s]].images = request[s].hash
                           /\ made[output[s]].prompt = request[s].prompt

(* "let a stale cached artifact survive a model update" is what the stamp is  *)
(* there to prevent: no hit serves the output of an older model.              *)
HitCurrentModel == \A s \in hit : made[output[s]].version >= request[s].stamp
=============================================================================
