-------------------------- MODULE ResultCacheProofs --------------------------
(* Theorems about ResultCache for any number of steps, sources, contents and  *)
(* model versions.                                                            *)
EXTENDS ResultCache, FiniteSetTheorems, TLAPS

Fresh == {"new", "keyed", "missed", "ran", "written"}

(* The artifacts that steps are about to store. *)
Storing == {s \in Steps : pc[s] = "storing"}
Held == {output[s] : s \in Storing}

(* What a busy step found is there to be used. *)
RequestsPresent == \A s \in Busy : request[s] \in Requests

(* A record is made after its file is in place. *)
RecordsBackedByFiles ==
    /\ records \cup index \subseteq files \cup lost
    /\ \A s \in Steps : pc[s] = "written" => s \in files \cup lost

(* The index in memory has all of the index on disk, and an entry is made     *)
(* after its record was saved.                                                *)
EntriesAfterRecords ==
    unreadable \/ /\ index \subseteq records
                  /\ Range(cache) \cup Range(cacheFile) \cup Held \subseteq index

(* Only a step that recorded its artifact can have it stored or cleared.      *)
OnlyRecordedStored ==
    \A a \in Range(cache) \cup Range(cacheFile) \cup Held \cup forgotten :
        a \in Steps /\ pc[a] \notin Fresh

HeldNotForgotten == Held \cap forgotten = {}

CacheInv ==
    /\ TypeOK
    /\ RequestsPresent
    /\ RecordsBackedByFiles
    /\ EntriesAfterRecords
    /\ OnlyRecordedStored
    /\ HeldNotForgotten
    /\ ClearedStaysCleared

LEMMA RangeOfWith ==
    ASSUME NEW f, NEW k, NEW a
    PROVE  Range(With(f, k, a)) \subseteq Range(f) \cup {a}
BY DEF With, Range

LEMMA RangeOfEmpty == Range(Empty) = {}
BY DEF Empty, Range

LEMMA EntryInRange ==
    ASSUME NEW f, NEW k \in DOMAIN f
    PROVE  f[k] \in Range(f)
BY DEF Range

(* A step that moves to a place other than "storing" takes nothing in hand.   *)
LEMMA HeldShrinks ==
    ASSUME TypeOK, NEW s \in Steps, NEW l, Goto(s, l), l # "storing", UNCHANGED output
    PROVE  Held' \subseteq Held
BY DEF TypeOK, Goto, Held, Storing

LEMMA InitEstablishes == Init => CacheInv
<1> SUFFICES ASSUME Init PROVE CacheInv
  OBVIOUS
<1>1. Held = {} /\ Range(cache) = {} /\ Range(cacheFile) = {}
  BY RangeOfEmpty DEF Init, Held, Storing
<1>2. TypeOK
  <2>1. torn \in BOOLEAN /\ unreadable \in BOOLEAN
    BY Zenon DEF Init
  <2> QED BY <1>1, <2>1, ContentsAssumption DEF Init, TypeOK
<1>3. RequestsPresent /\ RecordsBackedByFiles
  BY DEF Init, RequestsPresent, RecordsBackedByFiles, Busy
<1>4. EntriesAfterRecords /\ OnlyRecordedStored /\ HeldNotForgotten /\ ClearedStaysCleared
  BY <1>1 DEF Init, EntriesAfterRecords, OnlyRecordedStored, HeldNotForgotten, ClearedStaysCleared
<1> QED BY <1>2, <1>3, <1>4 DEF CacheInv

(* Types: each action changes a few variables, and each new value is in its   *)
(* set.                                                                       *)
LEMMA TypesPreserved == CacheInv /\ [Next]_vars => TypeOK' /\ RequestsPresent'
<1> SUFFICES ASSUME TypeOK, RequestsPresent, CacheInv, [Next]_vars
             PROVE  TypeOK' /\ RequestsPresent'
  BY DEF CacheInv
<1> USE DEF diskVars, memVars, modelVars, stepVars, FilesStay
<1>1. ASSUME NEW s \in Steps, Gather(s) PROVE TypeOK' /\ RequestsPresent'
  <2>1. PICK from \in [ImagePorts -> Files], found \in [ImagePorts -> Contents], prompt \in Prompts :
          /\ known' = [f \in Files |->
                 known[f] \cup {found[p] : p \in {q \in ImagePorts : from[q] = f}}]
          /\ torn' = (torn \/ \E p \in ImagePorts : found[p] # source[from[p]])
          /\ request' = [request EXCEPT ![s] =
                 [files |-> from, hash |-> found, prompt |-> prompt, stamp |-> version]]
    BY <1>1 DEF Gather
  <2>2. [files |-> from, hash |-> found, prompt |-> prompt, stamp |-> version] \in Requests
    BY DEF Requests, TypeOK
  <2>3. torn' \in BOOLEAN
    BY <2>1, Zenon
  <2>4. unreadable' \in BOOLEAN
    BY <1>1, Zenon DEF Gather, TypeOK
  <2>5. known' \in [Files -> SUBSET Contents]
    BY <2>1 DEF TypeOK
  <2>6. request' \in [Steps -> Requests \cup {Nothing}] /\ request'[s] \in Requests
    BY <2>1, <2>2 DEF TypeOK
  <2>7. RequestsPresent'
    BY <1>1, <2>1, <2>6 DEF Gather, Goto, RequestsPresent, Busy, TypeOK
  <2> QED BY <1>1, <2>3, <2>4, <2>5, <2>6, <2>7 DEF Gather, Goto, TypeOK
<1>2. ASSUME NEW s \in Steps, Hit(s) PROVE TypeOK' /\ RequestsPresent'
  <2>1. torn' \in BOOLEAN /\ unreadable' \in BOOLEAN
    BY <1>2, Zenon DEF Hit, TypeOK
  <2>2. cache[KeyOf(request[s])] \in Steps
    BY <1>2, EntryInRange DEF Hit, TypeOK
  <2>3. RequestsPresent'
    BY <1>2 DEF Hit, Goto, RequestsPresent, Busy, TypeOK
  <2> QED BY <1>2, <2>1, <2>2, <2>3 DEF Hit, Goto, TypeOK
<1>3. ASSUME NEW s \in Steps, Miss(s) \/ Fails(s) PROVE TypeOK' /\ RequestsPresent'
  <2>1. torn' \in BOOLEAN /\ unreadable' \in BOOLEAN
    BY <1>3, Zenon DEF Miss, Fails, TypeOK
  <2>2. RequestsPresent'
    BY <1>3 DEF Miss, Fails, Goto, RequestsPresent, Busy, TypeOK
  <2> QED BY <1>3, <2>1, <2>2 DEF Miss, Fails, Goto, TypeOK
<1>4. ASSUME NEW s \in Steps, Run(s) PROVE TypeOK' /\ RequestsPresent'
  <2>1. torn' \in BOOLEAN /\ unreadable' \in BOOLEAN
    BY <1>4, Zenon DEF Run, TypeOK
  <2>2. resident' \in 0..MaxVersion
    <3>1. version \in 0..MaxVersion /\ (resident # Nothing => resident \in 0..MaxVersion)
      BY DEF TypeOK
    <3> QED BY <1>4, <3>1 DEF Run
  <2>3. request[s] \in Requests
    BY <1>4 DEF Run, RequestsPresent, Busy
  <2>4. [images |-> [p \in ImagePorts |-> source[request[s].files[p]]],
         prompt |-> request[s].prompt, version |-> resident'] \in Works
    BY <2>2, <2>3 DEF Works, Requests, TypeOK
  <2>5. made' \in [Steps -> Works \cup {Nothing}]
    BY <1>4, <2>4 DEF Run, TypeOK
  <2>6. RequestsPresent'
    BY <1>4 DEF Run, Goto, RequestsPresent, Busy, TypeOK
  <2> QED BY <1>4, <2>1, <2>2, <2>5, <2>6 DEF Run, Goto, TypeOK
<1>5. ASSUME NEW s \in Steps, WriteFile(s) PROVE TypeOK' /\ RequestsPresent'
  <2>1. torn' \in BOOLEAN /\ unreadable' \in BOOLEAN
    BY <1>5, Zenon DEF WriteFile, TypeOK
  <2>2. RequestsPresent'
    BY <1>5 DEF WriteFile, Goto, RequestsPresent, Busy, TypeOK
  <2> QED BY <1>5, <2>1, <2>2 DEF WriteFile, Goto, TypeOK
<1>6. ASSUME NEW s \in Steps, Record(s) PROVE TypeOK' /\ RequestsPresent'
  <2>1. torn' \in BOOLEAN /\ unreadable' \in BOOLEAN
    BY <1>6, Zenon DEF Record, TypeOK
  <2>2. RequestsPresent'
    BY <1>6 DEF Record, Goto, RequestsPresent, Busy, TypeOK
  <2>3. output' \in [Steps -> Steps \cup {Nothing}] /\ records' \subseteq Steps /\ index' \subseteq Steps
    BY <1>6 DEF Record, TypeOK
  <2> QED BY <1>6, <2>1, <2>2, <2>3 DEF Record, Goto, TypeOK
<1>7. ASSUME NEW s \in Steps, Store(s) PROVE TypeOK' /\ RequestsPresent'
  <2>1. torn' \in BOOLEAN /\ unreadable' \in BOOLEAN
    BY <1>7, Zenon DEF Store, TypeOK
  <2>2. RequestsPresent'
    BY <1>7 DEF Store, Goto, RequestsPresent, Busy, TypeOK
  <2>3. output[s] \in Steps
    BY <1>7 DEF Store, CacheInv, OnlyRecordedStored, Held, Storing
  <2>4. Range(cache') \subseteq Steps /\ Range(cacheFile') \subseteq Steps
    BY <1>7, <2>3, RangeOfWith DEF Store, TypeOK
  <2> QED BY <1>7, <2>1, <2>2, <2>4 DEF Store, Goto, TypeOK
<1>8. ASSUME Clear PROVE TypeOK' /\ RequestsPresent'
  <2>1. torn' \in BOOLEAN /\ unreadable' \in BOOLEAN
    BY <1>8, Zenon DEF Clear, TypeOK
  <2>2. Range(cache') \subseteq Steps /\ Range(cacheFile') \subseteq Steps /\ forgotten' \subseteq Steps
    BY <1>8, RangeOfEmpty DEF Clear, TypeOK
  <2> QED BY <1>8, <2>1, <2>2 DEF Clear, TypeOK, RequestsPresent, Busy
<1>9. ASSUME Restart PROVE TypeOK' /\ RequestsPresent'
  <2>1. torn' \in BOOLEAN /\ unreadable' \in BOOLEAN
    BY <1>9, Zenon DEF Restart, TypeOK
  <2>2. Range(cache') \subseteq Steps /\ Range(cacheFile') \subseteq Steps /\ records' \subseteq Steps
    BY <1>9, RangeOfEmpty DEF Restart, TypeOK
  <2>3. RequestsPresent'
    BY <1>9 DEF Restart, RequestsPresent, Busy, TypeOK
  <2> QED BY <1>9, <2>1, <2>2, <2>3 DEF Restart, Busy, TypeOK
<1>10. ASSUME NEW f \in Files, Edit(f) PROVE TypeOK' /\ RequestsPresent'
  <2>1. unreadable' \in BOOLEAN
    BY <1>10, Zenon DEF Edit, TypeOK
  <2>2. torn' \in BOOLEAN
    BY <1>10, Zenon DEF Edit, TypeOK
  <2> QED BY <1>10, <2>1, <2>2 DEF Edit, TypeOK, RequestsPresent, Busy
<1>11. ASSUME Replace \/ Evict PROVE TypeOK' /\ RequestsPresent'
  <2>1. torn' \in BOOLEAN /\ unreadable' \in BOOLEAN
    BY <1>11, Zenon DEF Replace, Evict, TypeOK
  <2>2. version' \in 0..MaxVersion
    BY <1>11, ContentsAssumption DEF Replace, Evict, TypeOK
  <2> QED BY <1>11, <2>1, <2>2 DEF Replace, Evict, TypeOK, RequestsPresent, Busy
<1>12. ASSUME NEW s \in Steps, LoseFile(s) PROVE TypeOK' /\ RequestsPresent'
  <2>1. torn' \in BOOLEAN /\ unreadable' \in BOOLEAN
    BY <1>12, Zenon DEF LoseFile, TypeOK
  <2> QED BY <1>12, <2>1 DEF LoseFile, TypeOK, RequestsPresent, Busy
<1>13. ASSUME UNCHANGED vars PROVE TypeOK' /\ RequestsPresent'
  <2>1. torn' \in BOOLEAN /\ unreadable' \in BOOLEAN
    BY <1>13, Zenon DEF vars, TypeOK
  <2> QED BY <1>13, <2>1 DEF vars, TypeOK, RequestsPresent, Busy
<1> QED BY <1>1, <1>2, <1>3, <1>4, <1>5, <1>6, <1>7, <1>8, <1>9, <1>10, <1>11, <1>12, <1>13
        DEF Next, Step

(* Files before records, records before entries.                              *)
LEMMA FilesPreserved == CacheInv /\ [Next]_vars => RecordsBackedByFiles'
<1> SUFFICES ASSUME CacheInv, [Next]_vars PROVE RecordsBackedByFiles'
  OBVIOUS
<1> USE DEF CacheInv, TypeOK, RecordsBackedByFiles, Goto, diskVars, memVars, modelVars, stepVars,
            FilesStay
<1>1. ASSUME NEW s \in Steps, Gather(s) \/ Hit(s) \/ Miss(s) \/ Run(s) \/ Fails(s)
      PROVE  RecordsBackedByFiles'
  BY <1>1 DEF Gather, Hit, Miss, Run, Fails
<1>2. ASSUME NEW s \in Steps, WriteFile(s) PROVE RecordsBackedByFiles'
  BY <1>2 DEF WriteFile
<1>3. ASSUME NEW s \in Steps, Record(s) PROVE RecordsBackedByFiles'
  BY <1>3 DEF Record
<1>4. ASSUME NEW s \in Steps, Store(s) PROVE RecordsBackedByFiles'
  BY <1>4 DEF Store
<1>5. ASSUME Restart PROVE RecordsBackedByFiles'
  BY <1>5 DEF Restart, Busy
<1>6. ASSUME NEW s \in Steps, LoseFile(s) PROVE RecordsBackedByFiles'
  BY <1>6 DEF LoseFile
<1>7. ASSUME NEW f \in Files, Edit(f) PROVE RecordsBackedByFiles'
  BY <1>7 DEF Edit
<1>8. ASSUME Clear \/ Replace \/ Evict \/ UNCHANGED vars PROVE RecordsBackedByFiles'
  BY <1>8 DEF Clear, Replace, Evict, vars
<1> QED BY <1>1, <1>2, <1>3, <1>4, <1>5, <1>6, <1>7, <1>8 DEF Next, Step

(* The four parts about entries depend on these variables only. *)
EntryInv == EntriesAfterRecords /\ OnlyRecordedStored /\ HeldNotForgotten /\ ClearedStaysCleared

LEMMA NothingStored ==
    ASSUME CacheInv, UNCHANGED <<unreadable, records, index, cache, cacheFile, forgotten>>,
           Held' \subseteq Held,
           \A a \in Steps : pc[a] \notin Fresh => pc'[a] \notin Fresh
    PROVE  EntryInv'
<1>1. EntriesAfterRecords'
  BY DEF CacheInv, EntriesAfterRecords
<1>2. OnlyRecordedStored'
  BY DEF CacheInv, OnlyRecordedStored
<1>3. HeldNotForgotten' /\ ClearedStaysCleared'
  BY DEF CacheInv, HeldNotForgotten, ClearedStaysCleared
<1> QED BY <1>1, <1>2, <1>3 DEF EntryInv

LEMMA EntriesPreserved == CacheInv /\ [Next]_vars => EntryInv'
<1> SUFFICES ASSUME CacheInv, [Next]_vars PROVE EntryInv'
  OBVIOUS
<1> USE DEF diskVars, memVars, modelVars, stepVars, FilesStay
<1>0. TypeOK /\ EntriesAfterRecords /\ OnlyRecordedStored /\ HeldNotForgotten /\ ClearedStaysCleared
  BY DEF CacheInv
<1>1. ASSUME NEW s \in Steps, Gather(s) \/ Miss(s) \/ Run(s) \/ Fails(s) \/ WriteFile(s)
      PROVE  EntryInv'
  <2>1. PICK l : Goto(s, l) /\ l # "storing" /\ UNCHANGED output /\ pc[s] \in Fresh
    BY <1>1 DEF Gather, Miss, Run, Fails, WriteFile, Fresh
  <2>2. UNCHANGED <<unreadable, records, index, cache, cacheFile, forgotten>>
    BY <1>1 DEF Gather, Miss, Run, Fails, WriteFile
  <2>3. \A a \in Steps : pc[a] \notin Fresh => pc'[a] \notin Fresh
    BY <1>0, <2>1 DEF Goto, TypeOK
  <2> QED BY <1>0, <2>1, <2>2, <2>3, HeldShrinks, NothingStored
<1>2. ASSUME NEW s \in Steps, Hit(s) PROVE EntryInv'
  <2> DEFINE a == cache[KeyOf(request[s])]
  <2>1. a \in Range(cache)
    BY <1>2, EntryInRange DEF Hit
  <2>2. Held' \subseteq Held \cup {a}
    BY <1>0, <1>2 DEF Hit, Goto, Held, Storing, TypeOK
  <2>3. UNCHANGED <<unreadable, records, index, cache, cacheFile, forgotten>>
    BY <1>2 DEF Hit
  <2>4. \A b \in Steps : pc[b] \notin Fresh => pc'[b] \notin Fresh
    BY <1>0, <1>2 DEF Hit, Goto, TypeOK, Fresh
  <2>5. EntriesAfterRecords'
    BY <1>0, <2>1, <2>2, <2>3 DEF EntriesAfterRecords
  <2>6. OnlyRecordedStored'
    BY <1>0, <2>1, <2>2, <2>3, <2>4 DEF OnlyRecordedStored
  <2>7. HeldNotForgotten' /\ ClearedStaysCleared'
    BY <1>0, <2>1, <2>2, <2>3 DEF HeldNotForgotten, ClearedStaysCleared
  <2> QED BY <2>5, <2>6, <2>7 DEF EntryInv
<1>3. ASSUME NEW s \in Steps, Record(s) PROVE EntryInv'
  <2>1. pc[s] = "written" /\ records' = records \cup {s} /\ index \cup index' \subseteq index \cup records'
    BY <1>3 DEF Record
  <2>2. UNCHANGED <<unreadable, cache, cacheFile, forgotten>>
    BY <1>3 DEF Record
  <2>3. s \notin forgotten
    BY <1>0, <2>1 DEF OnlyRecordedStored, Fresh
  <2>4. CASE index' = records' /\ output' = [output EXCEPT ![s] = s] /\ Goto(s, "storing")
    <3>1. Held' \subseteq Held \cup {s}
      BY <1>0, <2>4 DEF Goto, Held, Storing, TypeOK
    <3>2. EntriesAfterRecords'
      BY <1>0, <2>1, <2>2, <2>4, <3>1 DEF EntriesAfterRecords
    <3>3. pc'[s] \notin Fresh /\ \A b \in Steps : pc[b] \notin Fresh => pc'[b] \notin Fresh
      BY <1>0, <2>4 DEF Goto, TypeOK, Fresh
    <3>4. OnlyRecordedStored'
      BY <1>0, <2>2, <3>1, <3>3 DEF OnlyRecordedStored
    <3>5. HeldNotForgotten' /\ ClearedStaysCleared'
      BY <1>0, <2>2, <2>3, <3>1 DEF HeldNotForgotten, ClearedStaysCleared
    <3> QED BY <3>2, <3>4, <3>5 DEF EntryInv
  <2>5. CASE Goto(s, "failed") /\ UNCHANGED <<index, output>>
    <3>1. Held' \subseteq Held
      BY <1>0, <2>5, HeldShrinks
    <3>2. EntriesAfterRecords'
      BY <1>0, <2>1, <2>2, <2>5, <3>1 DEF EntriesAfterRecords
    <3>3. \A b \in Steps : pc[b] \notin Fresh => pc'[b] \notin Fresh
      BY <1>0, <2>5 DEF Goto, TypeOK, Fresh
    <3>4. OnlyRecordedStored'
      BY <1>0, <2>2, <3>1, <3>3 DEF OnlyRecordedStored
    <3>5. HeldNotForgotten' /\ ClearedStaysCleared'
      BY <1>0, <2>2, <3>1 DEF HeldNotForgotten, ClearedStaysCleared
    <3> QED BY <3>2, <3>4, <3>5 DEF EntryInv
  <2> QED BY <1>3, <2>4, <2>5 DEF Record
<1>4. ASSUME NEW s \in Steps, Store(s) PROVE EntryInv'
  <2>1. output[s] \in Held
    BY <1>4 DEF Store, Held, Storing
  <2>2. Range(cache') \subseteq Range(cache) \cup {output[s]}
    BY <1>4, RangeOfWith DEF Store
  <2>3. Range(cacheFile') \subseteq Range(cacheFile) \cup Range(cache')
    BY <1>4 DEF Store
  <2>4. PICK l : Goto(s, l) /\ l \in {"done", "failed"} /\ UNCHANGED output
    BY <1>4 DEF Store
  <2>5. Held' \subseteq Held
    BY <1>0, <2>4, HeldShrinks
  <2>6. UNCHANGED <<unreadable, records, index, forgotten>>
    BY <1>4 DEF Store
  <2>7. EntriesAfterRecords'
    BY <1>0, <2>1, <2>2, <2>3, <2>5, <2>6 DEF EntriesAfterRecords
  <2>8. \A b \in Steps : pc[b] \notin Fresh => pc'[b] \notin Fresh
    BY <1>0, <2>4 DEF Goto, TypeOK, Fresh
  <2>9. OnlyRecordedStored'
    BY <1>0, <2>1, <2>2, <2>3, <2>5, <2>6, <2>8 DEF OnlyRecordedStored
  <2>10. HeldNotForgotten' /\ ClearedStaysCleared'
    BY <1>0, <2>1, <2>2, <2>3, <2>5, <2>6 DEF HeldNotForgotten, ClearedStaysCleared
  <2> QED BY <2>7, <2>9, <2>10 DEF EntryInv
<1>5. ASSUME Clear PROVE EntryInv'
  <2>1. Range(cache') = {} /\ Range(cacheFile') \subseteq Range(cacheFile)
    BY <1>5, RangeOfEmpty DEF Clear
  <2>2. UNCHANGED <<unreadable, records, index, pc, output>>
    BY <1>5 DEF Clear
  <2>3. Held' = Held
    BY <2>2 DEF Held, Storing
  <2>4. Held \subseteq {output[s] : s \in Busy}
    BY DEF Held, Storing, Busy
  <2>5. forgotten' \subseteq forgotten \cup ((Range(cache) \cup Range(cacheFile)) \ Held)
    BY <1>5, <2>4 DEF Clear
  <2>6. EntriesAfterRecords'
    BY <1>0, <2>1, <2>2, <2>3 DEF EntriesAfterRecords
  <2>7. OnlyRecordedStored'
    BY <1>0, <2>1, <2>2, <2>3, <2>5 DEF OnlyRecordedStored
  <2>8. HeldNotForgotten'
    BY <1>0, <2>3, <2>5 DEF HeldNotForgotten
  <2>9. ClearedStaysCleared'
    <3>1. Range(cacheFile') = {} \/ (cacheFile' = cacheFile /\ forgotten' = forgotten)
      BY <1>5, RangeOfEmpty DEF Clear
    <3> QED BY <1>0, <2>1, <3>1 DEF ClearedStaysCleared
  <2> QED BY <2>6, <2>7, <2>8, <2>9 DEF EntryInv
<1>6. ASSUME Restart PROVE EntryInv'
  <2>1. Held' = {}
    BY <1>0, <1>6 DEF Restart, Held, Storing, Busy, TypeOK
  <2>2. UNCHANGED <<index, cacheFile, forgotten>>
    BY <1>6 DEF Restart
  <2>3. Range(cache') \subseteq Range(cacheFile)
    BY <1>6, RangeOfEmpty DEF Restart
  <2>4. EntriesAfterRecords'
    <3>1. unreadable' \/ (records' = index /\ cache' = cacheFile /\ unreadable' = unreadable)
      BY <1>6 DEF Restart
    <3> QED BY <1>0, <2>1, <2>2, <3>1 DEF EntriesAfterRecords
  <2>5. \A b \in Steps : pc[b] \notin Fresh => pc'[b] \notin Fresh
    BY <1>0, <1>6 DEF Restart, TypeOK, Fresh
  <2>6. OnlyRecordedStored'
    BY <1>0, <2>1, <2>2, <2>3, <2>5 DEF OnlyRecordedStored
  <2>7. HeldNotForgotten' /\ ClearedStaysCleared'
    BY <1>0, <2>1, <2>2, <2>3 DEF HeldNotForgotten, ClearedStaysCleared
  <2> QED BY <2>4, <2>6, <2>7 DEF EntryInv
<1>7. ASSUME (\E f \in Files : Edit(f)) \/ Replace \/ Evict \/ (\E s \in Steps : LoseFile(s))
             \/ UNCHANGED vars
      PROVE  EntryInv'
  <2>1. UNCHANGED <<unreadable, records, index, cache, cacheFile, forgotten, pc, output>>
    BY <1>7 DEF Edit, Replace, Evict, LoseFile, vars
  <2>2. Held' = Held
    BY <2>1 DEF Held, Storing
  <2> QED BY <2>1, <2>2, NothingStored
<1> QED BY <1>1, <1>2, <1>3, <1>4, <1>5, <1>6, <1>7 DEF Next, Step

THEOREM Invariance == Spec => []CacheInv
<1>1. CacheInv /\ [Next]_vars => CacheInv'
  BY TypesPreserved, FilesPreserved, EntriesPreserved DEF CacheInv, EntryInv
<1> QED BY InitEstablishes, <1>1, PTL DEF Spec

(* Every variable stays in its set.                                           *)
THEOREM TypeCorrect == Spec => []TypeOK
<1>1. CacheInv => TypeOK
  BY DEF CacheInv
<1> QED BY Invariance, <1>1, PTL

(* index.json (ArtifactStore._save) names only files that were completely     *)
(* written, and graph-cache.json (_save_cache) only artifacts in index.json,  *)
(* wherever commit is cut off.                                                *)
THEOREM StoresAgree == Spec => []SavedFilesAgree
<1>1. CacheInv => SavedFilesAgree
  BY DEF CacheInv, RecordsBackedByFiles, EntriesAfterRecords, SavedFilesAgree
<1> QED BY Invariance, <1>1, PTL

(* clear_cache is final, across restarts and for all steps that were not      *)
(* holding the artifact.                                                      *)
THEOREM ClearIsFinal == Spec => []ClearedStaysCleared
<1>1. CacheInv => ClearedStaysCleared
  BY DEF CacheInv
<1> QED BY Invariance, <1>1, PTL

(* No save of the index drops an artifact, as long as every start could read  *)
(* the index.                                                                 *)
THEOREM IndexOnlyGrows == Spec => NothingForgotten
<1>1. CacheInv /\ [Next]_vars => [unreadable \/ index \subseteq index']_vars
  <2> SUFFICES ASSUME EntriesAfterRecords, Next, ~unreadable PROVE index \subseteq index'
    BY DEF CacheInv
  <2> USE DEF diskVars, memVars, modelVars, stepVars, FilesStay
  <2>1. ASSUME NEW s \in Steps, Record(s) PROVE index \subseteq index'
    BY <2>1 DEF Record, EntriesAfterRecords
  <2>2. ASSUME NEW s \in Steps, Step(s), ~Record(s) PROVE index' = index
    BY <2>2 DEF Step, Gather, Hit, Miss, Run, Fails, WriteFile, Store
  <2>3. ASSUME NEW s \in Steps, LoseFile(s) PROVE index' = index
    BY <2>3 DEF LoseFile
  <2>4. ASSUME Clear \/ Restart \/ Replace \/ Evict PROVE index' = index
    BY <2>4 DEF Clear, Restart, Replace, Evict
  <2>5. ASSUME NEW f \in Files, Edit(f) PROVE index' = index
    BY <2>5 DEF Edit
  <2> QED BY <2>1, <2>2, <2>3, <2>4, <2>5 DEF Next
<1> QED BY Invariance, <1>1, PTL DEF Spec, NothingForgotten

-----------------------------------------------------------------------------
(* A hit is right: for a node whose only input is one artifact.  With more    *)
(* ports, or a prompt, the key does not tell the inputs apart and the theorem *)
(* is false (the run of the image editor).                                    *)
OneInput == /\ \E p : ImagePorts = {p}
            /\ \E q : Prompts = {q}

Count(images) == [c \in Contents |-> Cardinality({p \in ImagePorts : images[p] = c})]

(* Under key k, artifact a is where it belongs. *)
Fits(k, a) == made[a] \in Works /\ k[2] = Count(made[a].images)

(* What step s asked for is what artifact a was made from. *)
Suits(s, a) == made[a] \in Works /\ request[s] \in Requests /\ made[a].images = request[s].hash

HashesCurrent ==
    \A s \in Steps : pc[s] \in {"keyed", "missed"} =>
        \A p \in ImagePorts : request[s].hash[p] = source[request[s].files[p]]
OutputsSuit ==
    \A s \in Steps : /\ pc[s] \in {"ran", "written"} => Suits(s, s)
                     /\ pc[s] = "storing" => Suits(s, output[s])
EntriesFit == /\ \A k \in DOMAIN cache : Fits(k, cache[k])
              /\ \A k \in DOMAIN cacheFile : Fits(k, cacheFile[k])
HitsSuit ==
    \A s \in hit : output[s] \in Steps /\ pc[output[s]] \notin Fresh /\ pc[s] \notin Fresh /\ Suits(s, output[s])

ContentInv == torn \/ (HashesCurrent /\ OutputsSuit /\ EntriesFit /\ HitsSuit)

(* With one port, the counts of the hashes are the hash.                      *)
LEMMA CountsTell ==
    ASSUME OneInput, NEW f \in [ImagePorts -> Contents], NEW g \in [ImagePorts -> Contents],
           Count(f) = Count(g)
    PROVE  f = g
<1>1. PICK p : ImagePorts = {p}
  BY DEF OneInput
<1>2. SUFFICES ASSUME f[p] # g[p] PROVE FALSE
  BY <1>1
<1>3. {q \in ImagePorts : f[q] = f[p]} = {p} /\ {q \in ImagePorts : g[q] = f[p]} = {}
  BY <1>1, <1>2
<1>4. f[p] \in Contents /\ Count(f)[f[p]] = Count(g)[f[p]]
  BY <1>1
<1>5. Cardinality({p}) = Cardinality({})
  BY <1>3, <1>4 DEF Count
<1> QED BY <1>5, FS_Singleton, FS_EmptySet

LEMMA KeyIsCount == \A r : KeyOf(r)[2] = Count(r.hash)
BY DEF KeyOf, Count

LEMMA ContentInit == Init => ContentInv
BY DEF Init, Empty, ContentInv, HashesCurrent, OutputsSuit, EntriesFit, HitsSuit

LEMMA ContentPreserved == OneInput /\ CacheInv /\ ContentInv /\ [Next]_vars => ContentInv'
<1> SUFFICES ASSUME OneInput, CacheInv, ContentInv, [Next]_vars, ~torn'
             PROVE  HashesCurrent' /\ OutputsSuit' /\ EntriesFit' /\ HitsSuit'
  BY DEF ContentInv
<1> USE DEF diskVars, memVars, modelVars, stepVars, FilesStay
<1>1. ~torn
  BY Zenon DEF Next, Step, Gather, Hit, Miss, Run, Fails, WriteFile, Record, Store, Clear, Restart,
               Edit, Replace, Evict, LoseFile, vars
<1>2. TypeOK /\ RequestsPresent /\ OnlyRecordedStored
  BY DEF CacheInv
<1>3. HashesCurrent /\ OutputsSuit /\ EntriesFit /\ HitsSuit
  BY <1>1 DEF ContentInv
<1>4. ASSUME NEW s \in Steps, Gather(s)
      PROVE  HashesCurrent' /\ OutputsSuit' /\ EntriesFit' /\ HitsSuit'
  <2>1. /\ pc[s] = "new" /\ pc' = [pc EXCEPT ![s] = "keyed"]
        /\ UNCHANGED <<source, output, hit, made, cache, cacheFile>>
    BY <1>4 DEF Gather, Goto
  <2>2. PICK from \in [ImagePorts -> Files], found \in [ImagePorts -> Contents], prompt \in Prompts :
          /\ torn' = (torn \/ \E p \in ImagePorts : found[p] # source[from[p]])
          /\ request' = [request EXCEPT ![s] =
                 [files |-> from, hash |-> found, prompt |-> prompt, stamp |-> version]]
    BY <1>4 DEF Gather
  <2>3. \A p \in ImagePorts : found[p] = source[from[p]]
    BY <2>2, Zenon
  <2>4. HashesCurrent'
    BY <1>2, <1>3, <2>1, <2>2, <2>3 DEF HashesCurrent, TypeOK
  <2>5. OutputsSuit'
    BY <1>2, <1>3, <2>1, <2>2 DEF OutputsSuit, Suits, TypeOK
  <2>6. EntriesFit'
    BY <1>3, <2>1 DEF EntriesFit, Fits
  <2>7. HitsSuit'
    BY <1>2, <1>3, <2>1, <2>2 DEF HitsSuit, Suits, TypeOK, Fresh
  <2> QED BY <2>4, <2>5, <2>6, <2>7
<1>5. ASSUME NEW s \in Steps, Hit(s)
      PROVE  HashesCurrent' /\ OutputsSuit' /\ EntriesFit' /\ HitsSuit'
  <2> DEFINE a == cache[KeyOf(request[s])]
  <2>1. /\ pc[s] = "keyed" /\ pc' = [pc EXCEPT ![s] = "storing"]
        /\ output' = [output EXCEPT ![s] = a] /\ hit' = hit \cup {s}
        /\ UNCHANGED <<source, request, made, cache, cacheFile>>
    BY <1>5 DEF Hit, Goto
  <2>2. a \in Steps /\ pc[a] \notin Fresh
    BY <1>2, <1>5, EntryInRange DEF Hit, OnlyRecordedStored
  <2>3. request[s] \in Requests
    BY <1>2, <2>1 DEF RequestsPresent, Busy
  <2>4. Suits(s, a)
    <3>1. made[a] \in Works /\ Count(made[a].images) = Count(request[s].hash)
      BY <1>3, <1>5, KeyIsCount DEF Hit, EntriesFit, Fits
    <3>2. made[a].images \in [ImagePorts -> Contents] /\ request[s].hash \in [ImagePorts -> Contents]
      BY <2>3, <3>1 DEF Works, Requests
    <3> QED BY <2>3, <3>1, <3>2, CountsTell DEF Suits
  <2>5. HashesCurrent'
    BY <1>2, <1>3, <2>1 DEF HashesCurrent, TypeOK
  <2>6. OutputsSuit'
    BY <1>2, <1>3, <2>1, <2>4 DEF OutputsSuit, Suits, TypeOK
  <2>7. EntriesFit'
    BY <1>3, <2>1 DEF EntriesFit, Fits
  <2>8. HitsSuit'
    <3>1. ASSUME NEW t \in hit' PROVE output'[t] \in Steps /\ pc'[output'[t]] \notin Fresh /\ pc'[t] \notin Fresh
      BY <1>2, <1>3, <2>1, <2>2, <3>1 DEF HitsSuit, TypeOK, Fresh
    <3>2. ASSUME NEW t \in hit' PROVE Suits(t, output[t])' 
      BY <1>2, <1>3, <2>1, <2>4, <3>2 DEF HitsSuit, Suits, TypeOK, Fresh
    <3> QED BY <3>1, <3>2 DEF HitsSuit
  <2> QED BY <2>5, <2>6, <2>7, <2>8
<1>6. ASSUME NEW s \in Steps, Miss(s) \/ Fails(s) \/ WriteFile(s)
      PROVE  HashesCurrent' /\ OutputsSuit' /\ EntriesFit' /\ HitsSuit'
  <2>1. PICK l : /\ pc' = [pc EXCEPT ![s] = l] /\ pc[s] \in Fresh
                 /\ \/ pc[s] = "keyed" /\ l = "missed"
                    \/ l = "failed"
                    \/ pc[s] = "ran" /\ l = "written"
    BY <1>6 DEF Miss, Fails, WriteFile, Goto, Fresh
  <2>2. UNCHANGED <<source, request, output, hit, made, cache, cacheFile>>
    BY <1>6 DEF Miss, Fails, WriteFile
  <2>3. HashesCurrent'
    BY <1>2, <1>3, <2>1, <2>2 DEF HashesCurrent, TypeOK
  <2>4. OutputsSuit'
    BY <1>2, <1>3, <2>1, <2>2 DEF OutputsSuit, Suits, TypeOK
  <2>5. EntriesFit'
    BY <1>3, <2>2 DEF EntriesFit, Fits
  <2>6. HitsSuit'
    BY <1>2, <1>3, <2>1, <2>2 DEF HitsSuit, Suits, TypeOK
  <2> QED BY <2>3, <2>4, <2>5, <2>6
<1>7. ASSUME NEW s \in Steps, Run(s)
      PROVE  HashesCurrent' /\ OutputsSuit' /\ EntriesFit' /\ HitsSuit'
  <2> DEFINE work == [images |-> [p \in ImagePorts |-> source[request[s].files[p]]],
                      prompt |-> request[s].prompt, version |-> resident']
  <2>1. /\ pc[s] = "missed" /\ pc' = [pc EXCEPT ![s] = "ran"] /\ made' = [made EXCEPT ![s] = work]
        /\ UNCHANGED <<source, request, output, hit, cache, cacheFile>>
    BY <1>7 DEF Run, Goto
  <2>2. TypeOK'
    BY TypesPreserved
  <2>3. request[s] \in Requests
    BY <1>2, <2>1 DEF RequestsPresent, Busy
  <2>4. resident' \in 0..MaxVersion
    BY <1>2, <1>7 DEF Run, TypeOK
  <2>5. work \in Works
    BY <1>2, <2>3, <2>4 DEF Works, Requests, TypeOK
  <2>6. work.images = request[s].hash
    BY <1>3, <2>1, <2>3 DEF HashesCurrent, Requests
  <2>7. \A a \in Steps : a # s => made'[a] = made[a]
    BY <1>2, <2>1 DEF TypeOK
  <2>8. pc[s] \in Fresh /\ made'[s] = work
    BY <1>2, <2>1 DEF Fresh, TypeOK
  <2>9. HashesCurrent'
    BY <1>2, <1>3, <2>1 DEF HashesCurrent, TypeOK
  <2>10. OutputsSuit'
    <3>1. ASSUME NEW t \in Steps, pc'[t] \in {"ran", "written"} PROVE Suits(t, t)'
      BY <1>2, <1>3, <2>1, <2>3, <2>5, <2>6, <2>7, <2>8, <3>1 DEF OutputsSuit, Suits, TypeOK
    <3>2. ASSUME NEW t \in Steps, pc'[t] = "storing" PROVE Suits(t, output[t])'
      <4>1. t # s /\ pc[t] = "storing"
        BY <1>2, <2>1, <3>2 DEF TypeOK
      <4>2. output[t] \in Steps /\ output[t] # s
        BY <1>2, <2>8, <4>1 DEF OnlyRecordedStored, Held, Storing
      <4> QED BY <1>3, <2>1, <2>7, <4>1, <4>2 DEF OutputsSuit, Suits
    <3> QED BY <3>1, <3>2 DEF OutputsSuit
  <2>11. EntriesFit'
    <3>1. \A k \in DOMAIN cache : cache[k] \in Steps /\ cache[k] # s
      BY <1>2, <2>8, EntryInRange DEF OnlyRecordedStored
    <3>2. \A k \in DOMAIN cacheFile : cacheFile[k] \in Steps /\ cacheFile[k] # s
      BY <1>2, <2>8, EntryInRange DEF OnlyRecordedStored
    <3> QED BY <1>3, <2>1, <2>7, <3>1, <3>2 DEF EntriesFit, Fits
  <2>12. HitsSuit'
    BY <1>2, <1>3, <2>1, <2>7, <2>8 DEF HitsSuit, Suits, TypeOK
  <2> QED BY <2>9, <2>10, <2>11, <2>12
<1>8. ASSUME NEW s \in Steps, Record(s)
      PROVE  HashesCurrent' /\ OutputsSuit' /\ EntriesFit' /\ HitsSuit'
  <2>1. /\ pc[s] = "written" /\ UNCHANGED <<source, request, hit, made, cache, cacheFile>>
        /\ \/ pc' = [pc EXCEPT ![s] = "storing"] /\ output' = [output EXCEPT ![s] = s]
           \/ pc' = [pc EXCEPT ![s] = "failed"] /\ output' = output
    BY <1>8 DEF Record, Goto
  <2>2. HashesCurrent'
    BY <1>2, <1>3, <2>1 DEF HashesCurrent, TypeOK
  <2>3. OutputsSuit'
    BY <1>2, <1>3, <2>1 DEF OutputsSuit, Suits, TypeOK
  <2>4. EntriesFit'
    BY <1>3, <2>1 DEF EntriesFit, Fits
  <2>5. HitsSuit'
    BY <1>2, <1>3, <2>1 DEF HitsSuit, Suits, TypeOK, Fresh
  <2> QED BY <2>2, <2>3, <2>4, <2>5
<1>9. ASSUME NEW s \in Steps, Store(s)
      PROVE  HashesCurrent' /\ OutputsSuit' /\ EntriesFit' /\ HitsSuit'
  <2>1. /\ pc[s] = "storing" /\ UNCHANGED <<source, request, output, hit, made>>
        /\ pc' = [pc EXCEPT ![s] = "done"] \/ pc' = [pc EXCEPT ![s] = "failed"]
        /\ cache' = With(cache, KeyOf(request[s]), output[s]) /\ cacheFile' \in {cache', cacheFile}
    BY <1>9 DEF Store, Goto
  <2>2. HashesCurrent'
    BY <1>2, <1>3, <2>1 DEF HashesCurrent, TypeOK
  <2>3. OutputsSuit'
    BY <1>2, <1>3, <2>1 DEF OutputsSuit, Suits, TypeOK
  <2>4. Fits(KeyOf(request[s]), output[s])
    BY <1>3, <2>1, KeyIsCount DEF OutputsSuit, Suits, Fits
  <2>5. \A k \in DOMAIN cache' : Fits(k, cache'[k])
    BY <1>3, <2>1, <2>4 DEF With, EntriesFit
  <2>6. EntriesFit'
    BY <1>3, <2>1, <2>5 DEF EntriesFit, Fits
  <2>7. HitsSuit'
    BY <1>2, <1>3, <2>1 DEF HitsSuit, Suits, TypeOK, Fresh
  <2> QED BY <2>2, <2>3, <2>6, <2>7
<1>10. ASSUME Clear PROVE HashesCurrent' /\ OutputsSuit' /\ EntriesFit' /\ HitsSuit'
  <2>1. /\ UNCHANGED <<source, pc, request, output, hit, made>>
        /\ cache' = Empty /\ cacheFile' \in {Empty, cacheFile}
    BY <1>10 DEF Clear
  <2>2. EntriesFit'
    BY <1>3, <2>1 DEF EntriesFit, Fits, Empty
  <2> QED BY <1>3, <2>1, <2>2 DEF HashesCurrent, OutputsSuit, HitsSuit, Suits
<1>11. ASSUME Restart PROVE HashesCurrent' /\ OutputsSuit' /\ EntriesFit' /\ HitsSuit'
  <2>1. /\ UNCHANGED <<source, request, output, hit, made, cacheFile>>
        /\ cache' \in {Empty, cacheFile}
        /\ \A t \in Steps : pc'[t] \in {pc[t], "gone"} /\ pc'[t] \in {"new", "done", "failed", "gone"}
    BY <1>2, <1>11 DEF Restart, Busy, TypeOK
  <2>2. EntriesFit'
    BY <1>3, <2>1 DEF EntriesFit, Fits, Empty
  <2>3. HitsSuit'
    BY <1>2, <1>3, <2>1 DEF HitsSuit, Suits, Fresh, TypeOK
  <2> QED BY <2>1, <2>2, <2>3 DEF HashesCurrent, OutputsSuit
<1>12. ASSUME NEW f \in Files, Edit(f)
       PROVE  HashesCurrent' /\ OutputsSuit' /\ EntriesFit' /\ HitsSuit'
  <2>1. UNCHANGED <<pc, request, output, hit, made, cache, cacheFile>>
    BY <1>12 DEF Edit
  <2>2. ASSUME NEW t \in Steps, pc[t] \in {"keyed", "missed"}
        PROVE  \A p \in ImagePorts : source'[request[t].files[p]] = source[request[t].files[p]]
    <3>1. t \in Busy /\ request[t] \in Requests
      BY <1>2, <2>2 DEF RequestsPresent, Busy
    <3>2. f \notin Range(request[t].files)
      BY <1>12, <2>2, <3>1, Zenon DEF Edit
    <3>3. \A p \in ImagePorts : request[t].files[p] \in Files \ {f}
      BY <3>1, <3>2 DEF Requests, Range
    <3> QED BY <1>2, <1>12, <3>3 DEF Edit, TypeOK
  <2>3. HashesCurrent'
    BY <1>3, <2>1, <2>2 DEF HashesCurrent
  <2> QED BY <1>3, <2>1, <2>3 DEF OutputsSuit, EntriesFit, Fits, HitsSuit, Suits
<1>13. ASSUME Replace \/ Evict \/ (\E s \in Steps : LoseFile(s)) \/ UNCHANGED vars
       PROVE  HashesCurrent' /\ OutputsSuit' /\ EntriesFit' /\ HitsSuit'
  <2>1. UNCHANGED <<source, pc, request, output, hit, made, cache, cacheFile>>
    BY <1>13 DEF Replace, Evict, LoseFile, vars
  <2> QED BY <1>3, <2>1 DEF HashesCurrent, OutputsSuit, EntriesFit, Fits, HitsSuit, Suits
<1> QED BY <1>4, <1>5, <1>6, <1>7, <1>8, <1>9, <1>10, <1>11, <1>12, <1>13 DEF Next, Step

(* The key of build_cache_key, made of hashes without their ports, is enough  *)
(* for a node with one artifact as its input, through crashes, edits, clears  *)
(* and concurrent steps: a hit has the image that was asked for.              *)
THEOREM HitsAreRight == OneInput => (Spec => []HitSameInputs)
<1> SUFFICES ASSUME OneInput PROVE Spec => []HitSameInputs
  OBVIOUS
<1>1. Init => ContentInv
  BY ContentInit
<1>2. CacheInv /\ CacheInv' /\ ContentInv /\ [Next]_vars => ContentInv'
  BY ContentPreserved
<1>3. CacheInv /\ ContentInv => HitSameInputs
  <2> SUFFICES ASSUME CacheInv, ContentInv, ~torn, NEW s \in hit
               PROVE  /\ made[output[s]].images = request[s].hash
                      /\ made[output[s]].prompt = request[s].prompt
    BY DEF HitSameInputs
  <2>1. Suits(s, output[s])
    BY DEF ContentInv, HitsSuit
  <2>2. made[output[s]].prompt \in Prompts /\ request[s].prompt \in Prompts
    BY <2>1 DEF Suits, Works, Requests
  <2> QED BY <2>1, <2>2 DEF Suits, OneInput
<1> QED BY Invariance, <1>1, <1>2, <1>3, PTL DEF Spec
=============================================================================
