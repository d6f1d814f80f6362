------------------------------ MODULE RunQueue ------------------------------
(* What RunManager promises whoever starts a run (graph/executor.py): runs     *)
(* wait in a line, "front priority before fifo items", one at a time is       *)
(* executed and each once, and a Stop takes a waiting run out of the line and *)
(* lets a running one begin no further step.  The heap, the status, the       *)
(* events, the registry and the dispatcher thread are left out.  RunManager   *)
(* is shown to implement it.                                                  *)
EXTENDS Naturals

CONSTANTS Runs

VARIABLES
    place,          \* where a run is: out, front or back of the line, current, over
    ahead,          \* pairs of waiting runs, the first before the second
    stopped,        \* runs that were stopped
    working         \* a step of the current run is under way

vars == <<place, ahead, stopped, working>>

Places == {"out", "front", "back", "current", "over"}
Waiting(p) == {r \in Runs : p[r] \in {"front", "back"}}

(* A run that leaves the line leaves the order of the others as it was.       *)
Among(S) == {p \in ahead : p[1] \in S /\ p[2] \in S}

Init ==
    /\ place = [r \in Runs |-> "out"]
    /\ ahead = {}
    /\ stopped = {}
    /\ working = FALSE

(* A run enters behind the runs of its class; the front class is before the   *)
(* back class.                                                                *)
Enter(r, class) ==
    /\ place[r] = "out"
    /\ place' = [place EXCEPT ![r] = class]
    /\ ahead' = ahead
           \cup {<<w, r>> : w \in {w \in Waiting(place) : class = "front" => place[w] = "front"}}
           \cup {<<r, w>> : w \in {w \in Waiting(place) : class = "front" /\ place[w] = "back"}}
    /\ UNCHANGED <<stopped, working>>

(* Runs that have entered are stopped: those that wait never start.           *)
Stop(S) ==
    /\ \A r \in S : place[r] # "out"
    /\ stopped' = stopped \cup S
    /\ place' = [r \in Runs |-> IF r \in S /\ place[r] # "current" THEN "over" ELSE place[r]]
    /\ ahead' = Among(Waiting(place'))
    /\ UNCHANGED working

(* The first run of the line is taken when none is current.                   *)
Take(r) ==
    /\ r \in Waiting(place)
    /\ \A w \in Waiting(place) \ {r} : <<r, w>> \in ahead
    /\ \A w \in Runs : place[w] # "current"
    /\ place' = [place EXCEPT ![r] = "current"]
    /\ ahead' = Among(Waiting(place'))
    /\ UNCHANGED <<stopped, working>>

BeginStep(r) ==
    /\ place[r] = "current" /\ r \notin stopped
    /\ ~working /\ working' = TRUE
    /\ UNCHANGED <<place, ahead, stopped>>

EndStep ==
    /\ working /\ working' = FALSE
    /\ UNCHANGED <<place, ahead, stopped>>

Leave(r) ==
    /\ place[r] = "current" /\ ~working
    /\ place' = [place EXCEPT ![r] = "over"]
    /\ UNCHANGED <<ahead, stopped, working>>

Next ==
    \/ \E r \in Runs :
          \/ Enter(r, "front") \/ Enter(r, "back")
          \/ Take(r) \/ BeginStep(r) \/ Leave(r)
    \/ \E S \in SUBSET Runs : Stop(S)
    \/ EndStep

Spec == Init /\ [][Next]_vars
=============================================================================
