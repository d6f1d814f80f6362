------------------------------ MODULE PlanRun ------------------------------
(* What one run promises whoever started it (graph/executor.py): a node is    *)
(* begun once, when the nodes it takes its input from have all succeeded; no  *)
(* node is begun after a Stop, or with the kill switch beside or after        *)
(* another that did not succeed; and how the run ended says what happened to  *)
(* its nodes.  The waves, the pool, the futures, the pause gate, the cache,   *)
(* the slots and the retries are left out.  WaveExecution is shown to         *)
(* implement it.                                                              *)
EXTENDS Naturals

CONSTANTS
    Nodes,
    Plans           \* the sets of edges a plan may have

VARIABLES
    plan,           \* the edges
    strict,         \* the kill switch: strictly serial
    node,           \* what became of each node
    asked,          \* somebody pressed Stop
    halted,         \* no node is begun any more
    over            \* none, or how the run ended

vars == <<plan, strict, node, asked, halted, over>>

NodeStates == {"todo", "doing", "good", "bad", "dropped"}
Ends == {"COMPLETED", "FAILED", "CANCELLED"}
Inputs(n) == {s \in Nodes \ {n} : <<s, n>> \in plan}

Init ==
    /\ plan \in Plans /\ strict \in BOOLEAN
    /\ node = [n \in Nodes |-> "todo"]
    /\ asked = FALSE /\ halted = FALSE /\ over = "none"

Begin(n) ==
    /\ over = "none" /\ ~halted
    /\ node[n] = "todo"
    /\ \A s \in Inputs(n) : node[s] = "good"
    /\ strict => \A m \in Nodes : node[m] \in {"todo", "good"}
    /\ node' = [node EXCEPT ![n] = "doing"]
    /\ UNCHANGED <<plan, strict, asked, halted, over>>

(* A node is given up only when the run is halted. *)
Finish(n, how) ==
    /\ node[n] = "doing"
    /\ how = "dropped" => halted
    /\ node' = [node EXCEPT ![n] = how]
    /\ UNCHANGED <<plan, strict, asked, halted, over>>

Drop(n) ==
    /\ node[n] = "todo" /\ halted /\ over = "none"
    /\ node' = [node EXCEPT ![n] = "dropped"]
    /\ UNCHANGED <<plan, strict, asked, halted, over>>

Stop ==
    /\ over = "none" /\ ~asked
    /\ asked' = TRUE /\ halted' = TRUE
    /\ UNCHANGED <<plan, strict, node, over>>

(* A failure halts the branches beside it. *)
Halt ==
    /\ ~strict /\ \E n \in Nodes : node[n] = "bad"
    /\ halted' = TRUE
    /\ UNCHANGED <<plan, strict, node, asked, over>>

End(how) ==
    /\ over = "none" /\ \A n \in Nodes : node[n] # "doing"
    /\ how = "COMPLETED" => \A n \in Nodes : node[n] = "good"
    /\ how = "FAILED" => \E n \in Nodes : node[n] = "bad"
    /\ how = "CANCELLED" => asked
    /\ over' = how
    /\ UNCHANGED <<plan, strict, node, asked, halted>>

Next ==
    \/ \E n \in Nodes : Begin(n) \/ Drop(n) \/ \E how \in {"good", "bad", "dropped"} : Finish(n, how)
    \/ Stop \/ Halt
    \/ \E how \in Ends : End(how)

Spec == Init /\ [][Next]_vars
=============================================================================
