-------------------------- MODULE InferClientProofs --------------------------
(* Theorems about InferClient for any jobs, types and workers, and any number *)
(* of mishaps.                                                                *)
EXTENDS InferClient, SequenceTheorems, FiniteSetTheorems, TLAPS

Command == ({"start", "cancel"} \X Jobs) \cup {<<"shutdown", NoJob>>}
Event == {"result", "error", "cancelled"} \X Jobs
Answers == {"result", "error", "cancelled", "timeout", "crash"}

WorkTypes ==
    /\ life \in [Workers -> {"up", "frozen", "dead"}]
    /\ inbox \in [Workers -> Seq(Command)] /\ outbox \in [Workers -> Seq(Event)]
    /\ running \in [Workers -> Jobs \cup {NoJob}] /\ flag \in [Workers -> BOOLEAN]
    /\ ending \in [Workers -> Event \cup {NoEvent}]

ClientTypes ==
    /\ active \in Jobs \cup {NoJob} /\ wait \in Seq(Jobs)
    /\ process \in Workers \cup {NoWorker} /\ queues \in Workers \cup {NoWorker}
    /\ reading \in Workers \cup {NoWorker}
    /\ fetched \in Event \cup {NoEvent}
    /\ pc \in [Jobs -> {"new", "starting", "expired", "submitting", "accepted", "refused"}]
    /\ jobType \in [Jobs -> Types \cup {"none"}]
    /\ answers \in [Jobs -> Seq(Answers)]
    /\ WorkTypes

(* The client's process is the one it has the queues of, and a dead worker    *)
(* has nothing to do.                                                         *)
WorkersFit ==
    /\ process \in {NoWorker, queues}
    /\ \A w \in Workers : life[w] = "dead" => running[w] = NoJob /\ inbox[w] = <<>>

(* Without a crash there is no worker beside the client's, and none is told   *)
(* to end.                                                                    *)
OneAlive ==
    "crash" \notin happened =>
        /\ \A w \in Workers : life[w] # "dead" => w = process
        /\ process # NoWorker => life[process] # "dead"

NoneEnds ==
    "crash" \notin happened =>
        \A w \in Workers : \A i \in DOMAIN inbox[w] : inbox[w][i][1] # "shutdown"

(* A job is in the line once, accepted and unanswered.                        *)
InWait(j) == \E i \in DOMAIN wait : wait[i] = j
LineFits ==
    /\ \A i \in DOMAIN wait : wait[i] # active
    /\ \A i, k \in DOMAIN wait : wait[i] = wait[k] => i = k
    /\ \A j \in Jobs : j = active \/ InWait(j) => pc[j] = "accepted" /\ answers[j] = <<>>
    /\ \A j \in Jobs : pc[j] # "accepted" => answers[j] = <<>>
    /\ AnsweredOnce

(* Events and commands are as true as the answers.                            *)
TrueEvent(e) ==
    /\ e[1] = "result" => e[2] \in completed
    /\ e[1] = "cancelled" => e[2] \in asked
EventsFit ==
    /\ TrueEvent(fetched)
    /\ \A w \in Workers :
          /\ TrueEvent(ending[w])
          /\ \A i \in DOMAIN outbox[w] : TrueEvent(outbox[w][i])
AskedFit ==
    \A w \in Workers :
        /\ flag[w] /\ running[w] # NoJob => running[w] \in asked
        /\ \A i \in DOMAIN inbox[w] : inbox[w][i][1] = "cancel" => inbox[w][i][2] \in asked

(* Where a job is: on its way to a worker or on it, or over, its event on the *)
(* way back.  It is sent once, from the head of the line.                     *)
Starts(w, j) == \E i \in DOMAIN inbox[w] : inbox[w][i] = <<"start", j>>
Has(w, j) == running[w] = j \/ Starts(w, j)
Over(j) ==
    \/ fetched[2] = j
    \/ \E w \in Workers : \/ ending[w][2] = j /\ running[w] # j
                          \/ \E i \in DOMAIN outbox[w] : outbox[w][i][2] = j
Sent(j) == Over(j) \/ \E w \in Workers : Has(w, j)
SentOnce ==
    /\ \A j \in Jobs : \A v, w \in Workers : Has(v, j) /\ Has(w, j) => v = w
    /\ \A w \in Workers : running[w] # NoJob => ~Starts(w, running[w])
    /\ \A w \in Workers : \A i, k \in DOMAIN inbox[w] :
          inbox[w][i] = inbox[w][k] /\ inbox[w][i][1] = "start" => i = k
    /\ \A j \in Jobs : Over(j) => \A w \in Workers : ~Has(w, j)
    /\ \A j \in Jobs : Sent(j) => pc[j] = "accepted" /\ ~InWait(j)

(* A command to start that a worker will come to finds it idle, and is the    *)
(* only one; the client's worker has no job but the active one.               *)
Reached(w, i) == inbox[w][i][1] = "start" /\ \A k \in 1..i : inbox[w][k][1] # "shutdown"
Sound(w) == \A k \in DOMAIN inbox[w] : inbox[w][k][1] # "shutdown"
OneAtATime ==
    /\ \A w \in Workers : \A i \in DOMAIN inbox[w] : Reached(w, i) => running[w] = NoJob
    /\ \A w \in Workers : \A i, k \in DOMAIN inbox[w] : Reached(w, i) /\ Reached(w, k) => i = k
    /\ queues # NoWorker /\ Sound(queues) =>
          /\ running[queues] \in {NoJob, active}
          /\ \A i \in DOMAIN inbox[queues] :
                inbox[queues][i][1] = "start" => inbox[queues][i][2] = active

(* Unless a worker was taken from under it, the line is complete and of one   *)
(* type, and the client's worker is there for a job that was sent.            *)
Quiet == happened \cap {"crash", "toggle", "expiry"} = {}
Served == process # NoWorker /\ life[process] # "dead"
ExpiryFits == \A j \in Jobs : pc[j] = "expired" => "expiry" \in happened
SettingFits == Quiet => hw = hwAccel
LineFull ==
    Quiet => /\ active = NoJob => wait = <<>>
             /\ \A j \in Unanswered : j = active \/ InWait(j)
             /\ \A i \in DOMAIN wait : jobType[wait[i]] = jobType[active]
ActiveServed == Quiet /\ active # NoJob /\ Sent(active) => Served

IInv ==
    /\ ClientTypes /\ WorkersFit /\ OneAlive /\ NoneEnds
    /\ LineFits /\ EventsFit /\ AskedFit /\ AnswerIsOwn
    /\ SentOnce /\ OneAtATime
    /\ ExpiryFits /\ SettingFits /\ LineFull /\ ActiveServed


-----------------------------------------------------------------------------
(* A new worker has a name that nothing refers to.                            *)
LEMMA FreshIsSpare ==
    ASSUME Spare # {}
    PROVE  /\ Fresh \in Workers /\ life[Fresh] = "dead"
           /\ Fresh \notin {process, queues, reading, NoWorker}
<1>1. Spare \subseteq Nat /\ Spare \subseteq Workers
  BY WorkersAssumption DEF Spare, Workers
<1>2. PICK w \in Spare : \A v \in Spare : ~ (<<v, w>> \in OpToRel(<, Nat))
  BY <1>1, NatLessThanWellFounded, WFMin
<1>3. ASSUME NEW v \in Spare
      PROVE  w <= v
  <2>1. v \in Nat /\ w \in Nat
    BY <1>1, <1>2
  <2>2. v < w => <<v, w>> \in OpToRel(<, Nat)
    <3>1. <<v, w>> \in Nat \X Nat /\ <<v, w>>[1] = v /\ <<v, w>>[2] = w
      BY <2>1
    <3> QED BY <3>1, Zenon DEF OpToRel
  <2>3. ~ (v < w)
    BY <1>2, <2>2, Zenon
  <2> QED BY <2>1, <2>3
<1>4. Fresh \in Spare
  BY <1>2, <1>3 DEF Fresh
<1> QED BY <1>1, <1>4, WorkersAssumption DEF Spare, Workers, NoWorker

(* The head of the line and the rest of it.                                   *)
LEMMA NextFacts ==
    ASSUME wait \in Seq(Jobs)
    PROVE  /\ NextWait \in Seq(Jobs)
           /\ NextActive \in Jobs \cup {NoJob}
           /\ StartNext \in Seq(Command)
           /\ wait = <<>> => NextActive = NoJob /\ NextWait = <<>> /\ StartNext = <<>>
           /\ wait # <<>> => /\ NextActive = wait[1] /\ NextActive \in Jobs /\ 1 \in DOMAIN wait
                             /\ StartNext = << <<"start", wait[1]>> >>
                             /\ Len(StartNext) = 1 /\ StartNext[1] = <<"start", wait[1]>>
           /\ \A i \in DOMAIN NextWait : i \in Nat /\ i + 1 \in DOMAIN wait /\ i + 1 # 1
                                         /\ NextWait[i] = wait[i + 1]
           /\ \A i \in DOMAIN wait : i \in Nat /\ (i = 1 \/ (i - 1 \in DOMAIN NextWait
                                                              /\ NextWait[i - 1] = wait[i]))
<1>1. CASE wait = <<>>
  BY <1>1 DEF NextActive, NextWait, StartNext
<1>2. CASE wait # <<>>
  <2>1. /\ Len(wait) \in Nat /\ Len(wait) >= 1 /\ wait[1] \in Jobs /\ DOMAIN wait = 1..Len(wait)
    BY <1>2
  <2>2. /\ Tail(wait) \in Seq(Jobs) /\ DOMAIN Tail(wait) = 1..(Len(wait) - 1)
        /\ \A i \in 1..(Len(wait) - 1) : Tail(wait)[i] = wait[i + 1]
    BY <1>2, <2>1
  <2>3. <<"start", wait[1]>> \in Command
    BY <2>1 DEF Command
  <2>4. NextWait = Tail(wait) /\ NextActive = wait[1] /\ StartNext = << <<"start", wait[1]>> >>
    BY <1>2, <2>1 DEF NextActive, NextWait, StartNext
  <2>5. StartNext \in Seq(Command) /\ Len(StartNext) = 1 /\ StartNext[1] = <<"start", wait[1]>>
    BY <2>3, <2>4
  <2>6. \A i \in DOMAIN NextWait : i \in Nat /\ i + 1 \in DOMAIN wait /\ i + 1 # 1
                                         /\ NextWait[i] = wait[i + 1]
    BY <2>1, <2>2, <2>4
  <2>7. \A i \in DOMAIN wait : i \in Nat /\ (i = 1 \/ (i - 1 \in DOMAIN NextWait
                                                              /\ NextWait[i - 1] = wait[i]))
    BY <2>1, <2>2, <2>4
  <2> QED BY <1>2, <2>1, <2>2, <2>4, <2>5, <2>6, <2>7
<1> QED BY <1>1, <1>2

(* A sequence with one more element.                                          *)
LEMMA AppendFacts ==
    ASSUME NEW S, NEW s \in Seq(S), NEW e \in S
    PROVE  /\ Append(s, e) \in Seq(S)
           /\ DOMAIN Append(s, e) = 1..(Len(s) + 1) /\ DOMAIN s = 1..Len(s) /\ Len(s) \in Nat
           /\ \A i \in 1..Len(s) : Append(s, e)[i] = s[i]
           /\ Append(s, e)[Len(s) + 1] = e
  BY AppendProperties

(* A sequence without its head.                                               *)
LEMMA TailFacts ==
    ASSUME NEW S, NEW s \in Seq(S), s # <<>>
    PROVE  /\ Tail(s) \in Seq(S) /\ Head(s) \in S /\ Head(s) = s[1] /\ 1 \in DOMAIN s
           /\ \A i \in DOMAIN Tail(s) : i \in Nat /\ i + 1 \in DOMAIN s /\ Tail(s)[i] = s[i + 1]
           /\ \A i \in DOMAIN s : i \in Nat /\ i >= 1
<1>1. /\ Len(s) \in Nat /\ Len(s) >= 1 /\ s[1] \in S /\ DOMAIN s = 1..Len(s)
  OBVIOUS
<1>2. /\ Tail(s) \in Seq(S) /\ DOMAIN Tail(s) = 1..(Len(s) - 1)
      /\ \A i \in 1..(Len(s) - 1) : Tail(s)[i] = s[i + 1]
  OBVIOUS
<1> QED BY <1>1, <1>2

(* A sequence without its i-th element: the others keep their order.          *)
LEMMA RemoveFacts ==
    ASSUME NEW S, NEW s \in Seq(S), NEW i \in DOMAIN s
    PROVE  /\ RemoveAt(s, i) \in Seq(S)
           /\ \A a \in DOMAIN RemoveAt(s, i) : \E b \in DOMAIN s :
                 /\ b # i /\ RemoveAt(s, i)[a] = s[b]
                 /\ a \in Nat /\ b = (IF a < i THEN a ELSE a + 1)
           /\ \A b \in DOMAIN s : b # i =>
                 \E a \in DOMAIN RemoveAt(s, i) : RemoveAt(s, i)[a] = s[b]
<1>1. /\ Len(s) \in Nat /\ i \in 1..Len(s) /\ DOMAIN s = 1..Len(s)
  OBVIOUS
<1> DEFINE front == SubSeq(s, 1, i - 1)
           rest == SubSeq(s, i + 1, Len(s))
<1>2. /\ front \in Seq(S) /\ Len(front) = i - 1
      /\ \A a \in 1..(i - 1) : front[a] = s[a]
  BY <1>1, SubSeqProperties
<1>3. /\ rest \in Seq(S) /\ Len(rest) = Len(s) - i
      /\ \A a \in 1..(Len(s) - i) : rest[a] = s[a + i]
  BY <1>1, SubSeqProperties
<1>4. RemoveAt(s, i) = front \o rest
  BY DEF RemoveAt
<1> HIDE DEF front, rest
<1>5. /\ front \o rest \in Seq(S) /\ Len(front \o rest) = Len(s) - 1
      /\ DOMAIN (front \o rest) = 1..(Len(s) - 1)
      /\ \A a \in 1..(Len(s) - 1) :
            (front \o rest)[a] = IF a < i THEN front[a] ELSE rest[a - (i - 1)]
  <2>0. /\ front \o rest \in Seq(S) /\ Len(front \o rest) = Len(front) + Len(rest)
        /\ \A a \in 1..(Len(front) + Len(rest)) :
              (front \o rest)[a] = IF a <= Len(front) THEN front[a] ELSE rest[a - Len(front)]
    <3>1. front \in Seq(S) /\ rest \in Seq(S)
      BY <1>2, <1>3
    <3> QED BY <3>1, ConcatProperties, Zenon
  <2>1. /\ front \o rest \in Seq(S) /\ Len(front \o rest) = Len(s) - 1
        /\ \A a \in 1..(Len(front) + Len(rest)) :
              (front \o rest)[a] = IF a <= Len(front) THEN front[a] ELSE rest[a - Len(front)]
    BY <1>1, <1>2, <1>3, <2>0
  <2>2. DOMAIN (front \o rest) = 1..(Len(s) - 1)
    BY <2>1
  <2>3. ASSUME NEW a \in 1..(Len(s) - 1)
        PROVE  (front \o rest)[a] = IF a < i THEN front[a] ELSE rest[a - (i - 1)]
    <3>1. a \in 1..(Len(front) + Len(rest)) /\ (a <= Len(front) <=> a < i)
      BY <1>1, <1>2, <1>3
    <3> QED BY <1>2, <2>1, <3>1
  <2> QED BY <2>1, <2>2, <2>3
<1>6. \A a \in 1..(Len(s) - 1) : (front \o rest)[a] = s[IF a < i THEN a ELSE a + 1]
  <2> SUFFICES ASSUME NEW a \in 1..(Len(s) - 1)
               PROVE  (front \o rest)[a] = s[IF a < i THEN a ELSE a + 1]
    OBVIOUS
  <2>1. CASE a < i
    <3>1. a \in 1..(i - 1)
      BY <1>1, <2>1
    <3> QED BY <1>2, <1>5, <2>1, <3>1
  <2>2. CASE ~(a < i)
    <3>1. a - (i - 1) \in 1..(Len(s) - i) /\ a - (i - 1) + i = a + 1
      BY <1>1, <2>2
    <3> QED BY <1>3, <1>5, <2>2, <3>1
  <2> QED BY <2>1, <2>2
<1>7. \A a \in DOMAIN RemoveAt(s, i) : \E b \in DOMAIN s :
         /\ b # i /\ RemoveAt(s, i)[a] = s[b]
         /\ a \in Nat /\ b = (IF a < i THEN a ELSE a + 1)
  <2> SUFFICES ASSUME NEW a \in 1..(Len(s) - 1)
               PROVE  \E b \in DOMAIN s :
                         /\ b # i /\ (front \o rest)[a] = s[b]
                         /\ a \in Nat /\ b = (IF a < i THEN a ELSE a + 1)
    BY <1>4, <1>5
  <2> DEFINE b == IF a < i THEN a ELSE a + 1
  <2>1. b \in DOMAIN s /\ b # i /\ a \in Nat
    BY <1>1
  <2>2. (front \o rest)[a] = s[b]
    BY <1>6
  <2> QED BY <2>1, <2>2
<1>8. ASSUME NEW b \in DOMAIN s, b # i
      PROVE  \E a \in DOMAIN RemoveAt(s, i) : RemoveAt(s, i)[a] = s[b]
  <2> DEFINE a == IF b < i THEN b ELSE b - 1
  <2>1. a \in 1..(Len(s) - 1) /\ (IF a < i THEN a ELSE a + 1) = b
    BY <1>1, <1>8
  <2> QED BY <1>4, <1>5, <1>6, <2>1
<1> QED BY <1>4, <1>5, <1>7, <1>8

(* A worker that ends leaves the types right.                                 *)
LEMMA DiesTypes ==
    ASSUME ClientTypes, NEW w \in Workers \cup {NoWorker}, Dies(w)
    PROVE  WorkTypes'
<1>1. <<>> \in Seq(Command)
  OBVIOUS
<1> QED BY <1>1 DEF ClientTypes, WorkTypes, Dies, Kept

(* A worker that is replaced leaves the types right.                          *)
LEMMA RespawnTypes ==
    ASSUME ClientTypes, NEW first \in Seq(Command), NEW held \in BOOLEAN, Respawn(first, held)
    PROVE  /\ WorkTypes' /\ queues' \in Workers /\ process' \in {queues', NoWorker}
           /\ queues' = Fresh /\ Fresh \in Workers
<1>1. <<>> \in Seq(Command) /\ <<>> \in Seq(Event)
  OBVIOUS
<1>2. Spare # {} /\ Fresh \in Workers
  BY FreshIsSpare DEF Respawn
<1> DEFINE w == Fresh
<1> HIDE DEF w
<1>3. /\ life' = [Kept(life, process, "dead") EXCEPT ![w] = "up"]
      /\ inbox' = [Kept(inbox, process, <<>>) EXCEPT ![w] = first]
      /\ outbox' = [outbox EXCEPT ![w] = <<>>]
      /\ running' = Kept(running, process, NoJob)
      /\ flag' = Kept(flag, process, FALSE)
      /\ ending' = Kept(ending, process, NoEvent)
      /\ process' = (IF held THEN w ELSE NoWorker)
      /\ queues' = w
  BY DEF Respawn, w
<1>4. w \in Workers /\ w = Fresh
  BY <1>2 DEF w
<1>5. /\ life' \in [Workers -> {"up", "frozen", "dead"}]
      /\ running' \in [Workers -> Jobs \cup {NoJob}] /\ flag' \in [Workers -> BOOLEAN]
      /\ ending' \in [Workers -> Event \cup {NoEvent}]
  BY <1>3, <1>4 DEF ClientTypes, WorkTypes, Kept
<1>6. inbox' \in [Workers -> Seq(Command)] /\ outbox' \in [Workers -> Seq(Event)]
  BY <1>1, <1>3, <1>4 DEF ClientTypes, WorkTypes, Kept
<1> QED BY <1>3, <1>4, <1>5, <1>6 DEF WorkTypes

(* A command that is put leaves the types right.                              *)
LEMMA PutTypes ==
    ASSUME ClientTypes, NEW c \in Command, Put(c)
    PROVE  inbox' \in [Workers -> Seq(Command)]
<1>1. CASE IsAlive(queues)
  <2>1. queues \in Workers
    BY <1>1 DEF ClientTypes, WorkTypes, IsAlive
  <2>2. Append(inbox[queues], c) \in Seq(Command)
    BY <2>1, AppendFacts DEF ClientTypes, WorkTypes
  <2> QED BY <1>1, <2>1, <2>2 DEF Put, ClientTypes, WorkTypes
<1> QED BY <1>1 DEF Put, ClientTypes, WorkTypes

(* A job that is answered leaves the types right.                             *)
LEMMA AnswerTypes ==
    ASSUME ClientTypes, NEW j \in Jobs, NEW kind \in Answers, Answer(j, kind)
    PROVE  answers' \in [Jobs -> Seq(Answers)]
<1>1. Append(answers[j], kind) \in Seq(Answers)
  BY AppendFacts DEF ClientTypes
<1> QED BY <1>1 DEF ClientTypes, Answer

(* The active job fails: the types stay right.                                *)
FailKeepsTypes ==
    /\ active' \in Jobs \cup {NoJob} /\ wait' \in Seq(Jobs)
    /\ queues' \in Workers /\ process' \in {queues', NoWorker}
    /\ answers' \in [Jobs -> Seq(Answers)] /\ WorkTypes'

(* So does the failure of the active job.                                     *)
LEMMA FailTypes ==
    ASSUME ClientTypes, NEW kind \in Answers, NEW held \in BOOLEAN, active # NoJob,
           FailActive(kind, held)
    PROVE  FailKeepsTypes
<1>1. StartNext \in Seq(Command) /\ NextWait \in Seq(Jobs) /\ NextActive \in Jobs \cup {NoJob}
  BY NextFacts DEF ClientTypes
<1>2. WorkTypes' /\ queues' \in Workers /\ process' \in {queues', NoWorker}
  BY <1>1, RespawnTypes DEF FailActive
<1>3. answers' \in [Jobs -> Seq(Answers)]
  BY AnswerTypes DEF FailActive, ClientTypes
<1> QED BY <1>1, <1>2, <1>3 DEF FailActive, FailKeepsTypes

(* Every step keeps the types.                                                *)
LEMMA TypesKept ==
    ASSUME ClientTypes, [Next]_vars
    PROVE  ClientTypes'
<1> USE DEF jobVars, procVars, readerVars, workVars, callVars, envVars
<1>1. ASSUME NEW j \in Jobs, EnsureStarted(j)
      PROVE  ClientTypes'
  <2>0. /\ pc' \in [Jobs -> {"new", "starting", "expired", "submitting", "accepted", "refused"}]
        /\ jobType' \in [Jobs -> Types \cup {"none"}] /\ UNCHANGED <<jobVars, reading, fetched>>
    BY <1>1 DEF EnsureStarted, ClientTypes
  <2>1. CASE Respawn(<<>>, TRUE)
    <3>1. <<>> \in Seq(Command)
      OBVIOUS
    <3>2. WorkTypes' /\ queues' \in Workers /\ process' \in {queues', NoWorker}
      BY <2>1, <3>1, RespawnTypes
    <3> QED BY <2>0, <3>2 DEF ClientTypes
  <2>2. CASE UNCHANGED <<procVars, readerVars, life, workVars>>
    BY <1>1, <2>0, <2>2 DEF ClientTypes, WorkTypes
  <2> QED BY <1>1, <2>1, <2>2 DEF EnsureStarted
<1>2. ASSUME NEW j \in Jobs, StartupReady(j) \/ StartupExpires(j)
      PROVE  ClientTypes'
  BY <1>2 DEF StartupReady, StartupExpires, ClientTypes, WorkTypes
<1>3. ASSUME NEW j \in Jobs, StartupKills(j)
      PROVE  ClientTypes'
  <2>1. WorkTypes'
    BY <1>3, DiesTypes DEF StartupKills, Kill, ClientTypes
  <2> QED BY <1>3, <2>1 DEF StartupKills, Kill, ClientTypes
<1>4. ASSUME NEW j \in Jobs, Submit(j)
      PROVE  ClientTypes'
  <2>0. pc' \in [Jobs -> {"new", "starting", "expired", "submitting", "accepted", "refused"}]
    BY <1>4 DEF Submit, ClientTypes
  <2>1. CASE active = NoJob /\ active' = j /\ Put(<<"start", j>>) /\ UNCHANGED wait
    <3>1. <<"start", j>> \in Command
      BY DEF Command
    <3>2. inbox' \in [Workers -> Seq(Command)]
      BY <2>1, <3>1, PutTypes
    <3> QED BY <1>4, <2>0, <2>1, <3>2 DEF Submit, ClientTypes, WorkTypes
  <2>2. CASE wait' = Append(wait, j) /\ UNCHANGED <<active, inbox>>
    <3>1. wait' \in Seq(Jobs)
      BY <2>2, AppendFacts DEF ClientTypes
    <3> QED BY <1>4, <2>0, <2>2, <3>1 DEF Submit, ClientTypes, WorkTypes
  <2>3. CASE UNCHANGED <<active, wait, inbox, accepted>>
    BY <1>4, <2>0, <2>3 DEF Submit, ClientTypes, WorkTypes
  <2> QED BY <1>4, <2>1, <2>2, <2>3 DEF Submit
<1>5. ASSUME NEW j \in Jobs, Cancel(j)
      PROVE  ClientTypes'
  <2>0. UNCHANGED <<pc, jobType>>
    BY <1>5 DEF Cancel
  <2>1. CASE /\ \E i \in DOMAIN wait : wait[i] = j /\ wait' = RemoveAt(wait, i)
             /\ Answer(j, "cancelled")
             /\ UNCHANGED <<active, procVars, readerVars, life, workVars>>
    <3>1. wait' \in Seq(Jobs)
      BY <2>1, RemoveFacts, SMTT(40) DEF ClientTypes
    <3>2. answers' \in [Jobs -> Seq(Answers)]
      BY <2>1, AnswerTypes DEF Answers
    <3> QED BY <2>0, <2>1, <3>1, <3>2 DEF ClientTypes, WorkTypes
  <2>2. CASE active = j /\ FailActive("cancelled", TRUE) /\ UNCHANGED <<reading, fetched>>
    <3>1. FailKeepsTypes
      BY <2>2, FailTypes, JobsAssumption DEF Answers
    <3> QED BY <2>0, <2>2, <3>1 DEF FailKeepsTypes, ClientTypes
  <2>3. CASE Put(<<"cancel", j>>) /\ UNCHANGED <<jobVars, procVars, readerVars, life, outbox,
                                                 running, flag, ending>>
    <3>1. <<"cancel", j>> \in Command
      BY DEF Command
    <3>2. inbox' \in [Workers -> Seq(Command)]
      BY <2>3, <3>1, PutTypes
    <3> QED BY <2>0, <2>3, <3>2 DEF ClientTypes, WorkTypes
  <2>4. CASE UNCHANGED <<jobVars, procVars, readerVars, life, workVars>>
    BY <2>0, <2>4 DEF ClientTypes, WorkTypes
  <2> QED BY <1>5, <2>1, <2>2, <2>3, <2>4 DEF Cancel
<1>6. ASSUME Fetch
      PROVE  ClientTypes'
  <2>1. reading \in Workers /\ outbox[reading] \in Seq(Event) /\ outbox[reading] # <<>>
    BY <1>6 DEF Fetch, ClientTypes, WorkTypes
  <2>2. Head(outbox[reading]) \in Event /\ Tail(outbox[reading]) \in Seq(Event)
    BY <2>1, TailFacts
  <2> QED BY <1>6, <2>1, <2>2 DEF Fetch, ClientTypes, WorkTypes
<1>7. ASSUME DispatchAnswer
      PROVE  ClientTypes'
  <2>1. /\ StartNext \in Seq(Command) /\ NextWait \in Seq(Jobs) /\ NextActive \in Jobs \cup {NoJob}
    BY NextFacts DEF ClientTypes
  <2>2. active \in Jobs /\ fetched[1] \in Answers
    BY <1>7 DEF DispatchAnswer, ClientTypes, Event, NoEvent, Answers
  <2>3. answers' \in [Jobs -> Seq(Answers)]
    BY <1>7, <2>2, AnswerTypes DEF DispatchAnswer
  <2>4. inbox' \in [Workers -> Seq(Command)]
    <3>1. CASE IsAlive(queues)
      <4>1. queues \in Workers /\ inbox[queues] \o StartNext \in Seq(Command)
        BY <2>1, <3>1 DEF ClientTypes, WorkTypes, IsAlive
      <4> QED BY <1>7, <3>1, <4>1 DEF DispatchAnswer, ClientTypes, WorkTypes
    <3> QED BY <1>7, <3>1 DEF DispatchAnswer, ClientTypes, WorkTypes
  <2> QED BY <1>7, <2>1, <2>3, <2>4 DEF DispatchAnswer, ClientTypes, WorkTypes
<1>8. ASSUME DispatchStrands
      PROVE  ClientTypes'
  <2>1. active \in Jobs /\ fetched[1] \in Answers
    BY <1>8 DEF DispatchStrands, ClientTypes, Event, NoEvent, Answers
  <2>2. answers' \in [Jobs -> Seq(Answers)]
    BY <1>8, <2>1, AnswerTypes DEF DispatchStrands
  <2>3. WorkTypes'
    BY <1>8, DiesTypes DEF DispatchStrands, ClientTypes
  <2>4. wait' \in Seq(Jobs)
    BY <1>8, TailFacts DEF DispatchStrands, ClientTypes
  <2> QED BY <1>8, <2>2, <2>3, <2>4 DEF DispatchStrands, ClientTypes
<1>9. ASSUME DispatchStale
      PROVE  ClientTypes'
  BY <1>9 DEF DispatchStale, ClientTypes, WorkTypes
<1>10. ASSUME ReaderFindsCrash
      PROVE  ClientTypes'
  <2>1. FailKeepsTypes
    BY <1>10, FailTypes DEF ReaderFindsCrash, Answers, ClientTypes
  <2> QED BY <1>10, <2>1 DEF ReaderFindsCrash, FailKeepsTypes, ClientTypes
<1>11. ASSUME ReaderLoops \/ Handshake \/ WatchdogExits \/ Toggle
      PROVE  ClientTypes'
  BY <1>11 DEF ReaderLoops, Handshake, WatchdogExits, Toggle, ClientTypes, WorkTypes
<1>12. ASSUME WatchdogTimeout
      PROVE  ClientTypes'
  <2>1. FailKeepsTypes
    BY <1>12, FailTypes DEF WatchdogTimeout, Answers, ClientTypes
  <2> QED BY <1>12, <2>1 DEF WatchdogTimeout, FailKeepsTypes, ClientTypes
<1>13. ASSUME Release
      PROVE  ClientTypes'
  <2>1. WorkTypes'
    BY <1>13, DiesTypes DEF Release, Kill, ClientTypes
  <2> QED BY <1>13, <2>1 DEF Release, Kill, ClientTypes
<1>14. ASSUME Shutdown
      PROVE  ClientTypes'
  <2>1. answers' \in [Jobs -> Seq(Answers)]
    <3>1. \A j \in Jobs : Append(answers[j], "cancelled") \in Seq(Answers)
      BY AppendFacts DEF ClientTypes, Answers
    <3> QED BY <1>14, <3>1 DEF Shutdown, ClientTypes
  <2>2. WorkTypes'
    <3>1. CASE process # NoWorker
      BY <1>14, <3>1, DiesTypes DEF Shutdown, ClientTypes
    <3>2. CASE process = NoWorker
      <4>1. <<"shutdown", NoJob>> \in Command
        BY DEF Command
      <4>2. inbox' \in [Workers -> Seq(Command)]
        BY <1>14, <3>2, <4>1, PutTypes DEF Shutdown
      <4> QED BY <1>14, <3>2, <4>2 DEF Shutdown, ClientTypes, WorkTypes
    <3> QED BY <3>1, <3>2
  <2> QED BY <1>14, <2>1, <2>2 DEF Shutdown, ClientTypes
<1>15. ASSUME NEW w \in Workers, TakeStart(w)
      PROVE  ClientTypes'
  <2>1. inbox[w] \in Seq(Command) /\ inbox[w] # <<>> /\ Head(inbox[w])[1] = "start"
    BY <1>15 DEF TakeStart, Reads, ClientTypes, WorkTypes
  <2>2. Tail(inbox[w]) \in Seq(Command) /\ Head(inbox[w]) \in Command
    BY <2>1, TailFacts
  <2>3. Head(inbox[w])[2] \in Jobs
    BY <2>1, <2>2 DEF Command
  <2>4. <<"error", Head(inbox[w])[2]>> \in Event
    BY <2>3 DEF Event
  <2>5. Append(outbox[w], <<"error", Head(inbox[w])[2]>>) \in Seq(Event)
    BY <2>4, AppendFacts DEF ClientTypes, WorkTypes
  <2> QED BY <1>15, <2>2, <2>3, <2>5, ZenonT(60) DEF TakeStart, RestUnchanged, ClientTypes, WorkTypes
<1>16. ASSUME NEW w \in Workers, TakeCancel(w)
      PROVE  ClientTypes'
  <2>1. inbox[w] \in Seq(Command) /\ inbox[w] # <<>>
    BY <1>16 DEF TakeCancel, Reads, ClientTypes, WorkTypes
  <2>2. Tail(inbox[w]) \in Seq(Command)
    BY <2>1, TailFacts
  <2>3. flag' \in [Workers -> BOOLEAN]
    <3>1. (flag[w] \/ running[w] = Head(inbox[w])[2]) \in BOOLEAN
      OBVIOUS
    <3> QED BY <1>16, <3>1 DEF TakeCancel, ClientTypes, WorkTypes
  <2> QED BY <1>16, <2>2, <2>3 DEF TakeCancel, RestUnchanged, ClientTypes, WorkTypes
<1>17. ASSUME NEW w \in Workers, TakeShutdown(w)
      PROVE  ClientTypes'
  <2>1. WorkTypes'
    BY <1>17, DiesTypes DEF TakeShutdown, ClientTypes
  <2> QED BY <1>17, <2>1 DEF TakeShutdown, RestUnchanged, ClientTypes
<1>18. ASSUME NEW w \in Workers, WorkerIdle(w)
      PROVE  ClientTypes'
  BY <1>18 DEF WorkerIdle, RestUnchanged, ClientTypes, WorkTypes
<1>19. ASSUME NEW w \in Workers, FlushTerminal(w)
      PROVE  ClientTypes'
  <2>1. ending[w] \in Event
    BY <1>19 DEF FlushTerminal, ClientTypes, WorkTypes
  <2>2. Append(outbox[w], ending[w]) \in Seq(Event)
    BY <2>1, AppendFacts DEF ClientTypes, WorkTypes
  <2> QED BY <1>19, <2>2 DEF FlushTerminal, RestUnchanged, ClientTypes, WorkTypes
<1>20. ASSUME NEW w \in Workers, NEW kind \in {"result", "error", "cancelled"}, JobEnds(w, kind)
      PROVE  ClientTypes'
  <2>1. running[w] \in Jobs
    BY <1>20 DEF JobEnds, ClientTypes, WorkTypes
  <2>2. <<kind, running[w]>> \in Event
    BY <2>1 DEF Event
  <2> QED BY <1>20, <2>2 DEF JobEnds, RestUnchanged, ClientTypes, WorkTypes
<1>21. ASSUME NEW w \in Workers, Crash(w)
      PROVE  ClientTypes'
  <2>1. WorkTypes'
    BY <1>21, DiesTypes DEF Crash, ClientTypes
  <2> QED BY <1>21, <2>1 DEF Crash, ClientTypes
<1>22. ASSUME NEW w \in Workers, Freeze(w)
      PROVE  ClientTypes'
  BY <1>22 DEF Freeze, ClientTypes, WorkTypes
<1>23. ASSUME UNCHANGED vars
      PROVE  ClientTypes'
  BY <1>23 DEF vars, ClientTypes, WorkTypes
<1> QED BY <1>1, <1>2, <1>3, <1>4, <1>5, <1>6, <1>7, <1>8, <1>9, <1>10, <1>11, <1>12, <1>13,
      <1>14, <1>15, <1>16, <1>17, <1>18, <1>19, <1>20, <1>21, <1>22, <1>23
        DEF Next, CallStep, Reader, WorkerStep

-----------------------------------------------------------------------------
(* What a step does to each worker.                                           *)
LEMMA DiesFacts ==
    ASSUME ClientTypes, NEW w \in Workers \cup {NoWorker}, Dies(w)
    PROVE  /\ UNCHANGED <<outbox, completed>>
           /\ \A v \in Workers :
                 /\ life'[v] = IF v = w THEN "dead" ELSE life[v]
                 /\ inbox'[v] = IF v = w THEN <<>> ELSE inbox[v]
                 /\ v = w => DOMAIN inbox'[v] = {}
                 /\ running'[v] = IF v = w THEN NoJob ELSE running[v]
                 /\ flag'[v] = IF v = w THEN FALSE ELSE flag[v]
                 /\ ending'[v] = IF v = w THEN NoEvent ELSE ending[v]
<1>1. /\ life' = Kept(life, w, "dead") /\ inbox' = Kept(inbox, w, <<>>)
      /\ running' = Kept(running, w, NoJob) /\ flag' = Kept(flag, w, FALSE)
      /\ ending' = Kept(ending, w, NoEvent) /\ UNCHANGED <<outbox, completed>>
  BY DEF Dies
<1>2. /\ DOMAIN life = Workers /\ DOMAIN inbox = Workers /\ DOMAIN running = Workers
      /\ DOMAIN flag = Workers /\ DOMAIN ending = Workers
  BY DEF ClientTypes, WorkTypes
<1>3. ASSUME NEW f, NEW d, DOMAIN f = Workers, NEW v \in Workers
      PROVE  Kept(f, w, d)[v] = IF v = w THEN d ELSE f[v]
  BY <1>3 DEF Kept, Workers, NoWorker
<1>4. \A v \in Workers :
         /\ Kept(life, w, "dead")[v] = IF v = w THEN "dead" ELSE life[v]
         /\ Kept(inbox, w, <<>>)[v] = IF v = w THEN <<>> ELSE inbox[v]
         /\ Kept(running, w, NoJob)[v] = IF v = w THEN NoJob ELSE running[v]
         /\ Kept(flag, w, FALSE)[v] = IF v = w THEN FALSE ELSE flag[v]
         /\ Kept(ending, w, NoEvent)[v] = IF v = w THEN NoEvent ELSE ending[v]
  BY <1>2, <1>3, ZenonT(60)
<1>5. \A v \in Workers : v = w => DOMAIN Kept(inbox, w, <<>>)[v] = {}
  <2>1. DOMAIN <<>> = {}
    OBVIOUS
  <2> QED BY <1>4, <2>1, Zenon
<1> QED BY <1>1, <1>4, <1>5, Zenon

(* A respawn ends the old worker and starts one with fresh queues.            *)
LEMMA RespawnFacts ==
    ASSUME ClientTypes, NEW first, NEW held \in BOOLEAN, Respawn(first, held)
    PROVE  /\ Fresh \in Workers /\ life[Fresh] = "dead"
           /\ Fresh \notin {process, queues, reading, NoWorker}
           /\ queues' = Fresh /\ process' = (IF held THEN Fresh ELSE NoWorker)
           /\ hwAccel' = hw /\ completed' = completed
           /\ \A v \in Workers :
                 /\ life'[v] = IF v = Fresh THEN "up" ELSE IF v = process THEN "dead" ELSE life[v]
                 /\ inbox'[v] = IF v = Fresh THEN first ELSE IF v = process THEN <<>> ELSE inbox[v]
                 /\ v = process => DOMAIN inbox'[v] = {}
                 /\ outbox'[v] = IF v = Fresh THEN <<>> ELSE outbox[v]
                 /\ running'[v] = IF v = process THEN NoJob ELSE running[v]
                 /\ flag'[v] = IF v = process THEN FALSE ELSE flag[v]
                 /\ ending'[v] = IF v = process THEN NoEvent ELSE ending[v]
<1>1. /\ Fresh \in Workers /\ life[Fresh] = "dead"
      /\ Fresh \notin {process, queues, reading, NoWorker}
  BY FreshIsSpare DEF Respawn
<1> DEFINE w == Fresh
<1> HIDE DEF w
<1>2. /\ life' = [Kept(life, process, "dead") EXCEPT ![w] = "up"]
      /\ inbox' = [Kept(inbox, process, <<>>) EXCEPT ![w] = first]
      /\ outbox' = [outbox EXCEPT ![w] = <<>>]
      /\ running' = Kept(running, process, NoJob)
      /\ flag' = Kept(flag, process, FALSE)
      /\ ending' = Kept(ending, process, NoEvent)
      /\ process' = (IF held THEN w ELSE NoWorker)
      /\ queues' = w /\ hwAccel' = hw /\ completed' = completed
  BY DEF Respawn, w
<1>3. w \in Workers /\ w = Fresh /\ w # process
  BY <1>1 DEF w
<1>4. \A v \in Workers :
         /\ life'[v] = IF v = w THEN "up" ELSE IF v = process THEN "dead" ELSE life[v]
         /\ inbox'[v] = IF v = w THEN first ELSE IF v = process THEN <<>> ELSE inbox[v]
         /\ outbox'[v] = IF v = w THEN <<>> ELSE outbox[v]
  BY <1>2, <1>3 DEF Kept, ClientTypes, WorkTypes, Workers, NoWorker
<1>5. /\ DOMAIN running = Workers /\ DOMAIN flag = Workers /\ DOMAIN ending = Workers
      /\ process \in Workers \cup {NoWorker}
  BY DEF ClientTypes, WorkTypes
<1>6. ASSUME NEW f, NEW d, DOMAIN f = Workers, NEW v \in Workers
      PROVE  Kept(f, process, d)[v] = IF v = process THEN d ELSE f[v]
  BY <1>5, <1>6 DEF Kept, Workers, NoWorker
<1>7. \A v \in Workers :
         /\ running'[v] = IF v = process THEN NoJob ELSE running[v]
         /\ flag'[v] = IF v = process THEN FALSE ELSE flag[v]
         /\ ending'[v] = IF v = process THEN NoEvent ELSE ending[v]
  BY <1>2, <1>5, <1>6, ZenonT(60)
<1>8. \A v \in Workers : v = process => DOMAIN inbox'[v] = {}
  BY <1>3, <1>4
<1> QED BY <1>1, <1>2, <1>3, <1>4, <1>7, <1>8, ZenonT(60)

(* A command goes to the worker the client has the queues of.                 *)
LEMMA PutFacts ==
    ASSUME ClientTypes, NEW c \in Command, Put(c)
    PROVE  \A v \in Workers :
              IF v = queues /\ life[v] # "dead"
              THEN /\ DOMAIN inbox'[v] = 1..(Len(inbox[v]) + 1) /\ DOMAIN inbox[v] = 1..Len(inbox[v])
                   /\ Len(inbox[v]) \in Nat
                   /\ \A i \in 1..Len(inbox[v]) : inbox'[v][i] = inbox[v][i]
                   /\ inbox'[v][Len(inbox[v]) + 1] = c
              ELSE inbox'[v] = inbox[v]
<1> SUFFICES ASSUME NEW v \in Workers
             PROVE  IF v = queues /\ life[v] # "dead"
                    THEN /\ DOMAIN inbox'[v] = 1..(Len(inbox[v]) + 1) /\ DOMAIN inbox[v] = 1..Len(inbox[v])
                         /\ Len(inbox[v]) \in Nat
                         /\ \A i \in 1..Len(inbox[v]) : inbox'[v][i] = inbox[v][i]
                         /\ inbox'[v][Len(inbox[v]) + 1] = c
                    ELSE inbox'[v] = inbox[v]
  OBVIOUS
<1>1. CASE v = queues /\ life[v] # "dead"
  <2>1. inbox'[v] = Append(inbox[v], c) /\ inbox[v] \in Seq(Command)
    <3>1. IsAlive(queues) /\ inbox \in [Workers -> Seq(Command)]
      BY <1>1 DEF IsAlive, ClientTypes, WorkTypes, Workers, NoWorker
    <3>2. inbox' = [inbox EXCEPT ![queues] = Append(@, c)]
      BY <3>1 DEF Put
    <3> QED BY <1>1, <3>1, <3>2
  <2> QED BY <1>1, <2>1, AppendFacts
<1>2. CASE ~(v = queues /\ life[v] # "dead")
  BY <1>2 DEF Put, IsAlive, ClientTypes, WorkTypes, Workers, NoWorker
<1> QED BY <1>1, <1>2

(* The next job is put into the queue like any other.                         *)
LEMMA DispatchPuts ==
    ASSUME ClientTypes, DispatchAnswer
    PROVE  /\ wait = <<>> => inbox' = inbox
           /\ wait # <<>> => Put(<<"start", wait[1]>>) /\ <<"start", wait[1]>> \in Command
<1>1. CASE wait = <<>>
  <2>1. StartNext = <<>>
    BY <1>1, NextFacts DEF ClientTypes
  <2>2. CASE IsAlive(queues)
    <3>1. queues \in Workers /\ inbox[queues] \in Seq(Command) /\ inbox[queues] \o <<>> = inbox[queues]
      BY <2>2 DEF ClientTypes, WorkTypes, IsAlive
    <3> QED BY <1>1, <2>1, <2>2, <3>1 DEF DispatchAnswer, ClientTypes, WorkTypes
  <2> QED BY <1>1, <2>2 DEF DispatchAnswer
<1>2. CASE wait # <<>>
  <2>1. StartNext = << <<"start", wait[1]>> >> /\ wait[1] \in Jobs
    BY <1>2, NextFacts DEF ClientTypes
  <2>2. <<"start", wait[1]>> \in Command
    BY <2>1 DEF Command
  <2>3. CASE IsAlive(queues)
    <3>1. queues \in Workers /\ inbox[queues] \in Seq(Command)
      BY <2>3 DEF ClientTypes, WorkTypes, IsAlive
    <3>2. inbox[queues] \o StartNext = Append(inbox[queues], <<"start", wait[1]>>)
      BY <2>1, <2>2, <3>1
    <3> QED BY <1>2, <2>2, <2>3, <3>1, <3>2 DEF DispatchAnswer, Put
  <2> QED BY <1>2, <2>2, <2>3 DEF DispatchAnswer, Put
<1> QED BY <1>1, <1>2

(* A worker that reads takes the first command.                               *)
LEMMA ReadFacts ==
    ASSUME ClientTypes, NEW w \in Workers, NEW kind, Reads(w, kind),
           inbox' = [inbox EXCEPT ![w] = Tail(@)]
    PROVE  /\ life[w] = "up" /\ Head(inbox[w]) = inbox[w][1] /\ 1 \in DOMAIN inbox[w]
           /\ inbox[w][1][1] = kind /\ inbox[w][1] \in Command
           /\ \A i \in DOMAIN inbox'[w] : i \in Nat /\ i + 1 \in DOMAIN inbox[w]
                                             /\ inbox'[w][i] = inbox[w][i + 1]
           /\ \A i \in DOMAIN inbox[w] : i \in Nat /\ i >= 1
           /\ \A v \in Workers : v # w => inbox'[v] = inbox[v]
<1>1. inbox[w] \in Seq(Command) /\ inbox[w] # <<>> /\ life[w] = "up" /\ Head(inbox[w])[1] = kind
  BY DEF Reads, ClientTypes, WorkTypes
<1>2. inbox'[w] = Tail(inbox[w]) /\ \A v \in Workers : v # w => inbox'[v] = inbox[v]
  BY DEF ClientTypes, WorkTypes
<1>3. /\ Head(inbox[w]) \in Command /\ Head(inbox[w]) = inbox[w][1] /\ 1 \in DOMAIN inbox[w]
      /\ \A i \in DOMAIN Tail(inbox[w]) : i \in Nat /\ i + 1 \in DOMAIN inbox[w]
                                               /\ Tail(inbox[w])[i] = inbox[w][i + 1]
      /\ \A i \in DOMAIN inbox[w] : i \in Nat /\ i >= 1
  BY <1>1, TailFacts
<1> QED BY <1>1, <1>2, <1>3

-----------------------------------------------------------------------------
(* Every step keeps the client's process and dead workers as they should be.  *)
LEMMA WorkersFitKept ==
    ASSUME ClientTypes, WorkersFit, [Next]_vars
    PROVE  WorkersFit'
<1> USE DEF jobVars, procVars, readerVars, workVars, callVars, envVars
<1>1. ASSUME NEW j \in Jobs, EnsureStarted(j)
      PROVE  WorkersFit'
  <2>1. CASE Respawn(<<>>, TRUE)
    BY <2>1, RespawnFacts DEF WorkersFit
  <2>2. CASE UNCHANGED <<procVars, life, workVars>>
    BY <2>2 DEF WorkersFit
  <2> QED BY <1>1, <2>1, <2>2 DEF EnsureStarted
<1>2. ASSUME NEW j \in Jobs, StartupReady(j) \/ StartupExpires(j)
      PROVE  WorkersFit'
  BY <1>2 DEF StartupReady, StartupExpires, WorkersFit
<1>3. ASSUME NEW j \in Jobs, StartupKills(j)
      PROVE  WorkersFit'
  BY <1>3, DiesFacts DEF StartupKills, Kill, WorkersFit, ClientTypes
<1>4. ASSUME NEW j \in Jobs, Submit(j)
      PROVE  WorkersFit'
  <2>1. CASE Put(<<"start", j>>)
    <3>1. <<"start", j>> \in Command
      BY DEF Command
    <3> QED BY <1>4, <2>1, <3>1, PutFacts DEF Submit, WorkersFit
  <2>2. CASE UNCHANGED inbox
    BY <1>4, <2>2 DEF Submit, WorkersFit
  <2> QED BY <1>4, <2>1, <2>2 DEF Submit
<1>5. ASSUME NEW j \in Jobs, Cancel(j)
      PROVE  WorkersFit'
  <2>1. CASE FailActive("cancelled", TRUE)
    BY <2>1, RespawnFacts DEF FailActive, WorkersFit
  <2>2. CASE Put(<<"cancel", j>>) /\ UNCHANGED <<procVars, life, running>>
    <3>1. <<"cancel", j>> \in Command
      BY DEF Command
    <3> QED BY <2>2, <3>1, PutFacts DEF WorkersFit
  <2>3. CASE UNCHANGED <<procVars, life, workVars>>
    BY <2>3 DEF WorkersFit
  <2> QED BY <1>5, <2>1, <2>2, <2>3 DEF Cancel
<1>6. ASSUME Fetch
      PROVE  WorkersFit'
  BY <1>6 DEF Fetch, WorkersFit
<1>7. ASSUME DispatchAnswer
      PROVE  WorkersFit'
  <2>1. CASE wait = <<>>
    BY <1>7, <2>1, DispatchPuts DEF DispatchAnswer, WorkersFit
  <2>2. CASE wait # <<>>
    BY <1>7, <2>2, DispatchPuts, PutFacts DEF DispatchAnswer, WorkersFit
  <2> QED BY <2>1, <2>2
<1>8. ASSUME DispatchStrands
      PROVE  WorkersFit'
  BY <1>8, DiesFacts DEF DispatchStrands, WorkersFit, ClientTypes
<1>9. ASSUME DispatchStale
      PROVE  WorkersFit'
  BY <1>9 DEF DispatchStale, WorkersFit
<1>10. ASSUME ReaderFindsCrash
      PROVE  WorkersFit'
  BY <1>10, RespawnFacts DEF ReaderFindsCrash, FailActive, WorkersFit
<1>11. ASSUME ReaderLoops \/ Handshake \/ WatchdogExits \/ Toggle
      PROVE  WorkersFit'
  BY <1>11 DEF ReaderLoops, Handshake, WatchdogExits, Toggle, WorkersFit
<1>12. ASSUME WatchdogTimeout
      PROVE  WorkersFit'
  BY <1>12, RespawnFacts, ZenonT(60) DEF WatchdogTimeout, FailActive, WorkersFit
<1>13. ASSUME Release
      PROVE  WorkersFit'
  BY <1>13, DiesFacts DEF Release, Kill, WorkersFit, ClientTypes
<1>14. ASSUME Shutdown
      PROVE  WorkersFit'
  <2>1. CASE process # NoWorker
    BY <1>14, <2>1, DiesFacts DEF Shutdown, WorkersFit, ClientTypes
  <2>2. CASE process = NoWorker
    <3>1. <<"shutdown", NoJob>> \in Command
      BY DEF Command
    <3> QED BY <1>14, <2>2, <3>1, PutFacts DEF Shutdown, WorkersFit
  <2> QED BY <2>1, <2>2
<1>15. ASSUME NEW w \in Workers, TakeStart(w)
      PROVE  WorkersFit'
  <2>1. life[w] = "up" /\ UNCHANGED <<life, procVars>>
    BY <1>15 DEF TakeStart, Reads, RestUnchanged
  <2>2. \A v \in Workers : v # w => running'[v] = running[v] /\ inbox'[v] = inbox[v]
    BY <1>15 DEF TakeStart, ClientTypes, WorkTypes
  <2> QED BY <2>1, <2>2 DEF WorkersFit
<1>16. ASSUME NEW w \in Workers, TakeCancel(w)
      PROVE  WorkersFit'
  <2>1. life[w] = "up" /\ UNCHANGED <<life, procVars>>
    BY <1>16 DEF TakeCancel, Reads, RestUnchanged
  <2>2. \A v \in Workers : v # w => running'[v] = running[v] /\ inbox'[v] = inbox[v]
    BY <1>16 DEF TakeCancel, ClientTypes, WorkTypes
  <2> QED BY <2>1, <2>2 DEF WorkersFit
<1>17. ASSUME NEW w \in Workers, TakeShutdown(w)
      PROVE  WorkersFit'
  BY <1>17, DiesFacts DEF TakeShutdown, RestUnchanged, WorkersFit
<1>18. ASSUME NEW w \in Workers, WorkerIdle(w)
      PROVE  WorkersFit'
  BY <1>18 DEF WorkerIdle, RestUnchanged, WorkersFit, ClientTypes, WorkTypes
<1>19. ASSUME NEW w \in Workers, FlushTerminal(w)
      PROVE  WorkersFit'
  BY <1>19 DEF FlushTerminal, RestUnchanged, WorkersFit
<1>20. ASSUME NEW w \in Workers, NEW kind \in {"result", "error", "cancelled"}, JobEnds(w, kind)
      PROVE  WorkersFit'
  BY <1>20 DEF JobEnds, RestUnchanged, WorkersFit
<1>21. ASSUME NEW w \in Workers, Crash(w)
      PROVE  WorkersFit'
  BY <1>21, DiesFacts DEF Crash, WorkersFit
<1>22. ASSUME NEW w \in Workers, Freeze(w)
      PROVE  WorkersFit'
  BY <1>22 DEF Freeze, WorkersFit, ClientTypes, WorkTypes
<1>23. ASSUME UNCHANGED vars
      PROVE  WorkersFit'
  BY <1>23 DEF vars, WorkersFit
<1> QED BY <1>1, <1>2, <1>3, <1>4, <1>5, <1>6, <1>7, <1>8, <1>9, <1>10, <1>11, <1>12, <1>13,
      <1>14, <1>15, <1>16, <1>17, <1>18, <1>19, <1>20, <1>21, <1>22, <1>23
        DEF Next, CallStep, Reader, WorkerStep

(* A new worker is born with at most one command, to start a job.             *)
LEMMA StartNextFacts ==
    ASSUME ClientTypes
    PROVE  \A i \in DOMAIN StartNext : i = 1 /\ StartNext[i] = <<"start", wait[1]>> /\ wait # <<>>
<1>1. CASE wait = <<>>
  BY <1>1 DEF StartNext
<1>2. CASE wait # <<>>
  <2>1. Len(StartNext) = 1 /\ StartNext \in Seq(Command) /\ StartNext[1] = <<"start", wait[1]>>
    BY <1>2, NextFacts DEF ClientTypes
  <2>2. DOMAIN StartNext = {1}
    BY <2>1
  <2> QED BY <1>2, <2>1, <2>2
<1> QED BY <1>1, <1>2

(* Every step that is no crash keeps the worker the only one.                 *)
LEMMA OneAliveKept ==
    ASSUME ClientTypes, OneAlive, NoneEnds, [Next]_vars
    PROVE  OneAlive'
<1> USE DEF jobVars, procVars, readerVars, workVars, callVars, envVars
<1>1. ASSUME NEW j \in Jobs, EnsureStarted(j)
      PROVE  OneAlive'
  <2>1. CASE Respawn(<<>>, TRUE)
    BY <1>1, <2>1, RespawnFacts, ZenonT(60) DEF EnsureStarted, OneAlive
  <2>2. CASE UNCHANGED <<procVars, life, workVars>>
    BY <1>1, <2>2 DEF EnsureStarted, OneAlive
  <2> QED BY <1>1, <2>1, <2>2 DEF EnsureStarted
<1>2. ASSUME NEW j \in Jobs, StartupReady(j) \/ StartupExpires(j)
      PROVE  OneAlive'
  BY <1>2 DEF StartupReady, StartupExpires, Mishap, OneAlive
<1>3. ASSUME NEW j \in Jobs, StartupKills(j)
      PROVE  OneAlive'
  BY <1>3, DiesFacts DEF StartupKills, Kill, OneAlive, ClientTypes
<1>4. ASSUME NEW j \in Jobs, Submit(j)
      PROVE  OneAlive'
  BY <1>4 DEF Submit, OneAlive
<1>5. ASSUME NEW j \in Jobs, Cancel(j)
      PROVE  OneAlive'
  <2>1. CASE FailActive("cancelled", TRUE)
    BY <1>5, <2>1, RespawnFacts, ZenonT(60) DEF Cancel, FailActive, OneAlive
  <2>2. CASE UNCHANGED <<procVars, life>>
    BY <1>5, <2>2 DEF Cancel, OneAlive
  <2> QED BY <1>5, <2>1, <2>2 DEF Cancel
<1>6. ASSUME Fetch
      PROVE  OneAlive'
  BY <1>6 DEF Fetch, OneAlive
<1>7. ASSUME DispatchAnswer
      PROVE  OneAlive'
  BY <1>7 DEF DispatchAnswer, OneAlive
<1>8. ASSUME DispatchStrands
      PROVE  OneAlive'
  BY <1>8, DiesFacts DEF DispatchStrands, OneAlive, ClientTypes
<1>9. ASSUME DispatchStale
      PROVE  OneAlive'
  BY <1>9 DEF DispatchStale, OneAlive
<1>10. ASSUME ReaderFindsCrash
      PROVE  OneAlive'
  BY <1>10 DEF ReaderFindsCrash, OneAlive
<1>11. ASSUME ReaderLoops \/ Handshake \/ WatchdogExits \/ Toggle
      PROVE  OneAlive'
  BY <1>11 DEF ReaderLoops, Handshake, WatchdogExits, Toggle, Mishap, OneAlive
<1>12. ASSUME WatchdogTimeout
      PROVE  OneAlive'
  <2>1. "crash" \notin happened' => "crash" \notin happened
    BY <1>12 DEF WatchdogTimeout, Mishap
  <2> QED BY <1>12, <2>1, RespawnFacts, ZenonT(60) DEF WatchdogTimeout, FailActive, OneAlive
<1>13. ASSUME Release
      PROVE  OneAlive'
  BY <1>13, DiesFacts DEF Release, Kill, Mishap, OneAlive, ClientTypes
<1>14. ASSUME Shutdown
      PROVE  OneAlive'
  <2>1. CASE process # NoWorker
    BY <1>14, <2>1, DiesFacts DEF Shutdown, OneAlive, ClientTypes
  <2>2. CASE process = NoWorker
    BY <1>14, <2>2 DEF Shutdown, OneAlive
  <2> QED BY <2>1, <2>2
<1>15. ASSUME NEW w \in Workers, TakeStart(w)
      PROVE  OneAlive'
  BY <1>15 DEF TakeStart, RestUnchanged, OneAlive
<1>16. ASSUME NEW w \in Workers, TakeCancel(w)
      PROVE  OneAlive'
  BY <1>16 DEF TakeCancel, RestUnchanged, OneAlive
<1>17. ASSUME NEW w \in Workers, TakeShutdown(w)
      PROVE  OneAlive'
  <2>1. Reads(w, "shutdown") /\ UNCHANGED happened
    BY <1>17 DEF TakeShutdown, RestUnchanged
  <2>2. 1 \in DOMAIN inbox[w] /\ inbox[w][1][1] = "shutdown"
    BY <2>1 DEF Reads, ClientTypes, WorkTypes
  <2> QED BY <2>1, <2>2 DEF NoneEnds, OneAlive
<1>18. ASSUME NEW w \in Workers, WorkerIdle(w)
      PROVE  OneAlive'
  BY <1>18 DEF WorkerIdle, RestUnchanged, OneAlive
<1>19. ASSUME NEW w \in Workers, FlushTerminal(w)
      PROVE  OneAlive'
  BY <1>19 DEF FlushTerminal, RestUnchanged, OneAlive
<1>20. ASSUME NEW w \in Workers, NEW kind \in {"result", "error", "cancelled"}, JobEnds(w, kind)
      PROVE  OneAlive'
  BY <1>20 DEF JobEnds, RestUnchanged, OneAlive
<1>21. ASSUME NEW w \in Workers, Crash(w)
      PROVE  OneAlive'
  BY <1>21 DEF Crash, Mishap, OneAlive
<1>22. ASSUME NEW w \in Workers, Freeze(w)
      PROVE  OneAlive'
  BY <1>22 DEF Freeze, Mishap, OneAlive, ClientTypes, WorkTypes
<1>23. ASSUME UNCHANGED vars
      PROVE  OneAlive'
  BY <1>23 DEF vars, OneAlive
<1> QED BY <1>1, <1>2, <1>3, <1>4, <1>5, <1>6, <1>7, <1>8, <1>9, <1>10, <1>11, <1>12, <1>13,
      <1>14, <1>15, <1>16, <1>17, <1>18, <1>19, <1>20, <1>21, <1>22, <1>23
        DEF Next, CallStep, Reader, WorkerStep

-----------------------------------------------------------------------------
(* The line: a job in it is accepted, unanswered and there once.              *)
LEMMA AnswerFacts ==
    ASSUME ClientTypes, LineFits, NEW j \in Jobs, NEW kind \in Answers, Answer(j, kind),
           answers[j] = <<>>
    PROVE  /\ \A k \in Jobs : k # j => answers'[k] = answers[k]
           /\ answers'[j] = <<kind>> /\ Len(answers'[j]) <= 1 /\ answers'[j] # <<>>
<1>1. answers'[j] = Append(<<>>, kind) /\ \A k \in Jobs : k # j => answers'[k] = answers[k]
  BY DEF Answer, ClientTypes
<1>2. Append(<<>>, kind) = <<kind>> /\ Len(<<kind>>) <= 1 /\ <<kind>> # <<>>
  OBVIOUS
<1> QED BY <1>1, <1>2

(* The line without its head has no job twice.                                *)
LEMMA NextWaitFits ==
    ASSUME ClientTypes, LineFits, wait' = NextWait
    PROVE  /\ \A i \in DOMAIN wait' : wait'[i] # NoJob /\ wait'[i] # active /\ wait'[i] # NextActive
           /\ \A i, k \in DOMAIN wait' : wait'[i] = wait'[k] => i = k
           /\ \A k \in Jobs : InWait(k)' => InWait(k) /\ k # active
           /\ \A k \in Jobs : InWait(k) => InWait(k)' \/ k = NextActive
           /\ NextActive # NoJob => InWait(NextActive) /\ NextActive # active /\ NextActive \in Jobs
<1>1. \A i \in DOMAIN wait : wait[i] \in Jobs
  BY DEF ClientTypes
<1>2. /\ \A i \in DOMAIN wait' : i \in Nat /\ i + 1 \in DOMAIN wait /\ i + 1 # 1
                                   /\ wait'[i] = wait[i + 1]
      /\ \A i \in DOMAIN wait : i \in Nat /\ (i = 1 \/ (i - 1 \in DOMAIN wait' /\ wait'[i - 1] = wait[i]))
      /\ wait = <<>> => NextActive = NoJob
      /\ wait # <<>> => NextActive = wait[1] /\ 1 \in DOMAIN wait
  BY NextFacts DEF ClientTypes
<1>3. \A i \in DOMAIN wait' : wait'[i] # NoJob /\ wait'[i] # active
  BY <1>1, <1>2, JobsAssumption DEF LineFits
<1>4. \A i \in DOMAIN wait' : wait'[i] # NextActive
  BY <1>1, <1>2, <1>3 DEF LineFits
<1>5. \A i, k \in DOMAIN wait' : wait'[i] = wait'[k] => i = k
  <2> SUFFICES ASSUME NEW i \in DOMAIN wait', NEW k \in DOMAIN wait', wait'[i] = wait'[k]
               PROVE  i = k
    OBVIOUS
  <2>1. i + 1 = k + 1 /\ i \in Nat /\ k \in Nat
    BY <1>2 DEF LineFits
  <2> QED BY <2>1
<1>6. \A k \in Jobs : InWait(k)' => InWait(k) /\ k # active
  BY <1>2, <1>3 DEF InWait, LineFits
<1>7. \A k \in Jobs : InWait(k) => InWait(k)' \/ k = NextActive
  <2> SUFFICES ASSUME NEW k \in Jobs, NEW i \in DOMAIN wait, wait[i] = k
               PROVE  InWait(k)' \/ k = NextActive
    BY DEF InWait
  <2>1. CASE i = 1
    BY <1>2, <2>1
  <2>2. CASE i # 1
    <3>1. i - 1 \in DOMAIN wait' /\ wait'[i - 1] = k
      BY <1>2, <2>2
    <3> QED BY <3>1 DEF InWait
  <2> QED BY <2>1, <2>2
<1>8. NextActive # NoJob => InWait(NextActive) /\ NextActive # active /\ NextActive \in Jobs
  BY <1>1, <1>2 DEF InWait, LineFits
<1> QED BY <1>3, <1>4, <1>5, <1>6, <1>7, <1>8

(* The line stays sound when its head becomes active.                         *)
LEMMA AdvanceFits ==
    ASSUME ClientTypes, LineFits, active # NoJob, NEW kind \in Answers, Answer(active, kind),
           active' = NextActive, wait' = NextWait, UNCHANGED pc
    PROVE  LineFits'
<1>1. active \in Jobs /\ answers[active] = <<>> /\ pc[active] = "accepted"
  BY DEF ClientTypes, LineFits
<1>2. /\ \A k \in Jobs : k # active => answers'[k] = answers[k]
      /\ Len(answers'[active]) <= 1
  BY <1>1, AnswerFacts
<1>3. \A j \in Jobs : (j = active \/ InWait(j))' => InWait(j) /\ j # active
  BY NextWaitFits, JobsAssumption
<1>4. \A i \in DOMAIN wait' : wait'[i] # active'
  BY NextWaitFits
<1>5. \A i, k \in DOMAIN wait' : wait'[i] = wait'[k] => i = k
  BY NextWaitFits
<1> QED BY <1>1, <1>2, <1>3, <1>4, <1>5 DEF LineFits, AnsweredOnce

(* Every step keeps the line in order.                                        *)
LEMMA LineFitsKept ==
    ASSUME ClientTypes, LineFits, [Next]_vars
    PROVE  LineFits'
<1> USE DEF jobVars, procVars, readerVars, workVars, callVars, envVars
<1>1. ASSUME NEW j \in Jobs, EnsureStarted(j)
      PROVE  LineFits'
  <2>1. pc[j] = "new" /\ (\A k \in Jobs : k # j => pc'[k] = pc[k]) /\ pc'[j] # "accepted"
    BY <1>1 DEF EnsureStarted, ClientTypes
  <2>2. UNCHANGED <<active, wait, answers>>
    BY <1>1 DEF EnsureStarted
  <2> QED BY <2>1, <2>2 DEF LineFits, InWait, AnsweredOnce
<1>2. ASSUME NEW j \in Jobs, StartupReady(j) \/ StartupExpires(j)
      PROVE  LineFits'
  <2>1. pc[j] = "starting" /\ (\A k \in Jobs : k # j => pc'[k] = pc[k]) /\ pc'[j] # "accepted"
    BY <1>2 DEF StartupReady, StartupExpires, ClientTypes
  <2>2. UNCHANGED <<active, wait, answers>>
    BY <1>2 DEF StartupReady, StartupExpires
  <2> QED BY <2>1, <2>2 DEF LineFits, InWait, AnsweredOnce
<1>3. ASSUME NEW j \in Jobs, StartupKills(j)
      PROVE  LineFits'
  <2>1. pc[j] = "expired" /\ (\A k \in Jobs : k # j => pc'[k] = pc[k]) /\ pc'[j] # "accepted"
    BY <1>3 DEF StartupKills, ClientTypes
  <2>2. UNCHANGED <<active, wait, answers>>
    BY <1>3 DEF StartupKills
  <2> QED BY <2>1, <2>2 DEF LineFits, InWait, AnsweredOnce
<1>4. ASSUME NEW j \in Jobs, Submit(j)
      PROVE  LineFits'
  <2>1. pc[j] = "submitting" /\ (\A k \in Jobs : k # j => pc'[k] = pc[k])
    BY <1>4 DEF Submit, ClientTypes
  <2>2. UNCHANGED answers /\ answers[j] = <<>> /\ j # active /\ ~InWait(j)
    BY <1>4, <2>1 DEF Submit, LineFits
  <2>3. CASE active = NoJob /\ active' = j /\ UNCHANGED wait /\ pc' = [pc EXCEPT ![j] = "accepted"]
    <3>1. pc'[j] = "accepted"
      BY <2>3 DEF ClientTypes
    <3> QED BY <2>1, <2>2, <2>3, <3>1 DEF LineFits, InWait, AnsweredOnce
  <2>4. CASE wait' = Append(wait, j) /\ UNCHANGED active /\ pc' = [pc EXCEPT ![j] = "accepted"]
    <3>1. pc'[j] = "accepted"
      BY <2>4 DEF ClientTypes
    <3>2. /\ DOMAIN wait' = 1..(Len(wait) + 1) /\ DOMAIN wait = 1..Len(wait) /\ Len(wait) \in Nat
          /\ \A i \in 1..Len(wait) : wait'[i] = wait[i]
          /\ wait'[Len(wait) + 1] = j
      BY <2>4, AppendFacts DEF ClientTypes
    <3>3. \A i \in DOMAIN wait' : i \in DOMAIN wait \/ i = Len(wait) + 1
      BY <3>2
    <3>4. /\ \A i \in DOMAIN wait' : wait'[i] # active'
          /\ \A i, k \in DOMAIN wait' : wait'[i] = wait'[k] => i = k
      BY <2>2, <2>4, <3>2, <3>3 DEF LineFits, InWait
    <3>5. \A k \in Jobs : (k = active \/ InWait(k))' => k = j \/ k = active \/ InWait(k)
      BY <2>4, <3>2, <3>3 DEF InWait
    <3> QED BY <2>1, <2>2, <3>1, <3>4, <3>5 DEF LineFits, AnsweredOnce
  <2>5. CASE UNCHANGED <<active, wait>> /\ pc' = [pc EXCEPT ![j] = "refused"]
    BY <2>1, <2>2, <2>5 DEF LineFits, InWait, AnsweredOnce, ClientTypes
  <2> QED BY <1>4, <2>3, <2>4, <2>5 DEF Submit
<1>5. ASSUME NEW j \in Jobs, Cancel(j)
      PROVE  LineFits'
  <2>0. UNCHANGED pc
    BY <1>5 DEF Cancel
  <2>1. ASSUME NEW i \in DOMAIN wait, wait[i] = j, wait' = RemoveAt(wait, i), UNCHANGED active,
               Answer(j, "cancelled")
        PROVE  LineFits'
    <3>1. \A a \in DOMAIN wait' : \E b \in DOMAIN wait :
             /\ b # i /\ wait'[a] = wait[b]
             /\ a \in Nat /\ b = (IF a < i THEN a ELSE a + 1)
      BY <2>1, RemoveFacts, SMTT(40) DEF ClientTypes
    <3>2. \A a \in DOMAIN wait' : wait'[a] # active'
      BY <2>1, <3>1 DEF LineFits
    <3>3. \A a, c \in DOMAIN wait' : wait'[a] = wait'[c] => a = c
      <4> SUFFICES ASSUME NEW a \in DOMAIN wait', NEW c \in DOMAIN wait', wait'[a] = wait'[c]
                   PROVE  a = c
        OBVIOUS
      <4>1. PICK b \in DOMAIN wait : wait'[a] = wait[b] /\ a \in Nat /\ b = (IF a < i THEN a ELSE a + 1)
        BY <3>1
      <4>2. PICK d \in DOMAIN wait : wait'[c] = wait[d] /\ c \in Nat /\ d = (IF c < i THEN c ELSE c + 1)
        BY <3>1
      <4>3. b = d
        BY <4>1, <4>2 DEF LineFits
      <4>4. i \in Nat
        BY <2>1 DEF ClientTypes
      <4> QED BY <4>1, <4>2, <4>3, <4>4
    <3>4. \A k \in Jobs : InWait(k)' => InWait(k) /\ k # j
      BY <2>1, <3>1 DEF InWait, LineFits
    <3>5. answers[j] = <<>> /\ j # active /\ pc[j] = "accepted"
      BY <2>1 DEF LineFits, InWait
    <3>6. /\ \A k \in Jobs : k # j => answers'[k] = answers[k]
          /\ Len(answers'[j]) <= 1
      BY <2>1, <3>5, AnswerFacts DEF Answers
    <3> QED BY <2>0, <2>1, <3>2, <3>3, <3>4, <3>5, <3>6 DEF LineFits, AnsweredOnce
  <2>2. CASE active = j /\ FailActive("cancelled", TRUE)
    BY <2>0, <2>2, AdvanceFits, JobsAssumption DEF FailActive, Answers
  <2>3. CASE UNCHANGED jobVars
    BY <2>0, <2>3 DEF LineFits, InWait, AnsweredOnce
  <2> QED BY <1>5, <2>1, <2>2, <2>3 DEF Cancel
<1>6. ASSUME Fetch
      PROVE  LineFits'
  BY <1>6 DEF Fetch, LineFits, InWait, AnsweredOnce
<1>7. ASSUME DispatchAnswer
      PROVE  LineFits'
  <2>1. active # NoJob /\ fetched[1] \in Answers
    BY <1>7, JobsAssumption DEF DispatchAnswer, ClientTypes, Event, NoEvent, Answers
  <2> QED BY <1>7, <2>1, AdvanceFits DEF DispatchAnswer
<1>8. ASSUME DispatchStrands
      PROVE  LineFits'
  <2>1. active \in Jobs /\ fetched[1] \in Answers
    BY <1>8, JobsAssumption DEF DispatchStrands, ClientTypes, Event, NoEvent, Answers
  <2>2. wait' = NextWait
    BY <1>8 DEF DispatchStrands, NextWait
  <2>3. /\ \A i \in DOMAIN wait' : wait'[i] # NoJob /\ wait'[i] # active
        /\ \A i, k \in DOMAIN wait' : wait'[i] = wait'[k] => i = k
        /\ \A k \in Jobs : InWait(k)' => InWait(k) /\ k # active
    BY <2>2, NextWaitFits
  <2>4. /\ \A k \in Jobs : k # active => answers'[k] = answers[k]
        /\ Len(answers'[active]) <= 1 /\ pc[active] = "accepted"
    BY <1>8, <2>1, AnswerFacts DEF DispatchStrands, LineFits
  <2> QED BY <1>8, <2>3, <2>4, JobsAssumption DEF DispatchStrands, LineFits, AnsweredOnce
<1>9. ASSUME DispatchStale
      PROVE  LineFits'
  BY <1>9 DEF DispatchStale, LineFits, InWait, AnsweredOnce
<1>10. ASSUME ReaderFindsCrash
      PROVE  LineFits'
  BY <1>10, AdvanceFits DEF ReaderFindsCrash, FailActive, Answers
<1>11. ASSUME ReaderLoops \/ Handshake \/ WatchdogExits \/ Toggle
      PROVE  LineFits'
  BY <1>11 DEF ReaderLoops, Handshake, WatchdogExits, Toggle, LineFits, InWait, AnsweredOnce
<1>12. ASSUME WatchdogTimeout
      PROVE  LineFits'
  BY <1>12, AdvanceFits DEF WatchdogTimeout, FailActive, Answers
<1>13. ASSUME Release
      PROVE  LineFits'
  BY <1>13 DEF Release, LineFits, InWait, AnsweredOnce
<1>14. ASSUME Shutdown
      PROVE  LineFits'
  <2>1. active' = NoJob /\ DOMAIN wait' = {} /\ UNCHANGED pc
    <3>1. DOMAIN <<>> = {}
      OBVIOUS
    <3> QED BY <1>14, <3>1 DEF Shutdown
  <2>2. ASSUME NEW k \in Jobs
        PROVE  Len(answers'[k]) <= 1 /\ (pc[k] # "accepted" => answers'[k] = <<>>)
    <3>1. CASE k = active \/ Contains(wait, k)
      <4>1. InWait(k) \/ k = active
        BY <3>1 DEF Contains, InWait
      <4>2. answers[k] = <<>> /\ pc[k] = "accepted"
        BY <4>1 DEF LineFits
      <4>3. answers'[k] = Append(<<>>, "cancelled")
        BY <1>14, <3>1, <4>2 DEF Shutdown
      <4> QED BY <4>2, <4>3
    <3>2. CASE ~(k = active \/ Contains(wait, k))
      BY <1>14, <3>2 DEF Shutdown, LineFits, AnsweredOnce
    <3> QED BY <3>1, <3>2
  <2> QED BY <2>1, <2>2, JobsAssumption DEF LineFits, InWait, AnsweredOnce
<1>15. ASSUME NEW w \in Workers, TakeStart(w)
      PROVE  LineFits'
  BY <1>15 DEF TakeStart, RestUnchanged, LineFits, InWait, AnsweredOnce
<1>16. ASSUME NEW w \in Workers, TakeCancel(w)
      PROVE  LineFits'
  BY <1>16 DEF TakeCancel, RestUnchanged, LineFits, InWait, AnsweredOnce
<1>17. ASSUME NEW w \in Workers, TakeShutdown(w)
      PROVE  LineFits'
  BY <1>17 DEF TakeShutdown, RestUnchanged, LineFits, InWait, AnsweredOnce
<1>18. ASSUME NEW w \in Workers, WorkerIdle(w)
      PROVE  LineFits'
  BY <1>18 DEF WorkerIdle, RestUnchanged, LineFits, InWait, AnsweredOnce
<1>19. ASSUME NEW w \in Workers, FlushTerminal(w)
      PROVE  LineFits'
  BY <1>19 DEF FlushTerminal, RestUnchanged, LineFits, InWait, AnsweredOnce
<1>20. ASSUME NEW w \in Workers, NEW kind \in {"result", "error", "cancelled"}, JobEnds(w, kind)
      PROVE  LineFits'
  BY <1>20 DEF JobEnds, RestUnchanged, LineFits, InWait, AnsweredOnce
<1>21. ASSUME NEW w \in Workers, Crash(w)
      PROVE  LineFits'
  BY <1>21 DEF Crash, LineFits, InWait, AnsweredOnce
<1>22. ASSUME NEW w \in Workers, Freeze(w)
      PROVE  LineFits'
  BY <1>22 DEF Freeze, LineFits, InWait, AnsweredOnce
<1>23. ASSUME UNCHANGED vars
      PROVE  LineFits'
  BY <1>23 DEF vars, LineFits, InWait, AnsweredOnce
<1> QED BY <1>1, <1>2, <1>3, <1>4, <1>5, <1>6, <1>7, <1>8, <1>9, <1>10, <1>11, <1>12, <1>13,
      <1>14, <1>15, <1>16, <1>17, <1>18, <1>19, <1>20, <1>21, <1>22, <1>23
        DEF Next, CallStep, Reader, WorkerStep

-----------------------------------------------------------------------------
(* What went wrong, was asked for or was done stays so.                       *)
Grows ==
    /\ happened \subseteq happened' /\ asked \subseteq asked' /\ completed \subseteq completed'
    /\ shutdownDone => shutdownDone'

(* So does every step.                                                        *)
LEMMA StepGrows ==
    ASSUME [Next]_vars
    PROVE  Grows
<1> USE DEF jobVars, procVars, readerVars, workVars, callVars, envVars
<1>1. ASSUME NEW j \in Jobs, EnsureStarted(j)
      PROVE  Grows
  BY <1>1 DEF EnsureStarted, Kill, Dies, Respawn, FailActive, Grows
<1>2. ASSUME NEW j \in Jobs, StartupReady(j) \/ StartupExpires(j)
      PROVE  Grows
  BY <1>2 DEF StartupReady, StartupExpires, Mishap, Grows
<1>3. ASSUME NEW j \in Jobs, StartupKills(j)
      PROVE  Grows
  BY <1>3 DEF StartupKills, Kill, Dies, Respawn, FailActive, Grows
<1>4. ASSUME NEW j \in Jobs, Submit(j)
      PROVE  Grows
  BY <1>4 DEF Submit, Kill, Dies, Respawn, FailActive, Grows
<1>5. ASSUME NEW j \in Jobs, Cancel(j)
      PROVE  Grows
  BY <1>5 DEF Cancel, Kill, Dies, Respawn, FailActive, Grows
<1>6. ASSUME Fetch
      PROVE  Grows
  BY <1>6 DEF Fetch, Kill, Dies, Respawn, FailActive, Grows
<1>7. ASSUME DispatchAnswer
      PROVE  Grows
  BY <1>7 DEF DispatchAnswer, Kill, Dies, Respawn, FailActive, Grows
<1>8. ASSUME DispatchStrands
      PROVE  Grows
  BY <1>8 DEF DispatchStrands, Kill, Dies, Respawn, FailActive, Grows
<1>9. ASSUME DispatchStale
      PROVE  Grows
  BY <1>9 DEF DispatchStale, Kill, Dies, Respawn, FailActive, Grows
<1>10. ASSUME ReaderFindsCrash
      PROVE  Grows
  BY <1>10 DEF ReaderFindsCrash, Kill, Dies, Respawn, FailActive, Grows
<1>11. ASSUME ReaderLoops \/ Handshake \/ WatchdogExits \/ Toggle
      PROVE  Grows
  BY <1>11 DEF ReaderLoops, Handshake, WatchdogExits, Toggle, Mishap, Grows
<1>12. ASSUME WatchdogTimeout
      PROVE  Grows
  BY <1>12 DEF WatchdogTimeout, Mishap, Kill, Dies, Respawn, FailActive, Grows
<1>13. ASSUME Release
      PROVE  Grows
  BY <1>13 DEF Release, Mishap, Kill, Dies, Respawn, FailActive, Grows
<1>14. ASSUME Shutdown
      PROVE  Grows
  BY <1>14 DEF Shutdown, Kill, Dies, Respawn, FailActive, Grows
<1>15. ASSUME NEW w \in Workers, TakeStart(w)
      PROVE  Grows
  BY <1>15 DEF TakeStart, Dies, RestUnchanged, Grows
<1>16. ASSUME NEW w \in Workers, TakeCancel(w)
      PROVE  Grows
  BY <1>16 DEF TakeCancel, Dies, RestUnchanged, Grows
<1>17. ASSUME NEW w \in Workers, TakeShutdown(w)
      PROVE  Grows
  BY <1>17 DEF TakeShutdown, Dies, RestUnchanged, Grows
<1>18. ASSUME NEW w \in Workers, WorkerIdle(w)
      PROVE  Grows
  BY <1>18 DEF WorkerIdle, Dies, RestUnchanged, Grows
<1>19. ASSUME NEW w \in Workers, FlushTerminal(w)
      PROVE  Grows
  BY <1>19 DEF FlushTerminal, Dies, RestUnchanged, Grows
<1>20. ASSUME NEW w \in Workers, NEW kind \in {"result", "error", "cancelled"}, JobEnds(w, kind)
      PROVE  Grows
  BY <1>20 DEF JobEnds, Dies, RestUnchanged, Grows
<1>21. ASSUME NEW w \in Workers, Crash(w)
      PROVE  Grows
  BY <1>21 DEF Crash, Mishap, Kill, Dies, Respawn, FailActive, Grows
<1>22. ASSUME NEW w \in Workers, Freeze(w)
      PROVE  Grows
  BY <1>22 DEF Freeze, Mishap, Kill, Dies, Respawn, FailActive, Grows
<1>23. ASSUME UNCHANGED vars
      PROVE  Grows
  BY <1>23 DEF vars, Grows
<1> QED BY <1>1, <1>2, <1>3, <1>4, <1>5, <1>6, <1>7, <1>8, <1>9, <1>10, <1>11, <1>12, <1>13,
      <1>14, <1>15, <1>16, <1>17, <1>18, <1>19, <1>20, <1>21, <1>22, <1>23
        DEF Next, CallStep, Reader, WorkerStep

(* What a step does to a command queue: nothing, or it empties it, or reads   *)
(* its first command, or puts one at its end.  The one it puts starts the new *)
(* active job on an idle or a new worker, or cancels one, or ends a worker    *)
(* that is not the client's.                                                  *)
NewStart(v, c) ==
    /\ c = <<"start", active'>> /\ v = queues'
    /\ active' \in Jobs /\ active' # active
    /\ InWait(active') \/ (pc[active'] = "submitting" /\ active = NoJob)
    /\ active = NoJob \/ Over(active) \/ life[v] = "dead"
NewCommand(v, c) ==
    \/ NewStart(v, c)
    \/ c[1] = "cancel" /\ c[2] \in asked'
    \/ c[1] = "shutdown" /\ process = NoWorker /\ IsAlive(queues)
Emptied(v) == DOMAIN inbox'[v] = {} /\ running'[v] = NoJob
HeadRead(v) ==
    /\ inbox[v][1][1] # "shutdown"
    /\ \E n \in Nat : /\ DOMAIN inbox[v] = 1..(n + 1) /\ DOMAIN inbox'[v] = 1..n
                      /\ \A i \in 1..n : inbox'[v][i] = inbox[v][i + 1]
Grown(v) ==
    \E n \in Nat : /\ DOMAIN inbox[v] = 1..n /\ DOMAIN inbox'[v] = 1..(n + 1)
                   /\ \A i \in 1..n : inbox'[v][i] = inbox[v][i]
                   /\ NewCommand(v, inbox'[v][n + 1])
QueueStep == \A v \in Workers : inbox'[v] = inbox[v] \/ Emptied(v) \/ HeadRead(v) \/ Grown(v)

(* What the end of a worker does to the queues.                               *)
LEMMA DiesQueues ==
    ASSUME ClientTypes, NEW w \in Workers \cup {NoWorker}, Dies(w)
    PROVE  QueueStep
  BY DiesFacts DEF QueueStep, Emptied

(* What a command does to them.                                               *)
LEMMA PutQueues ==
    ASSUME ClientTypes, NEW c \in Command, Put(c), NewCommand(queues, c)
    PROVE  QueueStep
<1> SUFFICES ASSUME NEW v \in Workers, inbox'[v] # inbox[v]
             PROVE  Grown(v)
  BY DEF QueueStep
<1>1. v = queues /\ life[v] # "dead"
  BY PutFacts
<1>2. /\ DOMAIN inbox'[v] = 1..(Len(inbox[v]) + 1) /\ DOMAIN inbox[v] = 1..Len(inbox[v])
      /\ Len(inbox[v]) \in Nat
      /\ \A i \in 1..Len(inbox[v]) : inbox'[v][i] = inbox[v][i]
      /\ inbox'[v][Len(inbox[v]) + 1] = c
  BY <1>1, PutFacts
<1> QED BY <1>1, <1>2 DEF Grown

(* What reading a command does to a queue.                                    *)
LEMMA ReadsHead ==
    ASSUME ClientTypes, NEW w \in Workers, NEW kind \in {"start", "cancel"}, Reads(w, kind),
           inbox' = [inbox EXCEPT ![w] = Tail(@)]
    PROVE  HeadRead(w)
<1>1. inbox[w][1][1] = kind
  BY ReadFacts
<1>2. inbox[w] \in Seq(Command) /\ inbox[w] # <<>> /\ inbox'[w] = Tail(inbox[w])
  BY DEF Reads, ClientTypes, WorkTypes
<1>3. PICK n \in Nat : Len(inbox[w]) = n + 1
  <2>1. Len(inbox[w]) \in Nat /\ Len(inbox[w]) # 0
    BY <1>2
  <2>2. Len(inbox[w]) - 1 \in Nat /\ Len(inbox[w]) = (Len(inbox[w]) - 1) + 1
    BY <2>1
  <2> QED BY <2>2
<1>4. /\ DOMAIN inbox[w] = 1..(n + 1) /\ DOMAIN Tail(inbox[w]) = 1..n
      /\ \A i \in 1..n : Tail(inbox[w])[i] = inbox[w][i + 1]
  BY <1>2, <1>3
<1> QED BY <1>1, <1>2, <1>4 DEF HeadRead

(* What it does to all of them.                                               *)
LEMMA ReadQueues ==
    ASSUME ClientTypes, NEW w \in Workers, NEW kind \in {"start", "cancel"}, Reads(w, kind),
           inbox' = [inbox EXCEPT ![w] = Tail(@)]
    PROVE  QueueStep
<1>1. HeadRead(w)
  BY ReadsHead
<1>2. \A v \in Workers : v # w => inbox'[v] = inbox[v]
  BY ReadFacts
<1> QED BY <1>1, <1>2 DEF QueueStep

(* The job at the head of the line is the one that is started next.           *)
LEMMA NextStarts ==
    ASSUME ClientTypes, LineFits, wait # <<>>
    PROVE  /\ NextActive = wait[1] /\ NextActive \in Jobs /\ NextActive # active
           /\ InWait(NextActive)
<1>1. NextActive = wait[1] /\ NextActive \in Jobs /\ 1 \in DOMAIN wait
  BY NextFacts DEF ClientTypes
<1> QED BY <1>1 DEF InWait, LineFits

(* What a respawn does to the queues.                                         *)
LEMMA RespawnQueues ==
    ASSUME ClientTypes, WorkersFit, LineFits, NEW held \in BOOLEAN,
           Respawn(<<>>, held) \/ (Respawn(StartNext, held) /\ active' = NextActive)
    PROVE  QueueStep
<1> SUFFICES ASSUME NEW v \in Workers, inbox'[v] # inbox[v], ~ Emptied(v)
             PROVE  Grown(v)
  BY DEF QueueStep
<1>1. v = Fresh /\ queues' = v /\ life[v] = "dead" /\ inbox'[v] \in {<<>>, StartNext}
  <2>1. PICK first \in {<<>>, StartNext} : Respawn(first, held)
    OBVIOUS
  <2>2. v # process
    BY <2>1, RespawnFacts DEF Emptied
  <2>3. /\ inbox'[v] = IF v = Fresh THEN first ELSE inbox[v]
        /\ queues' = Fresh /\ life[Fresh] = "dead"
    BY <2>1, <2>2, RespawnFacts
  <2>4. v = Fresh
    BY <2>3
  <2> QED BY <2>1, <2>3, <2>4
<1>2. inbox[v] = <<>>
  BY <1>1 DEF WorkersFit
<1>3. wait # <<>> /\ inbox'[v] = StartNext /\ active' = NextActive
  <2>1. inbox'[v] # <<>>
    BY <1>2
  <2>2. StartNext # <<>>
    BY <1>1, <2>1
  <2>3. ~ Respawn(<<>>, held)
    BY <1>1, <2>1, RespawnFacts
  <2> QED BY <1>1, <2>1, <2>2, <2>3 DEF StartNext
<1>4. DOMAIN StartNext = 1..1 /\ StartNext[1] = <<"start", wait[1]>>
  <2>1. Len(StartNext) = 1 /\ StartNext \in Seq(Command) /\ StartNext[1] = <<"start", wait[1]>>
    BY <1>3, NextFacts DEF ClientTypes
  <2> QED BY <2>1
<1>5. NewStart(v, <<"start", wait[1]>>)
  BY <1>1, <1>3, NextStarts DEF NewStart
<1>6. DOMAIN inbox[v] = 1..0 /\ DOMAIN inbox'[v] = 1..(0 + 1)
  BY <1>2, <1>3, <1>4
<1> QED BY <1>3, <1>4, <1>5, <1>6 DEF Grown, NewCommand

(* Every step does that to every queue.                                       *)
LEMMA StepQueues ==
    ASSUME ClientTypes, WorkersFit, LineFits, [Next]_vars
    PROVE  QueueStep
<1> USE DEF jobVars, procVars, readerVars, workVars, callVars, envVars
<1>1. ASSUME NEW j \in Jobs, EnsureStarted(j)
      PROVE  QueueStep
  <2>1. CASE Respawn(<<>>, TRUE)
    BY <2>1, RespawnQueues
  <2>2. CASE UNCHANGED inbox
    BY <2>2 DEF QueueStep
  <2> QED BY <1>1, <2>1, <2>2 DEF EnsureStarted
<1>2. ASSUME NEW j \in Jobs, StartupReady(j) \/ StartupExpires(j)
      PROVE  QueueStep
  BY <1>2 DEF StartupReady, StartupExpires, QueueStep
<1>3. ASSUME NEW j \in Jobs, StartupKills(j)
      PROVE  QueueStep
  BY <1>3, DiesQueues DEF StartupKills, Kill, ClientTypes
<1>4. ASSUME NEW j \in Jobs, Submit(j)
      PROVE  QueueStep
  <2>1. CASE active = NoJob /\ active' = j /\ Put(<<"start", j>>)
    <3>1. <<"start", j>> \in Command
      BY DEF Command
    <3>2. NewCommand(queues, <<"start", j>>)
      BY <1>4, <2>1, JobsAssumption DEF Submit, NewStart, NewCommand
    <3> QED BY <2>1, <3>1, <3>2, PutQueues
  <2>2. CASE UNCHANGED inbox
    BY <2>2 DEF QueueStep
  <2> QED BY <1>4, <2>1, <2>2 DEF Submit
<1>5. ASSUME NEW j \in Jobs, Cancel(j)
      PROVE  QueueStep
  <2>1. CASE active = j /\ FailActive("cancelled", TRUE)
    BY <2>1, RespawnQueues DEF FailActive
  <2>2. CASE Put(<<"cancel", j>>)
    <3>1. <<"cancel", j>> \in Command /\ NewCommand(queues, <<"cancel", j>>)
      BY <1>5 DEF Command, Cancel, NewCommand
    <3> QED BY <2>2, <3>1, PutQueues
  <2>3. CASE UNCHANGED inbox
    BY <2>3 DEF QueueStep
  <2> QED BY <1>5, <2>1, <2>2, <2>3 DEF Cancel
<1>6. ASSUME Fetch
      PROVE  QueueStep
  BY <1>6 DEF Fetch, QueueStep
<1>7. ASSUME DispatchAnswer
      PROVE  QueueStep
  <2>1. CASE wait = <<>>
    BY <1>7, <2>1, DispatchPuts DEF QueueStep
  <2>2. CASE wait # <<>>
    <3>1. Put(<<"start", wait[1]>>) /\ <<"start", wait[1]>> \in Command
      BY <1>7, <2>2, DispatchPuts
    <3>2. NewStart(queues, <<"start", wait[1]>>)
      BY <1>7, <2>2, NextStarts DEF DispatchAnswer, NewStart, Over
    <3> QED BY <3>1, <3>2, PutQueues DEF NewCommand
  <2> QED BY <2>1, <2>2
<1>8. ASSUME DispatchStrands
      PROVE  QueueStep
  BY <1>8, DiesQueues DEF DispatchStrands, ClientTypes
<1>9. ASSUME DispatchStale
      PROVE  QueueStep
  BY <1>9 DEF DispatchStale, QueueStep
<1>10. ASSUME ReaderFindsCrash
      PROVE  QueueStep
  BY <1>10, RespawnQueues DEF ReaderFindsCrash, FailActive
<1>11. ASSUME ReaderLoops \/ Handshake \/ WatchdogExits \/ Toggle
      PROVE  QueueStep
  BY <1>11 DEF ReaderLoops, Handshake, WatchdogExits, Toggle, QueueStep
<1>12. ASSUME WatchdogTimeout
      PROVE  QueueStep
  BY <1>12, RespawnQueues DEF WatchdogTimeout, FailActive
<1>13. ASSUME Release
      PROVE  QueueStep
  BY <1>13, DiesQueues DEF Release, Kill, ClientTypes
<1>14. ASSUME Shutdown
      PROVE  QueueStep
  <2>1. CASE process # NoWorker
    BY <1>14, <2>1, DiesQueues DEF Shutdown, ClientTypes
  <2>2. CASE process = NoWorker
    <3>1. Put(<<"shutdown", NoJob>>)
      BY <1>14, <2>2 DEF Shutdown
    <3>2. <<"shutdown", NoJob>> \in Command
      BY DEF Command
    <3>3. CASE IsAlive(queues)
      <4>1. NewCommand(queues, <<"shutdown", NoJob>>)
        BY <2>2, <3>3 DEF NewCommand
      <4> QED BY <3>1, <3>2, <4>1, PutQueues
    <3>4. CASE ~ IsAlive(queues)
      BY <3>1, <3>4 DEF Put, QueueStep
    <3> QED BY <3>3, <3>4
  <2> QED BY <2>1, <2>2
<1>15. ASSUME NEW w \in Workers, TakeStart(w)
      PROVE  QueueStep
  <2>1. Reads(w, "start") /\ inbox' = [inbox EXCEPT ![w] = Tail(@)]
    BY <1>15 DEF TakeStart
  <2> QED BY <2>1, ReadQueues
<1>16. ASSUME NEW w \in Workers, TakeCancel(w)
      PROVE  QueueStep
  <2>1. Reads(w, "cancel") /\ inbox' = [inbox EXCEPT ![w] = Tail(@)]
    BY <1>16 DEF TakeCancel
  <2> QED BY <2>1, ReadQueues
<1>17. ASSUME NEW w \in Workers, TakeShutdown(w)
      PROVE  QueueStep
  BY <1>17, DiesQueues DEF TakeShutdown
<1>18. ASSUME NEW w \in Workers, WorkerIdle(w)
      PROVE  QueueStep
  BY <1>18 DEF WorkerIdle, QueueStep
<1>19. ASSUME NEW w \in Workers, FlushTerminal(w)
      PROVE  QueueStep
  BY <1>19 DEF FlushTerminal, QueueStep
<1>20. ASSUME NEW w \in Workers, NEW kind \in {"result", "error", "cancelled"}, JobEnds(w, kind)
      PROVE  QueueStep
  BY <1>20 DEF JobEnds, QueueStep
<1>21. ASSUME NEW w \in Workers, Crash(w)
      PROVE  QueueStep
  BY <1>21, DiesQueues DEF Crash
<1>22. ASSUME NEW w \in Workers, Freeze(w)
      PROVE  QueueStep
  BY <1>22 DEF Freeze, QueueStep
<1>23. ASSUME UNCHANGED vars
      PROVE  QueueStep
  BY <1>23 DEF vars, QueueStep
<1> QED BY <1>1, <1>2, <1>3, <1>4, <1>5, <1>6, <1>7, <1>8, <1>9, <1>10, <1>11, <1>12, <1>13,
      <1>14, <1>15, <1>16, <1>17, <1>18, <1>19, <1>20, <1>21, <1>22, <1>23
        DEF Next, CallStep, Reader, WorkerStep

(* So a command in a queue was there, or is new.                              *)
LEMMA StepCommands ==
    ASSUME ClientTypes, WorkersFit, LineFits, [Next]_vars,
           NEW v \in Workers, NEW i \in DOMAIN inbox'[v]
    PROVE  \/ \E k \in DOMAIN inbox[v] : inbox[v][k] = inbox'[v][i]
           \/ NewCommand(v, inbox'[v][i])
<1>1. CASE inbox'[v] = inbox[v] \/ Emptied(v)
  BY <1>1 DEF Emptied
<1>2. CASE HeadRead(v)
  <2>1. PICK n \in Nat : /\ DOMAIN inbox[v] = 1..(n + 1) /\ DOMAIN inbox'[v] = 1..n
                         /\ \A k \in 1..n : inbox'[v][k] = inbox[v][k + 1]
    BY <1>2 DEF HeadRead
  <2>2. i + 1 \in DOMAIN inbox[v] /\ inbox'[v][i] = inbox[v][i + 1]
    BY <2>1
  <2> QED BY <2>2
<1>3. CASE Grown(v)
  <2>1. PICK n \in Nat : /\ DOMAIN inbox[v] = 1..n /\ DOMAIN inbox'[v] = 1..(n + 1)
                         /\ \A k \in 1..n : inbox'[v][k] = inbox[v][k]
                         /\ NewCommand(v, inbox'[v][n + 1])
    BY <1>3 DEF Grown
  <2>2. i \in 1..n \/ i = n + 1
    BY <2>1
  <2> QED BY <2>1, <2>2
<1> QED BY <1>1, <1>2, <1>3, StepQueues DEF QueueStep

(* No step that is no crash tells a worker to end.                            *)
LEMMA NoneEndsKept ==
    ASSUME ClientTypes, WorkersFit, OneAlive, NoneEnds, LineFits, [Next]_vars
    PROVE  NoneEnds'
<1> SUFFICES ASSUME "crash" \notin happened', NEW v \in Workers, NEW i \in DOMAIN inbox'[v]
             PROVE  inbox'[v][i][1] # "shutdown"
  BY DEF NoneEnds
<1>1. "crash" \notin happened
  BY StepGrows DEF Grows
<1>2. ~ (process = NoWorker /\ IsAlive(queues))
  BY <1>1 DEF OneAlive, IsAlive, ClientTypes
<1> QED BY <1>1, <1>2, StepCommands DEF NewCommand, NewStart, NoneEnds

-----------------------------------------------------------------------------
(* Commands, flags and events are true.                                       *)
FlagsFit == \A w \in Workers : flag[w] /\ running[w] # NoJob => running[w] \in asked

(* Every step leaves a flag to the job somebody cancelled.                    *)
LEMMA FlagsFitKept ==
    ASSUME ClientTypes, AskedFit, [Next]_vars
    PROVE  FlagsFit'
<1> USE DEF jobVars, procVars, readerVars, workVars, callVars, envVars
<1>1. ASSUME NEW j \in Jobs, EnsureStarted(j)
      PROVE  FlagsFit'
  <2>1. CASE Respawn(<<>>, TRUE)
    BY <1>1, <2>1, RespawnFacts DEF FlagsFit, AskedFit, EnsureStarted
  <2>2. CASE UNCHANGED workVars
    BY <1>1, <2>2 DEF FlagsFit, AskedFit, EnsureStarted
  <2> QED BY <1>1, <2>1, <2>2 DEF EnsureStarted
<1>2. ASSUME NEW j \in Jobs, StartupReady(j) \/ StartupExpires(j)
      PROVE  FlagsFit'
  BY <1>2 DEF StartupReady, StartupExpires, FlagsFit, AskedFit
<1>3. ASSUME NEW j \in Jobs, StartupKills(j)
      PROVE  FlagsFit'
  BY <1>3, DiesFacts DEF StartupKills, Kill, ClientTypes, FlagsFit, AskedFit
<1>4. ASSUME NEW j \in Jobs, Submit(j)
      PROVE  FlagsFit'
  BY <1>4 DEF Submit, FlagsFit, AskedFit
<1>5. ASSUME NEW j \in Jobs, Cancel(j)
      PROVE  FlagsFit'
  <2>1. CASE FailActive("cancelled", TRUE)
    BY <1>5, <2>1, RespawnFacts, StepGrows DEF FlagsFit, AskedFit, Cancel, FailActive, Grows
  <2>2. CASE UNCHANGED <<flag, running>>
    BY <1>5, <2>2, StepGrows DEF FlagsFit, AskedFit, Grows
  <2> QED BY <1>5, <2>1, <2>2 DEF Cancel
<1>6. ASSUME Fetch
      PROVE  FlagsFit'
  BY <1>6 DEF Fetch, FlagsFit, AskedFit
<1>7. ASSUME DispatchAnswer
      PROVE  FlagsFit'
  BY <1>7 DEF DispatchAnswer, FlagsFit, AskedFit
<1>8. ASSUME DispatchStrands
      PROVE  FlagsFit'
  BY <1>8, DiesFacts DEF DispatchStrands, ClientTypes, FlagsFit, AskedFit
<1>9. ASSUME DispatchStale
      PROVE  FlagsFit'
  BY <1>9 DEF DispatchStale, FlagsFit, AskedFit
<1>10. ASSUME ReaderFindsCrash
      PROVE  FlagsFit'
  BY <1>10, RespawnFacts DEF ReaderFindsCrash, FailActive, FlagsFit, AskedFit
<1>11. ASSUME ReaderLoops \/ Handshake \/ WatchdogExits \/ Toggle
      PROVE  FlagsFit'
  BY <1>11 DEF ReaderLoops, Handshake, WatchdogExits, Toggle, FlagsFit, AskedFit
<1>12. ASSUME WatchdogTimeout
      PROVE  FlagsFit'
  BY <1>12, RespawnFacts DEF WatchdogTimeout, FailActive, FlagsFit, AskedFit
<1>13. ASSUME Release
      PROVE  FlagsFit'
  BY <1>13, DiesFacts DEF Release, Kill, ClientTypes, FlagsFit, AskedFit
<1>14. ASSUME Shutdown
      PROVE  FlagsFit'
  <2>1. CASE process # NoWorker
    BY <1>14, <2>1, DiesFacts DEF Shutdown, ClientTypes, FlagsFit, AskedFit
  <2>2. CASE process = NoWorker
    BY <1>14, <2>2 DEF Shutdown, FlagsFit, AskedFit
  <2> QED BY <2>1, <2>2
<1>15. ASSUME NEW w \in Workers, TakeStart(w)
      PROVE  FlagsFit'
  <2>1. UNCHANGED asked /\ \A v \in Workers : v # w => flag'[v] = flag[v] /\ running'[v] = running[v]
    BY <1>15 DEF TakeStart, RestUnchanged, ClientTypes, WorkTypes
  <2>2. flag'[w] = FALSE \/ (flag'[w] = flag[w] /\ running'[w] = running[w])
    BY <1>15 DEF TakeStart, ClientTypes, WorkTypes
  <2> QED BY <2>1, <2>2 DEF FlagsFit, AskedFit
<1>16. ASSUME NEW w \in Workers, TakeCancel(w)
      PROVE  FlagsFit'
  <2>1. Reads(w, "cancel") /\ inbox' = [inbox EXCEPT ![w] = Tail(@)]
        /\ UNCHANGED <<asked, running>>
    BY <1>16 DEF TakeCancel, RestUnchanged
  <2>2. Head(inbox[w])[2] \in asked
    <3>1. 1 \in DOMAIN inbox[w] /\ inbox[w][1][1] = "cancel" /\ Head(inbox[w]) = inbox[w][1]
      BY <2>1, ReadFacts
    <3> QED BY <3>1 DEF AskedFit
  <2>3. \A v \in Workers : v # w => flag'[v] = flag[v]
    BY <1>16 DEF TakeCancel, ClientTypes, WorkTypes
  <2>4. flag'[w] => flag[w] \/ running[w] = Head(inbox[w])[2]
    BY <1>16 DEF TakeCancel, ClientTypes, WorkTypes
  <2> QED BY <2>1, <2>2, <2>3, <2>4 DEF FlagsFit, AskedFit
<1>17. ASSUME NEW w \in Workers, TakeShutdown(w)
      PROVE  FlagsFit'
  BY <1>17, DiesFacts DEF TakeShutdown, RestUnchanged, FlagsFit, AskedFit
<1>18. ASSUME NEW w \in Workers, WorkerIdle(w)
      PROVE  FlagsFit'
  BY <1>18 DEF WorkerIdle, RestUnchanged, ClientTypes, WorkTypes, FlagsFit, AskedFit
<1>19. ASSUME NEW w \in Workers, FlushTerminal(w)
      PROVE  FlagsFit'
  BY <1>19 DEF FlushTerminal, RestUnchanged, FlagsFit, AskedFit
<1>20. ASSUME NEW w \in Workers, NEW kind \in {"result", "error", "cancelled"}, JobEnds(w, kind)
      PROVE  FlagsFit'
  BY <1>20 DEF JobEnds, RestUnchanged, FlagsFit, AskedFit
<1>21. ASSUME NEW w \in Workers, Crash(w)
      PROVE  FlagsFit'
  BY <1>21, DiesFacts DEF Crash, FlagsFit, AskedFit
<1>22. ASSUME NEW w \in Workers, Freeze(w)
      PROVE  FlagsFit'
  BY <1>22 DEF Freeze, FlagsFit, AskedFit
<1>23. ASSUME UNCHANGED vars
      PROVE  FlagsFit'
  BY <1>23 DEF vars, FlagsFit, AskedFit
<1> QED BY <1>1, <1>2, <1>3, <1>4, <1>5, <1>6, <1>7, <1>8, <1>9, <1>10, <1>11, <1>12, <1>13,
      <1>14, <1>15, <1>16, <1>17, <1>18, <1>19, <1>20, <1>21, <1>22, <1>23
        DEF Next, CallStep, Reader, WorkerStep

(* Cancel commands and flags are for jobs somebody called cancel() on.        *)
LEMMA AskedFitKept ==
    ASSUME ClientTypes, WorkersFit, AskedFit, LineFits, [Next]_vars
    PROVE  AskedFit'
<1>1. FlagsFit'
  BY FlagsFitKept
<1>2. ASSUME NEW v \in Workers, NEW i \in DOMAIN inbox'[v], inbox'[v][i][1] = "cancel"
      PROVE  inbox'[v][i][2] \in asked'
  BY <1>2, StepCommands, StepGrows DEF NewCommand, NewStart, AskedFit, Grows
<1> QED BY <1>1, <1>2 DEF AskedFit, FlagsFit

(* The end of a worker adds no event.                                         *)
LEMMA DiesEvents ==
    ASSUME ClientTypes, EventsFit, NEW w \in Workers \cup {NoWorker}, Dies(w),
           fetched' \in {fetched, NoEvent}, asked \subseteq asked'
    PROVE  EventsFit'
<1>1. UNCHANGED <<outbox, completed>> /\ \A v \in Workers : ending'[v] \in {ending[v], NoEvent}
  BY DiesFacts
<1> QED BY <1>1 DEF EventsFit, TrueEvent, NoEvent

(* Neither does a respawn.                                                    *)
LEMMA RespawnEvents ==
    ASSUME ClientTypes, EventsFit, NEW first, NEW held \in BOOLEAN, Respawn(first, held),
           fetched' = fetched, asked \subseteq asked'
    PROVE  EventsFit'
<1>1. ASSUME NEW v \in Workers, NEW i \in DOMAIN outbox'[v]
      PROVE  outbox'[v] = outbox[v]
  <2>1. DOMAIN <<>> = {}
    OBVIOUS
  <2> QED BY <2>1, RespawnFacts
<1>2. ASSUME NEW v \in Workers
      PROVE  ending'[v] \in {ending[v], NoEvent}
  BY RespawnFacts
<1>3. completed' = completed
  BY DEF Respawn
<1> QED BY <1>1, <1>2, <1>3 DEF EventsFit, TrueEvent, NoEvent

(* A worker adds the event it held back, or an error.                         *)
LEMMA SendsEvent ==
    ASSUME ClientTypes, EventsFit, NEW w \in Workers, NEW e \in Event, TrueEvent(e),
           outbox' = [outbox EXCEPT ![w] = Append(@, e)],
           \A v \in Workers : ending'[v] \in {ending[v], NoEvent},
           UNCHANGED <<fetched, completed, asked>>
    PROVE  EventsFit'
<1>1. /\ \A v \in Workers : v # w => outbox'[v] = outbox[v]
      /\ outbox'[w] = Append(outbox[w], e) /\ outbox[w] \in Seq(Event)
  BY DEF ClientTypes, WorkTypes
<1>2. /\ DOMAIN outbox'[w] = 1..(Len(outbox[w]) + 1) /\ DOMAIN outbox[w] = 1..Len(outbox[w])
      /\ Len(outbox[w]) \in Nat /\ outbox'[w][Len(outbox[w]) + 1] = e
      /\ \A i \in 1..Len(outbox[w]) : outbox'[w][i] = outbox[w][i]
  BY <1>1, AppendFacts
<1>3. ASSUME NEW v \in Workers, NEW i \in DOMAIN outbox'[v]
      PROVE  TrueEvent(outbox'[v][i])
  <2>1. CASE v = w
    <3>1. i \in 1..Len(outbox[w]) \/ i = Len(outbox[w]) + 1
      BY <1>2, <2>1
    <3> QED BY <1>2, <2>1, <3>1 DEF EventsFit
  <2>2. CASE v # w
    BY <1>1, <2>2 DEF EventsFit
  <2> QED BY <2>1, <2>2
<1> QED BY <1>3 DEF EventsFit, TrueEvent, NoEvent

(* Every step leaves the events true.                                         *)
LEMMA EventsFitKept ==
    ASSUME ClientTypes, EventsFit, AskedFit, [Next]_vars
    PROVE  EventsFit'
<1> USE DEF jobVars, procVars, readerVars, workVars, callVars, envVars
<1>1. ASSUME NEW j \in Jobs, EnsureStarted(j)
      PROVE  EventsFit'
  <2>1. CASE Respawn(<<>>, TRUE)
    BY <1>1, <2>1, RespawnEvents DEF EnsureStarted
  <2>2. CASE UNCHANGED workVars
    BY <1>1, <2>2 DEF EventsFit, TrueEvent, EnsureStarted
  <2> QED BY <1>1, <2>1, <2>2 DEF EnsureStarted
<1>2. ASSUME NEW j \in Jobs, StartupReady(j) \/ StartupExpires(j)
      PROVE  EventsFit'
  BY <1>2 DEF StartupReady, StartupExpires, EventsFit, TrueEvent
<1>3. ASSUME NEW j \in Jobs, StartupKills(j)
      PROVE  EventsFit'
  BY <1>3, DiesEvents DEF StartupKills, Kill, ClientTypes
<1>4. ASSUME NEW j \in Jobs, Submit(j)
      PROVE  EventsFit'
  BY <1>4 DEF Submit, EventsFit, TrueEvent
<1>5. ASSUME NEW j \in Jobs, Cancel(j)
      PROVE  EventsFit'
  <2>1. CASE FailActive("cancelled", TRUE) /\ UNCHANGED fetched
    BY <2>1, RespawnEvents, StepGrows DEF FailActive, Grows
  <2>2. CASE UNCHANGED <<fetched, ending, outbox, completed>>
    BY <1>5, <2>2, StepGrows DEF EventsFit, TrueEvent, Grows
  <2> QED BY <1>5, <2>1, <2>2 DEF Cancel
<1>6. ASSUME Fetch
      PROVE  EventsFit'
  <2>1. reading \in Workers /\ outbox[reading] \in Seq(Event) /\ outbox[reading] # <<>>
        /\ fetched' = Head(outbox[reading]) /\ outbox' = [outbox EXCEPT ![reading] = Tail(@)]
        /\ UNCHANGED <<ending, completed, asked>>
    BY <1>6 DEF Fetch, ClientTypes, WorkTypes
  <2>2. /\ fetched' = outbox[reading][1] /\ 1 \in DOMAIN outbox[reading]
        /\ \A i \in DOMAIN Tail(outbox[reading]) : i + 1 \in DOMAIN outbox[reading]
                 /\ Tail(outbox[reading])[i] = outbox[reading][i + 1]
    BY <2>1, TailFacts
  <2>3. /\ outbox'[reading] = Tail(outbox[reading])
        /\ \A v \in Workers : v # reading => outbox'[v] = outbox[v]
    BY <2>1 DEF ClientTypes, WorkTypes
  <2>4. ASSUME NEW v \in Workers, NEW i \in DOMAIN outbox'[v]
        PROVE  TrueEvent(outbox'[v][i])
    BY <2>1, <2>2, <2>3 DEF EventsFit
  <2> QED BY <2>1, <2>2, <2>4 DEF EventsFit, TrueEvent
<1>7. ASSUME DispatchAnswer
      PROVE  EventsFit'
  BY <1>7 DEF DispatchAnswer, NoEvent, EventsFit, TrueEvent
<1>8. ASSUME DispatchStrands
      PROVE  EventsFit'
  <2>1. Dies(process) /\ fetched' = NoEvent /\ UNCHANGED asked
    BY <1>8 DEF DispatchStrands
  <2> QED BY <2>1, DiesEvents DEF ClientTypes
<1>9. ASSUME DispatchStale
      PROVE  EventsFit'
  BY <1>9 DEF DispatchStale, NoEvent, EventsFit, TrueEvent
<1>10. ASSUME ReaderFindsCrash
      PROVE  EventsFit'
  BY <1>10, RespawnEvents DEF ReaderFindsCrash, FailActive
<1>11. ASSUME ReaderLoops \/ Handshake \/ WatchdogExits \/ Toggle
      PROVE  EventsFit'
  BY <1>11 DEF ReaderLoops, Handshake, WatchdogExits, Toggle, EventsFit, TrueEvent
<1>12. ASSUME WatchdogTimeout
      PROVE  EventsFit'
  BY <1>12, RespawnEvents DEF WatchdogTimeout, FailActive
<1>13. ASSUME Release
      PROVE  EventsFit'
  BY <1>13, DiesEvents DEF Release, Kill, ClientTypes
<1>14. ASSUME Shutdown
      PROVE  EventsFit'
  <2>1. CASE process # NoWorker
    BY <1>14, <2>1, DiesEvents DEF Shutdown, ClientTypes
  <2>2. CASE process = NoWorker
    BY <1>14, <2>2 DEF Shutdown, EventsFit, TrueEvent
  <2> QED BY <2>1, <2>2
<1>15. ASSUME NEW w \in Workers, TakeStart(w)
      PROVE  EventsFit'
  <2>1. UNCHANGED <<fetched, ending, completed, asked>>
    BY <1>15 DEF TakeStart, RestUnchanged
  <2>2. outbox' = outbox \/ \E e : e[1] = "error" /\ outbox' = [outbox EXCEPT ![w] = Append(@, e)]
                                                  /\ Append(outbox[w], e) \in Seq(Event) /\ e \in Event
    <3>1. inbox[w] \in Seq(Command) /\ inbox[w] # <<>> /\ Head(inbox[w])[1] = "start"
      BY <1>15 DEF TakeStart, Reads, ClientTypes, WorkTypes
    <3>2. Head(inbox[w]) \in Command
      BY <3>1, TailFacts
    <3>3. <<"error", Head(inbox[w])[2]>> \in Event
      BY <3>1, <3>2 DEF Command, Event
    <3>4. Append(outbox[w], <<"error", Head(inbox[w])[2]>>) \in Seq(Event)
      BY <3>3, AppendFacts DEF ClientTypes, WorkTypes
    <3> QED BY <1>15, <3>3, <3>4 DEF TakeStart
  <2>3. CASE outbox' = outbox
    BY <2>1, <2>3 DEF EventsFit, TrueEvent
  <2>4. ASSUME NEW e \in Event, e[1] = "error", outbox' = [outbox EXCEPT ![w] = Append(@, e)]
        PROVE  EventsFit'
    BY <2>1, <2>4, SendsEvent DEF TrueEvent
  <2> QED BY <2>2, <2>3, <2>4
<1>16. ASSUME NEW w \in Workers, TakeCancel(w)
      PROVE  EventsFit'
  BY <1>16 DEF TakeCancel, RestUnchanged, EventsFit, TrueEvent
<1>17. ASSUME NEW w \in Workers, TakeShutdown(w)
      PROVE  EventsFit'
  BY <1>17, DiesEvents DEF TakeShutdown, RestUnchanged
<1>18. ASSUME NEW w \in Workers, WorkerIdle(w)
      PROVE  EventsFit'
  BY <1>18 DEF WorkerIdle, RestUnchanged, EventsFit, TrueEvent
<1>19. ASSUME NEW w \in Workers, FlushTerminal(w)
      PROVE  EventsFit'
  <2>1. ending[w] \in Event /\ TrueEvent(ending[w])
    BY <1>19 DEF FlushTerminal, ClientTypes, WorkTypes, EventsFit
  <2>2. \A v \in Workers : ending'[v] \in {ending[v], NoEvent}
    BY <1>19 DEF FlushTerminal, ClientTypes, WorkTypes
  <2>3. UNCHANGED <<fetched, completed, asked>> /\ outbox' = [outbox EXCEPT ![w] = Append(@, ending[w])]
    BY <1>19 DEF FlushTerminal, RestUnchanged
  <2> QED BY <2>1, <2>2, <2>3, SendsEvent
<1>20. ASSUME NEW w \in Workers, NEW kind \in {"result", "error", "cancelled"}, JobEnds(w, kind)
      PROVE  EventsFit'
  <2>1. UNCHANGED <<fetched, outbox, asked>> /\ completed \subseteq completed'
    BY <1>20 DEF JobEnds, RestUnchanged
  <2>2. /\ \A v \in Workers : v # w => ending'[v] = ending[v]
        /\ ending'[w] = <<kind, running[w]>>
    BY <1>20 DEF JobEnds, ClientTypes, WorkTypes
  <2>3. kind = "result" => running[w] \in completed'
    BY <1>20 DEF JobEnds
  <2>4. kind = "cancelled" => running[w] \in asked'
    BY <1>20 DEF JobEnds, RestUnchanged, AskedFit
  <2> QED BY <2>1, <2>2, <2>3, <2>4 DEF EventsFit, TrueEvent
<1>21. ASSUME NEW w \in Workers, Crash(w)
      PROVE  EventsFit'
  BY <1>21, DiesEvents DEF Crash
<1>22. ASSUME NEW w \in Workers, Freeze(w)
      PROVE  EventsFit'
  BY <1>22 DEF Freeze, EventsFit, TrueEvent
<1>23. ASSUME UNCHANGED vars
      PROVE  EventsFit'
  BY <1>23 DEF vars, EventsFit, TrueEvent
<1> QED BY <1>1, <1>2, <1>3, <1>4, <1>5, <1>6, <1>7, <1>8, <1>9, <1>10, <1>11, <1>12, <1>13,
      <1>14, <1>15, <1>16, <1>17, <1>18, <1>19, <1>20, <1>21, <1>22, <1>23
        DEF Next, CallStep, Reader, WorkerStep

(* An answer to a job that had none is its own.                               *)
LEMMA AnswerOwn ==
    ASSUME ClientTypes, LineFits, AnswerIsOwn, Grows, NEW j \in Jobs, NEW kind \in Answers,
           Answer(j, kind), answers[j] = <<>>,
           kind = "result" => j \in completed', kind = "cancelled" => j \in asked'
    PROVE  AnswerIsOwn'
<1>1. /\ \A k \in Jobs : k # j => answers'[k] = answers[k]
      /\ answers'[j] = <<kind>>
  BY AnswerFacts
<1>2. \A k \in Range(answers'[j]) : k = kind
  BY <1>1 DEF Range
<1> QED BY <1>1, <1>2 DEF AnswerIsOwn, Grows

(* Every step answers a job with its own answer.                              *)
LEMMA AnswerIsOwnKept ==
    ASSUME ClientTypes, LineFits, EventsFit, AnswerIsOwn, [Next]_vars
    PROVE  AnswerIsOwn'
<1> USE DEF jobVars, procVars, readerVars, workVars, callVars, envVars
<1>1. ASSUME NEW j \in Jobs, EnsureStarted(j)
      PROVE  AnswerIsOwn'
  BY <1>1, StepGrows DEF EnsureStarted, AnswerIsOwn, Grows
<1>2. ASSUME NEW j \in Jobs, StartupReady(j) \/ StartupExpires(j)
      PROVE  AnswerIsOwn'
  BY <1>2, StepGrows DEF StartupReady, StartupExpires, AnswerIsOwn, Grows
<1>3. ASSUME NEW j \in Jobs, StartupKills(j)
      PROVE  AnswerIsOwn'
  BY <1>3, StepGrows DEF StartupKills, AnswerIsOwn, Grows
<1>4. ASSUME NEW j \in Jobs, Submit(j)
      PROVE  AnswerIsOwn'
  BY <1>4, StepGrows DEF Submit, AnswerIsOwn, Grows
<1>5. ASSUME NEW j \in Jobs, Cancel(j)
      PROVE  AnswerIsOwn'
  <2>1. CASE Answer(j, "cancelled") /\ \E i \in DOMAIN wait : wait[i] = j
    <3>1. answers[j] = <<>> /\ j \in asked' /\ "cancelled" \in Answers
      BY <1>5, <2>1 DEF LineFits, InWait, Cancel, Answers
    <3> QED BY <2>1, <3>1, AnswerOwn, StepGrows
  <2>2. CASE active = j /\ FailActive("cancelled", TRUE)
    <3>1. answers[j] = <<>> /\ j \in asked' /\ "cancelled" \in Answers
      BY <1>5, <2>2 DEF LineFits, Cancel, Answers
    <3> QED BY <2>2, <3>1, AnswerOwn, StepGrows DEF FailActive
  <2>3. CASE UNCHANGED answers
    BY <2>3, StepGrows DEF AnswerIsOwn, Grows
  <2> QED BY <1>5, <2>1, <2>2, <2>3 DEF Cancel
<1>6. ASSUME Fetch
      PROVE  AnswerIsOwn'
  BY <1>6, StepGrows DEF Fetch, AnswerIsOwn, Grows
<1>7. ASSUME DispatchAnswer
      PROVE  AnswerIsOwn'
  <2>1. active \in Jobs /\ fetched \in Event /\ fetched[1] \in Answers /\ fetched[2] = active
    BY <1>7, JobsAssumption DEF DispatchAnswer, ClientTypes, Event, NoEvent, Answers
  <2>2. answers[active] = <<>> /\ Answer(active, fetched[1])
    BY <1>7, <2>1 DEF DispatchAnswer, LineFits
  <2>3. /\ fetched[1] = "result" => active \in completed'
        /\ fetched[1] = "cancelled" => active \in asked'
    BY <2>1, StepGrows DEF EventsFit, TrueEvent, Grows
  <2> QED BY <2>1, <2>2, <2>3, AnswerOwn, StepGrows
<1>8. ASSUME DispatchStrands
      PROVE  AnswerIsOwn'
  <2>1. active \in Jobs /\ fetched \in Event /\ fetched[1] \in Answers /\ fetched[2] = active
    BY <1>8, JobsAssumption DEF DispatchStrands, ClientTypes, Event, NoEvent, Answers
  <2>2. answers[active] = <<>> /\ Answer(active, fetched[1])
    BY <1>8, <2>1 DEF DispatchStrands, LineFits
  <2>3. /\ fetched[1] = "result" => active \in completed'
        /\ fetched[1] = "cancelled" => active \in asked'
    BY <2>1, StepGrows DEF EventsFit, TrueEvent, Grows
  <2> QED BY <2>1, <2>2, <2>3, AnswerOwn, StepGrows
<1>9. ASSUME DispatchStale
      PROVE  AnswerIsOwn'
  BY <1>9, StepGrows DEF DispatchStale, AnswerIsOwn, Grows
<1>10. ASSUME ReaderFindsCrash
      PROVE  AnswerIsOwn'
  <2>1. active \in Jobs /\ answers[active] = <<>> /\ Answer(active, "crash") /\ "crash" \in Answers
    BY <1>10 DEF ReaderFindsCrash, FailActive, ClientTypes, LineFits, Answers
  <2> QED BY <2>1, AnswerOwn, StepGrows
<1>11. ASSUME ReaderLoops \/ Handshake \/ WatchdogExits \/ Toggle
      PROVE  AnswerIsOwn'
  BY <1>11, StepGrows DEF ReaderLoops, Handshake, WatchdogExits, Toggle, AnswerIsOwn, Grows
<1>12. ASSUME WatchdogTimeout
      PROVE  AnswerIsOwn'
  <2>1. active \in Jobs /\ answers[active] = <<>> /\ Answer(active, "timeout") /\ "timeout" \in Answers
    BY <1>12 DEF WatchdogTimeout, FailActive, ClientTypes, LineFits, Answers
  <2> QED BY <2>1, AnswerOwn, StepGrows
<1>13. ASSUME Release
      PROVE  AnswerIsOwn'
  BY <1>13, StepGrows DEF Release, AnswerIsOwn, Grows
<1>14. ASSUME Shutdown
      PROVE  AnswerIsOwn'
  <2>1. shutdownDone' /\ UNCHANGED asked /\ completed \subseteq completed'
    BY <1>14, StepGrows DEF Shutdown, Grows
  <2>2. ASSUME NEW k \in Jobs, NEW kind \in Range(answers'[k])
        PROVE  kind = "result" => k \in completed'
    <3>1. CASE k = active \/ Contains(wait, k)
      <4>1. answers[k] = <<>>
        BY <3>1 DEF Contains, LineFits, InWait
      <4>2. answers'[k] = Append(<<>>, "cancelled")
        BY <1>14, <3>1, <4>1 DEF Shutdown
      <4>3. answers'[k] = <<"cancelled">>
        BY <4>2
      <4> QED BY <2>2, <4>3 DEF Range
    <3>2. CASE ~(k = active \/ Contains(wait, k))
      <4>1. answers'[k] = answers[k]
        BY <1>14, <3>2 DEF Shutdown
      <4> QED BY <2>1, <2>2, <4>1 DEF AnswerIsOwn
    <3> QED BY <3>1, <3>2
  <2> QED BY <2>1, <2>2 DEF AnswerIsOwn
<1>15. ASSUME NEW w \in Workers, TakeStart(w)
      PROVE  AnswerIsOwn'
  BY <1>15, StepGrows DEF TakeStart, RestUnchanged, AnswerIsOwn, Grows
<1>16. ASSUME NEW w \in Workers, TakeCancel(w)
      PROVE  AnswerIsOwn'
  BY <1>16, StepGrows DEF TakeCancel, RestUnchanged, AnswerIsOwn, Grows
<1>17. ASSUME NEW w \in Workers, TakeShutdown(w)
      PROVE  AnswerIsOwn'
  BY <1>17, StepGrows DEF TakeShutdown, RestUnchanged, AnswerIsOwn, Grows
<1>18. ASSUME NEW w \in Workers, WorkerIdle(w)
      PROVE  AnswerIsOwn'
  BY <1>18, StepGrows DEF WorkerIdle, RestUnchanged, AnswerIsOwn, Grows
<1>19. ASSUME NEW w \in Workers, FlushTerminal(w)
      PROVE  AnswerIsOwn'
  BY <1>19, StepGrows DEF FlushTerminal, RestUnchanged, AnswerIsOwn, Grows
<1>20. ASSUME NEW w \in Workers, NEW kind \in {"result", "error", "cancelled"}, JobEnds(w, kind)
      PROVE  AnswerIsOwn'
  BY <1>20, StepGrows DEF JobEnds, RestUnchanged, AnswerIsOwn, Grows
<1>21. ASSUME NEW w \in Workers, Crash(w)
      PROVE  AnswerIsOwn'
  BY <1>21, StepGrows DEF Crash, AnswerIsOwn, Grows
<1>22. ASSUME NEW w \in Workers, Freeze(w)
      PROVE  AnswerIsOwn'
  BY <1>22, StepGrows DEF Freeze, AnswerIsOwn, Grows
<1>23. ASSUME UNCHANGED vars
      PROVE  AnswerIsOwn'
  BY <1>23, StepGrows DEF vars, AnswerIsOwn, Grows
<1> QED BY <1>1, <1>2, <1>3, <1>4, <1>5, <1>6, <1>7, <1>8, <1>9, <1>10, <1>11, <1>12, <1>13,
      <1>14, <1>15, <1>16, <1>17, <1>18, <1>19, <1>20, <1>21, <1>22, <1>23
        DEF Next, CallStep, Reader, WorkerStep

-----------------------------------------------------------------------------
(* A worker begins only the job its next command names.                       *)
RunningStep ==
    \A v \in Workers :
        \/ running'[v] \in {running[v], NoJob}
        \/ /\ running[v] = NoJob /\ running'[v] \in Jobs
           /\ HeadRead(v) /\ inbox[v][1] = <<"start", running'[v]>>

(* Every step keeps to that.                                                  *)
LEMMA StepRunning ==
    ASSUME ClientTypes, [Next]_vars
    PROVE  RunningStep
<1> USE DEF jobVars, procVars, readerVars, workVars, callVars, envVars
<1>1. ASSUME NEW j \in Jobs, EnsureStarted(j)
      PROVE  RunningStep
  <2>1. CASE Respawn(<<>>, TRUE)
    BY <2>1, RespawnFacts DEF RunningStep
  <2>2. CASE UNCHANGED running
    BY <2>2 DEF RunningStep
  <2> QED BY <1>1, <2>1, <2>2 DEF EnsureStarted
<1>2. ASSUME NEW j \in Jobs, StartupReady(j) \/ StartupExpires(j)
      PROVE  RunningStep
  BY <1>2 DEF StartupReady, StartupExpires, RunningStep
<1>3. ASSUME NEW j \in Jobs, StartupKills(j)
      PROVE  RunningStep
  BY <1>3, DiesFacts DEF StartupKills, Kill, ClientTypes, RunningStep
<1>4. ASSUME NEW j \in Jobs, Submit(j)
      PROVE  RunningStep
  BY <1>4 DEF Submit, RunningStep
<1>5. ASSUME NEW j \in Jobs, Cancel(j)
      PROVE  RunningStep
  <2>1. CASE FailActive("cancelled", TRUE)
    BY <2>1, RespawnFacts DEF FailActive, RunningStep
  <2>2. CASE UNCHANGED running
    BY <2>2 DEF RunningStep
  <2> QED BY <1>5, <2>1, <2>2 DEF Cancel
<1>6. ASSUME Fetch
      PROVE  RunningStep
  BY <1>6 DEF Fetch, RunningStep
<1>7. ASSUME DispatchAnswer
      PROVE  RunningStep
  BY <1>7 DEF DispatchAnswer, RunningStep
<1>8. ASSUME DispatchStrands
      PROVE  RunningStep
  BY <1>8, DiesFacts DEF DispatchStrands, ClientTypes, RunningStep
<1>9. ASSUME DispatchStale
      PROVE  RunningStep
  BY <1>9 DEF DispatchStale, RunningStep
<1>10. ASSUME ReaderFindsCrash
      PROVE  RunningStep
  BY <1>10, RespawnFacts DEF ReaderFindsCrash, FailActive, RunningStep
<1>11. ASSUME ReaderLoops \/ Handshake \/ WatchdogExits \/ Toggle
      PROVE  RunningStep
  BY <1>11 DEF ReaderLoops, Handshake, WatchdogExits, Toggle, RunningStep
<1>12. ASSUME WatchdogTimeout
      PROVE  RunningStep
  BY <1>12, RespawnFacts DEF WatchdogTimeout, FailActive, RunningStep
<1>13. ASSUME Release
      PROVE  RunningStep
  BY <1>13, DiesFacts DEF Release, Kill, ClientTypes, RunningStep
<1>14. ASSUME Shutdown
      PROVE  RunningStep
  <2>1. CASE process # NoWorker
    BY <1>14, <2>1, DiesFacts DEF Shutdown, ClientTypes, RunningStep
  <2>2. CASE process = NoWorker
    BY <1>14, <2>2 DEF Shutdown, RunningStep
  <2> QED BY <2>1, <2>2
<1>15. ASSUME NEW w \in Workers, TakeStart(w)
      PROVE  RunningStep
  <2>1. Reads(w, "start") /\ inbox' = [inbox EXCEPT ![w] = Tail(@)]
    BY <1>15 DEF TakeStart
  <2>2. /\ Head(inbox[w]) = inbox[w][1] /\ inbox[w][1][1] = "start" /\ inbox[w][1] \in Command
        /\ 1 \in DOMAIN inbox[w]
    BY <2>1, ReadFacts
  <2>3. inbox[w][1] = <<"start", Head(inbox[w])[2]>> /\ Head(inbox[w])[2] \in Jobs
    BY <2>2 DEF Command
  <2>4. \A v \in Workers : v # w => running'[v] = running[v]
    BY <1>15 DEF TakeStart, ClientTypes, WorkTypes
  <2>5. running'[w] = running[w] \/ (running[w] = NoJob /\ running'[w] = Head(inbox[w])[2])
    BY <1>15 DEF TakeStart, ClientTypes, WorkTypes
  <2>6. HeadRead(w)
    BY <2>1, ReadsHead
  <2> QED BY <2>2, <2>3, <2>4, <2>5, <2>6 DEF RunningStep
<1>16. ASSUME NEW w \in Workers, TakeCancel(w)
      PROVE  RunningStep
  BY <1>16 DEF TakeCancel, RunningStep
<1>17. ASSUME NEW w \in Workers, TakeShutdown(w)
      PROVE  RunningStep
  BY <1>17, DiesFacts DEF TakeShutdown, RunningStep
<1>18. ASSUME NEW w \in Workers, WorkerIdle(w)
      PROVE  RunningStep
  BY <1>18 DEF WorkerIdle, ClientTypes, WorkTypes, RunningStep
<1>19. ASSUME NEW w \in Workers, FlushTerminal(w)
      PROVE  RunningStep
  BY <1>19 DEF FlushTerminal, RunningStep
<1>20. ASSUME NEW w \in Workers, NEW kind \in {"result", "error", "cancelled"}, JobEnds(w, kind)
      PROVE  RunningStep
  BY <1>20 DEF JobEnds, RunningStep
<1>21. ASSUME NEW w \in Workers, Crash(w)
      PROVE  RunningStep
  BY <1>21, DiesFacts DEF Crash, RunningStep
<1>22. ASSUME NEW w \in Workers, Freeze(w)
      PROVE  RunningStep
  BY <1>22 DEF Freeze, RunningStep
<1>23. ASSUME UNCHANGED vars
      PROVE  RunningStep
  BY <1>23 DEF vars, RunningStep
<1> QED BY <1>1, <1>2, <1>3, <1>4, <1>5, <1>6, <1>7, <1>8, <1>9, <1>10, <1>11, <1>12, <1>13,
      <1>14, <1>15, <1>16, <1>17, <1>18, <1>19, <1>20, <1>21, <1>22, <1>23
        DEF Next, CallStep, Reader, WorkerStep

(* An accepted job stays accepted; only a new one joins the line, and only it *)
(* or one of the line becomes active.                                         *)
LineStep ==
    \A j \in Jobs : /\ pc[j] = "accepted" => pc'[j] = "accepted"
                    /\ InWait(j)' => InWait(j) \/ pc[j] = "submitting"
                    /\ j = active' => j = active \/ InWait(j) \/ pc[j] = "submitting"

(* Every step keeps to that, too.                                             *)
LEMMA StepLine ==
    ASSUME ClientTypes, LineFits, [Next]_vars
    PROVE  LineStep
<1> USE DEF jobVars, procVars, readerVars, workVars, callVars, envVars
<1>1. ASSUME NEW j \in Jobs, EnsureStarted(j)
      PROVE  LineStep
  <2>1. pc[j] = "new" /\ (\A k \in Jobs : k # j => pc'[k] = pc[k]) /\ UNCHANGED <<active, wait>>
    BY <1>1 DEF EnsureStarted, ClientTypes
  <2> QED BY <2>1 DEF LineStep, InWait
<1>2. ASSUME NEW j \in Jobs, StartupReady(j) \/ StartupExpires(j)
      PROVE  LineStep
  <2>1. pc[j] = "starting" /\ (\A k \in Jobs : k # j => pc'[k] = pc[k]) /\ UNCHANGED <<active, wait>>
    BY <1>2 DEF StartupReady, StartupExpires, ClientTypes
  <2> QED BY <2>1 DEF LineStep, InWait
<1>3. ASSUME NEW j \in Jobs, StartupKills(j)
      PROVE  LineStep
  <2>1. pc[j] = "expired" /\ (\A k \in Jobs : k # j => pc'[k] = pc[k]) /\ UNCHANGED <<active, wait>>
    BY <1>3 DEF StartupKills, ClientTypes
  <2> QED BY <2>1 DEF LineStep, InWait
<1>4. ASSUME NEW j \in Jobs, Submit(j)
      PROVE  LineStep
  <2>1. pc[j] = "submitting" /\ (\A k \in Jobs : k # j => pc'[k] = pc[k])
    BY <1>4 DEF Submit, ClientTypes
  <2>2. CASE UNCHANGED wait /\ active' \in {active, j}
    BY <2>1, <2>2 DEF LineStep, InWait
  <2>3. CASE wait' = Append(wait, j) /\ UNCHANGED active
    <3>1. /\ DOMAIN wait' = 1..(Len(wait) + 1) /\ DOMAIN wait = 1..Len(wait) /\ Len(wait) \in Nat
          /\ \A i \in 1..Len(wait) : wait'[i] = wait[i]
          /\ wait'[Len(wait) + 1] = j
      BY <2>3, AppendFacts DEF ClientTypes
    <3>2. \A k \in Jobs : InWait(k)' => k = j \/ InWait(k)
      BY <3>1 DEF InWait
    <3> QED BY <2>1, <2>3, <3>2 DEF LineStep
  <2> QED BY <1>4, <2>2, <2>3 DEF Submit
<1>5. ASSUME NEW j \in Jobs, Cancel(j)
      PROVE  LineStep
  <2>0. UNCHANGED pc
    BY <1>5 DEF Cancel
  <2>1. ASSUME NEW i \in DOMAIN wait, wait' = RemoveAt(wait, i), UNCHANGED active
        PROVE  LineStep
    <3>1. \A a \in DOMAIN wait' : \E b \in DOMAIN wait : wait'[a] = wait[b]
      BY <2>1, RemoveFacts, SMTT(40) DEF ClientTypes
    <3> QED BY <2>0, <2>1, <3>1 DEF LineStep, InWait
  <2>2. CASE wait' = NextWait /\ active' = NextActive
    BY <2>0, <2>2, NextWaitFits, JobsAssumption DEF LineStep
  <2>3. CASE UNCHANGED <<active, wait>>
    BY <2>0, <2>3 DEF LineStep, InWait
  <2> QED BY <1>5, <2>1, <2>2, <2>3 DEF Cancel, FailActive
<1>6. ASSUME Fetch
      PROVE  LineStep
  BY <1>6 DEF Fetch, LineStep, InWait
<1>7. ASSUME DispatchAnswer
      PROVE  LineStep
  BY <1>7, NextWaitFits, JobsAssumption DEF DispatchAnswer, LineStep
<1>8. ASSUME DispatchStrands
      PROVE  LineStep
  <2>1. wait' = NextWait /\ UNCHANGED pc
    BY <1>8 DEF DispatchStrands, NextWait
  <2> QED BY <1>8, <2>1, NextWaitFits, JobsAssumption DEF DispatchStrands, LineStep
<1>9. ASSUME DispatchStale
      PROVE  LineStep
  BY <1>9 DEF DispatchStale, LineStep, InWait
<1>10. ASSUME ReaderFindsCrash
      PROVE  LineStep
  BY <1>10, NextWaitFits, JobsAssumption DEF ReaderFindsCrash, FailActive, LineStep
<1>11. ASSUME ReaderLoops \/ Handshake \/ WatchdogExits \/ Toggle
      PROVE  LineStep
  BY <1>11 DEF ReaderLoops, Handshake, WatchdogExits, Toggle, LineStep, InWait
<1>12. ASSUME WatchdogTimeout
      PROVE  LineStep
  BY <1>12, NextWaitFits, JobsAssumption DEF WatchdogTimeout, FailActive, LineStep
<1>13. ASSUME Release
      PROVE  LineStep
  BY <1>13 DEF Release, LineStep, InWait
<1>14. ASSUME Shutdown
      PROVE  LineStep
  <2>1. DOMAIN <<>> = {}
    OBVIOUS
  <2> QED BY <1>14, <2>1, JobsAssumption DEF Shutdown, LineStep, InWait
<1>15. ASSUME NEW w \in Workers, TakeStart(w)
      PROVE  LineStep
  BY <1>15 DEF TakeStart, RestUnchanged, LineStep, InWait
<1>16. ASSUME NEW w \in Workers, TakeCancel(w)
      PROVE  LineStep
  BY <1>16 DEF TakeCancel, RestUnchanged, LineStep, InWait
<1>17. ASSUME NEW w \in Workers, TakeShutdown(w)
      PROVE  LineStep
  BY <1>17 DEF TakeShutdown, RestUnchanged, LineStep, InWait
<1>18. ASSUME NEW w \in Workers, WorkerIdle(w)
      PROVE  LineStep
  BY <1>18 DEF WorkerIdle, RestUnchanged, LineStep, InWait
<1>19. ASSUME NEW w \in Workers, FlushTerminal(w)
      PROVE  LineStep
  BY <1>19 DEF FlushTerminal, RestUnchanged, LineStep, InWait
<1>20. ASSUME NEW w \in Workers, NEW kind \in {"result", "error", "cancelled"}, JobEnds(w, kind)
      PROVE  LineStep
  BY <1>20 DEF JobEnds, RestUnchanged, LineStep, InWait
<1>21. ASSUME NEW w \in Workers, Crash(w)
      PROVE  LineStep
  BY <1>21 DEF Crash, LineStep, InWait
<1>22. ASSUME NEW w \in Workers, Freeze(w)
      PROVE  LineStep
  BY <1>22 DEF Freeze, LineStep, InWait
<1>23. ASSUME UNCHANGED vars
      PROVE  LineStep
  BY <1>23 DEF vars, LineStep, InWait
<1> QED BY <1>1, <1>2, <1>3, <1>4, <1>5, <1>6, <1>7, <1>8, <1>9, <1>10, <1>11, <1>12, <1>13,
      <1>14, <1>15, <1>16, <1>17, <1>18, <1>19, <1>20, <1>21, <1>22, <1>23
        DEF Next, CallStep, Reader, WorkerStep

(* A job is over only when the worker that had it has it no more.             *)
OverStep ==
    \A j \in Jobs : Over(j)' => Over(j) \/ \E w \in Workers : Has(w, j) /\ ~ Has(w, j)'
OverBut(h) == \A j \in Jobs : j # h => (Over(j)' => Over(j))

(* The end of a worker ends no job.                                           *)
LEMMA DiesOver ==
    ASSUME ClientTypes, NEW w \in Workers \cup {NoWorker}, Dies(w), fetched' \in {fetched, NoEvent}
    PROVE  OverStep
<1>1. /\ outbox' = outbox
      /\ \A v \in Workers : \/ ending'[v] = NoEvent
                            \/ ending'[v] = ending[v] /\ running'[v] = running[v]
  BY DiesFacts
<1> QED BY <1>1, JobsAssumption DEF NoEvent, OverStep, Over

(* Neither does a respawn.                                                    *)
LEMMA RespawnOver ==
    ASSUME ClientTypes, NEW first, NEW held \in BOOLEAN, Respawn(first, held), fetched' = fetched
    PROVE  OverStep
<1>1. ASSUME NEW v \in Workers, NEW i \in DOMAIN outbox'[v]
      PROVE  outbox'[v] = outbox[v]
  <2>1. DOMAIN <<>> = {}
    OBVIOUS
  <2> QED BY <2>1, RespawnFacts
<1>2. \A v \in Workers : \/ ending'[v] = NoEvent
                         \/ ending'[v] = ending[v] /\ running'[v] = running[v]
  BY RespawnFacts
<1> QED BY <1>1, <1>2, JobsAssumption DEF NoEvent, OverStep, Over

(* Only the job whose event is sent becomes over.                             *)
LEMMA SendsOver ==
    ASSUME ClientTypes, NEW w \in Workers, NEW e \in Event,
           outbox' = [outbox EXCEPT ![w] = Append(@, e)],
           \A v \in Workers : ending'[v] \in {ending[v], NoEvent},
           UNCHANGED <<fetched, running>>
    PROVE  OverBut(e[2])
<1>1. /\ \A v \in Workers : v # w => outbox'[v] = outbox[v]
      /\ outbox'[w] = Append(outbox[w], e) /\ outbox[w] \in Seq(Event)
  BY DEF ClientTypes, WorkTypes
<1>2. /\ DOMAIN outbox'[w] = 1..(Len(outbox[w]) + 1) /\ DOMAIN outbox[w] = 1..Len(outbox[w])
      /\ Len(outbox[w]) \in Nat /\ outbox'[w][Len(outbox[w]) + 1] = e
      /\ \A i \in 1..Len(outbox[w]) : outbox'[w][i] = outbox[w][i]
  BY <1>1, AppendFacts
<1>3. ASSUME NEW v \in Workers, NEW i \in DOMAIN outbox'[v]
      PROVE  outbox'[v][i] = e \/ \E k \in DOMAIN outbox[v] : outbox[v][k] = outbox'[v][i]
  <2>1. CASE v = w
    <3>1. i \in 1..Len(outbox[w]) \/ i = Len(outbox[w]) + 1
      BY <1>2, <2>1
    <3> QED BY <1>2, <2>1, <3>1
  <2>2. CASE v # w
    BY <1>1, <2>2
  <2> QED BY <2>1, <2>2
<1> SUFFICES ASSUME NEW j \in Jobs, j # e[2], Over(j)'
             PROVE  Over(j)
  BY DEF OverBut
<1>4. CASE fetched'[2] = j
  BY <1>4 DEF Over
<1>5. ASSUME NEW v \in Workers, ending'[v][2] = j, running'[v] # j
      PROVE  Over(j)
  BY <1>5, JobsAssumption DEF Over, NoEvent
<1>6. ASSUME NEW v \in Workers, NEW i \in DOMAIN outbox'[v], outbox'[v][i][2] = j
      PROVE  Over(j)
  BY <1>3, <1>6 DEF Over
<1> QED BY <1>4, <1>5, <1>6 DEF Over

(* Every step keeps to that.                                                  *)
LEMMA StepOver ==
    ASSUME ClientTypes, SentOnce, [Next]_vars
    PROVE  OverStep
<1> USE DEF jobVars, procVars, readerVars, workVars, callVars, envVars
<1>1. ASSUME NEW j \in Jobs, EnsureStarted(j)
      PROVE  OverStep
  <2>1. CASE Respawn(<<>>, TRUE) /\ UNCHANGED fetched
    BY <2>1, RespawnOver
  <2>2. CASE UNCHANGED <<fetched, workVars>>
    BY <2>2 DEF OverStep, Over
  <2> QED BY <1>1, <2>1, <2>2 DEF EnsureStarted
<1>2. ASSUME NEW j \in Jobs, StartupReady(j) \/ StartupExpires(j)
      PROVE  OverStep
  BY <1>2 DEF StartupReady, StartupExpires, OverStep, Over
<1>3. ASSUME NEW j \in Jobs, StartupKills(j)
      PROVE  OverStep
  BY <1>3, DiesOver DEF StartupKills, Kill, ClientTypes
<1>4. ASSUME NEW j \in Jobs, Submit(j)
      PROVE  OverStep
  BY <1>4 DEF Submit, OverStep, Over
<1>5. ASSUME NEW j \in Jobs, Cancel(j)
      PROVE  OverStep
  <2>1. CASE FailActive("cancelled", TRUE) /\ UNCHANGED fetched
    BY <2>1, RespawnOver DEF FailActive
  <2>2. CASE UNCHANGED <<fetched, running, ending, outbox>>
    BY <2>2 DEF OverStep, Over
  <2> QED BY <1>5, <2>1, <2>2 DEF Cancel
<1>6. ASSUME Fetch
      PROVE  OverStep
  <2>1. reading \in Workers /\ outbox[reading] \in Seq(Event) /\ outbox[reading] # <<>>
        /\ fetched' = Head(outbox[reading]) /\ outbox' = [outbox EXCEPT ![reading] = Tail(@)]
        /\ UNCHANGED <<ending, running>>
    BY <1>6 DEF Fetch, ClientTypes, WorkTypes
  <2>2. /\ fetched' = outbox[reading][1] /\ 1 \in DOMAIN outbox[reading]
        /\ \A i \in DOMAIN Tail(outbox[reading]) : i + 1 \in DOMAIN outbox[reading]
                 /\ Tail(outbox[reading])[i] = outbox[reading][i + 1]
    BY <2>1, TailFacts
  <2>3. /\ outbox'[reading] = Tail(outbox[reading])
        /\ \A v \in Workers : v # reading => outbox'[v] = outbox[v]
    BY <2>1 DEF ClientTypes, WorkTypes
  <2>4. ASSUME NEW v \in Workers, NEW i \in DOMAIN outbox'[v]
        PROVE  \E k \in DOMAIN outbox[v] : outbox[v][k] = outbox'[v][i]
    BY <2>2, <2>3
  <2> QED BY <2>1, <2>2, <2>4 DEF OverStep, Over
<1>7. ASSUME DispatchAnswer
      PROVE  OverStep
  BY <1>7, JobsAssumption DEF DispatchAnswer, NoEvent, OverStep, Over
<1>8. ASSUME DispatchStrands
      PROVE  OverStep
  <2>1. Dies(process) /\ fetched' = NoEvent
    BY <1>8 DEF DispatchStrands
  <2> QED BY <2>1, DiesOver DEF ClientTypes
<1>9. ASSUME DispatchStale
      PROVE  OverStep
  BY <1>9, JobsAssumption DEF DispatchStale, NoEvent, OverStep, Over
<1>10. ASSUME ReaderFindsCrash
      PROVE  OverStep
  BY <1>10, RespawnOver DEF ReaderFindsCrash, FailActive
<1>11. ASSUME ReaderLoops \/ Handshake \/ WatchdogExits \/ Toggle
      PROVE  OverStep
  BY <1>11 DEF ReaderLoops, Handshake, WatchdogExits, Toggle, OverStep, Over
<1>12. ASSUME WatchdogTimeout
      PROVE  OverStep
  BY <1>12, RespawnOver DEF WatchdogTimeout, FailActive
<1>13. ASSUME Release
      PROVE  OverStep
  BY <1>13, DiesOver DEF Release, Kill, ClientTypes
<1>14. ASSUME Shutdown
      PROVE  OverStep
  <2>1. CASE process # NoWorker
    BY <1>14, <2>1, DiesOver DEF Shutdown, ClientTypes
  <2>2. CASE process = NoWorker
    BY <1>14, <2>2 DEF Shutdown, OverStep, Over
  <2> QED BY <2>1, <2>2
<1>15. ASSUME NEW w \in Workers, TakeStart(w)
      PROVE  OverStep
  <2>1. Reads(w, "start") /\ inbox' = [inbox EXCEPT ![w] = Tail(@)] /\ UNCHANGED <<fetched, ending>>
    BY <1>15 DEF TakeStart, RestUnchanged
  <2>2. /\ Head(inbox[w]) = inbox[w][1] /\ inbox[w][1][1] = "start" /\ inbox[w][1] \in Command
        /\ 1 \in DOMAIN inbox[w]
        /\ \A i \in DOMAIN inbox'[w] : i \in Nat /\ i + 1 \in DOMAIN inbox[w]
                                          /\ inbox'[w][i] = inbox[w][i + 1]
    BY <2>1, ReadFacts
  <2>3. PICK h \in Jobs : h = Head(inbox[w])[2] /\ inbox[w][1] = <<"start", h>>
    BY <2>2 DEF Command
  <2>4. CASE running[w] = NoJob /\ running' = [running EXCEPT ![w] = h] /\ UNCHANGED outbox
    <3>1. \A v \in Workers : running'[v] = running[v] \/ (v = w /\ running[v] = NoJob)
      BY <2>4 DEF ClientTypes, WorkTypes
    <3> QED BY <2>1, <2>4, <3>1, JobsAssumption DEF OverStep, Over
  <2>5. CASE running[w] # NoJob /\ UNCHANGED running
             /\ outbox' = [outbox EXCEPT ![w] = Append(@, <<"error", h>>)]
    <3>1. Starts(w, h)
      BY <2>2, <2>3 DEF Starts
    <3>2. running[w] # h
      BY <2>5, <3>1 DEF SentOnce
    <3>3. \A i \in DOMAIN inbox'[w] : inbox'[w][i] # <<"start", h>>
      <4> SUFFICES ASSUME NEW i \in DOMAIN inbox'[w], inbox'[w][i] = <<"start", h>>
                   PROVE  FALSE
        OBVIOUS
      <4>1. i \in Nat /\ i + 1 \in DOMAIN inbox[w] /\ inbox[w][i + 1] = inbox[w][1]
        BY <2>2, <2>3
      <4>2. inbox[w][i + 1][1] = "start"
        BY <2>2, <4>1
      <4>3. i + 1 = 1
        BY <2>2, <4>1, <4>2 DEF SentOnce
      <4>4. i = 0 /\ inbox'[w] \in Seq(Command)
        <5>1. inbox[w] \in Seq(Command) /\ inbox[w] # <<>> /\ inbox'[w] = Tail(inbox[w])
          BY <2>1 DEF Reads, ClientTypes, WorkTypes
        <5> QED BY <4>1, <4>3, <5>1, TailFacts
      <4> QED BY <4>4
    <3>4. Has(w, h) /\ ~ Has(w, h)'
      BY <2>5, <3>1, <3>2, <3>3 DEF Has, Starts
    <3>5. <<"error", h>> \in Event
      BY <2>3 DEF Event
    <3>6. \A j \in Jobs : j # h => (Over(j)' => Over(j))
      BY <2>1, <2>5, <3>5, SendsOver DEF OverBut
    <3> QED BY <3>4, <3>6 DEF OverStep
  <2> QED BY <1>15, <2>3, <2>4, <2>5 DEF TakeStart
<1>16. ASSUME NEW w \in Workers, TakeCancel(w)
      PROVE  OverStep
  BY <1>16 DEF TakeCancel, RestUnchanged, OverStep, Over
<1>17. ASSUME NEW w \in Workers, TakeShutdown(w)
      PROVE  OverStep
  BY <1>17, DiesOver DEF TakeShutdown, RestUnchanged
<1>18. ASSUME NEW w \in Workers, WorkerIdle(w)
      PROVE  OverStep
  <2>1. UNCHANGED <<fetched, ending, outbox, inbox>>
    BY <1>18 DEF WorkerIdle, RestUnchanged
  <2>2. /\ \A v \in Workers : v # w => running'[v] = running[v]
        /\ running'[w] = NoJob /\ running[w] # NoJob
    BY <1>18 DEF WorkerIdle, ClientTypes, WorkTypes
  <2>3. PICK h \in Jobs : running[w] = h
    BY <2>2 DEF ClientTypes, WorkTypes
  <2>4. Has(w, h) /\ ~ Has(w, h)'
    BY <2>1, <2>2, <2>3, JobsAssumption DEF SentOnce, Has, Starts
  <2>5. ASSUME NEW j \in Jobs, Over(j)', j # h
        PROVE  Over(j)
    BY <2>1, <2>2, <2>3, <2>5 DEF Over
  <2> QED BY <2>4, <2>5 DEF OverStep
<1>19. ASSUME NEW w \in Workers, FlushTerminal(w)
      PROVE  OverStep
  <2>1. ending[w] \in Event /\ running[w] = NoJob
    BY <1>19 DEF FlushTerminal, ClientTypes, WorkTypes
  <2>2. ending' = [ending EXCEPT ![w] = NoEvent] /\ outbox' = [outbox EXCEPT ![w] = Append(@, ending[w])]
        /\ UNCHANGED <<fetched, running>>
    BY <1>19 DEF FlushTerminal, RestUnchanged
  <2>3. \A v \in Workers : ending'[v] \in {ending[v], NoEvent}
    BY <2>2 DEF ClientTypes, WorkTypes
  <2>4. \A j \in Jobs : j # ending[w][2] => (Over(j)' => Over(j))
    BY <2>1, <2>2, <2>3, SendsOver DEF OverBut
  <2>5. ending[w][2] \in Jobs
    BY <2>1 DEF Event
  <2>6. Over(ending[w][2])
    BY <2>1, <2>5, JobsAssumption DEF Over
  <2> QED BY <2>4, <2>6 DEF OverStep
<1>20. ASSUME NEW w \in Workers, NEW kind \in {"result", "error", "cancelled"}, JobEnds(w, kind)
      PROVE  OverStep
  <2>1. UNCHANGED <<fetched, outbox, running>>
    BY <1>20 DEF JobEnds, RestUnchanged
  <2>2. /\ \A v \in Workers : v # w => ending'[v] = ending[v]
        /\ ending'[w] = <<kind, running[w]>>
    BY <1>20 DEF JobEnds, ClientTypes, WorkTypes
  <2> QED BY <2>1, <2>2 DEF OverStep, Over
<1>21. ASSUME NEW w \in Workers, Crash(w)
      PROVE  OverStep
  BY <1>21, DiesOver DEF Crash
<1>22. ASSUME NEW w \in Workers, Freeze(w)
      PROVE  OverStep
  BY <1>22 DEF Freeze, OverStep, Over
<1>23. ASSUME UNCHANGED vars
      PROVE  OverStep
  BY <1>23 DEF vars, OverStep, Over
<1> QED BY <1>1, <1>2, <1>3, <1>4, <1>5, <1>6, <1>7, <1>8, <1>9, <1>10, <1>11, <1>12, <1>13,
      <1>14, <1>15, <1>16, <1>17, <1>18, <1>19, <1>20, <1>21, <1>22, <1>23
        DEF Next, CallStep, Reader, WorkerStep

-----------------------------------------------------------------------------
(* A job that is sent was sent before or is sent by this step.                *)
Sends(j) ==
    /\ j = active' /\ active' # active /\ j \in Jobs
    /\ InWait(j) \/ pc[j] = "submitting"

(* A job that a worker has, it had before, or it was just sent.               *)
LEMMA StepHas ==
    ASSUME ClientTypes, WorkersFit, LineFits, [Next]_vars,
           NEW v \in Workers, NEW j \in Jobs, Has(v, j)'
    PROVE  Has(v, j) \/ (Sends(j) /\ v = queues')
<1>1. CASE running'[v] = j
  <2>1. HeadRead(v) => 1 \in DOMAIN inbox[v]
    BY DEF HeadRead
  <2> QED BY <1>1, <2>1, StepRunning, JobsAssumption DEF RunningStep, Has, Starts
<1>2. ASSUME NEW i \in DOMAIN inbox'[v], inbox'[v][i] = <<"start", j>>
      PROVE  Has(v, j) \/ (Sends(j) /\ v = queues')
  <2>1. CASE \E k \in DOMAIN inbox[v] : inbox[v][k] = inbox'[v][i]
    BY <1>2, <2>1 DEF Has, Starts
  <2>2. CASE NewCommand(v, inbox'[v][i])
    <3>1. NewStart(v, <<"start", j>>)
      BY <1>2, <2>2 DEF NewCommand
    <3>2. j = active'
      BY <3>1 DEF NewStart
    <3> QED BY <3>1, <3>2 DEF NewStart, Sends
  <2> QED BY <2>1, <2>2, StepCommands
<1> QED BY <1>1, <1>2 DEF Has, Starts

(* A job that is sent was not sent before.                                    *)
LEMMA SendsUnsent ==
    ASSUME SentOnce, NEW j \in Jobs, Sends(j)
    PROVE  ~ Over(j) /\ \A w \in Workers : ~ Has(w, j)
  BY DEF SentOnce, Sends, Sent

(* No queue gets a command to start a job that the worker has.                *)
LEMMA StartsOnce ==
    ASSUME ClientTypes, WorkersFit, LineFits, SentOnce, [Next]_vars, NEW w \in Workers
    PROVE  /\ running'[w] # NoJob => ~ Starts(w, running[w])'
           /\ \A i, k \in DOMAIN inbox'[w] :
                 inbox'[w][i] = inbox'[w][k] /\ inbox'[w][i][1] = "start" => i = k
<1>1. \A i, k \in DOMAIN inbox[w] : inbox[w][i] = inbox[w][k] /\ inbox[w][i][1] = "start" => i = k
  BY DEF SentOnce
<1>2. ASSUME NEW i \in DOMAIN inbox'[w], NEW k \in DOMAIN inbox'[w],
             inbox'[w][i] = inbox'[w][k], inbox'[w][i][1] = "start"
      PROVE  i = k
  <2>1. CASE inbox'[w] = inbox[w] \/ Emptied(w)
    BY <1>1, <1>2, <2>1 DEF Emptied
  <2>2. CASE HeadRead(w)
    <3>0. PICK n \in Nat : /\ DOMAIN inbox[w] = 1..(n + 1) /\ DOMAIN inbox'[w] = 1..n
                           /\ \A m \in 1..n : inbox'[w][m] = inbox[w][m + 1]
      BY <2>2 DEF HeadRead
    <3>1. /\ i \in Nat /\ i + 1 \in DOMAIN inbox[w] /\ inbox'[w][i] = inbox[w][i + 1]
          /\ k \in Nat /\ k + 1 \in DOMAIN inbox[w] /\ inbox'[w][k] = inbox[w][k + 1]
      BY <3>0, SMTT(40)
    <3>2. i + 1 = k + 1
      BY <1>1, <1>2, <3>1
    <3> QED BY <3>1, <3>2
  <2>3. CASE Grown(w)
    <3>1. PICK n \in Nat : /\ DOMAIN inbox[w] = 1..n /\ DOMAIN inbox'[w] = 1..(n + 1)
                           /\ \A m \in 1..n : inbox'[w][m] = inbox[w][m]
                           /\ NewCommand(w, inbox'[w][n + 1])
      BY <2>3 DEF Grown
    <3>2. ASSUME NEW m \in 1..n, inbox'[w][m] = inbox'[w][n + 1], inbox'[w][m][1] = "start"
          PROVE  FALSE
      <4>1. NewStart(w, inbox'[w][n + 1])
        BY <3>1, <3>2 DEF NewCommand
      <4>2. PICK j \in Jobs : j = active' /\ inbox'[w][n + 1] = <<"start", j>> /\ Sends(j)
        BY <4>1 DEF NewStart, Sends
      <4>3. Starts(w, j)
        BY <3>1, <3>2, <4>2 DEF Starts
      <4> QED BY <4>2, <4>3, SendsUnsent DEF Has
    <3>3. (i \in 1..n \/ i = n + 1) /\ (k \in 1..n \/ k = n + 1)
      BY <3>1
    <3> QED BY <1>1, <1>2, <3>1, <3>2, <3>3
  <2> QED BY <2>1, <2>2, <2>3, StepQueues DEF QueueStep
<1>3. ASSUME NEW j \in Jobs, running'[w] = j, Starts(w, j)'
      PROVE  FALSE
  <2>1. PICK i \in DOMAIN inbox'[w] : inbox'[w][i] = <<"start", j>>
    BY <1>3 DEF Starts
  <2>2. CASE running[w] = j
    <3>1. CASE \E k \in DOMAIN inbox[w] : inbox[w][k] = inbox'[w][i]
      BY <2>1, <2>2, <3>1, JobsAssumption DEF SentOnce, Starts
    <3>2. CASE NewCommand(w, inbox'[w][i])
      <4>1. Sends(j)
        <5>1. NewStart(w, <<"start", j>>)
          BY <2>1, <3>2 DEF NewCommand
        <5>2. j = active'
          BY <5>1 DEF NewStart
        <5> QED BY <5>1, <5>2 DEF NewStart, Sends
      <4> QED BY <2>2, <4>1, SendsUnsent DEF Has
    <3> QED BY <3>1, <3>2, StepCommands
  <2>3. CASE running[w] # j
    <3>1. HeadRead(w) /\ inbox[w][1] = <<"start", j>>
      BY <1>3, <2>3, StepRunning, JobsAssumption DEF RunningStep
    <3>0. PICK n \in Nat : /\ DOMAIN inbox[w] = 1..(n + 1) /\ DOMAIN inbox'[w] = 1..n
                           /\ \A m \in 1..n : inbox'[w][m] = inbox[w][m + 1]
      BY <3>1 DEF HeadRead
    <3>2. 1 \in DOMAIN inbox[w] /\ i \in Nat /\ i >= 1 /\ i + 1 \in DOMAIN inbox[w]
          /\ inbox'[w][i] = inbox[w][i + 1]
      BY <3>0
    <3>3. inbox[w][i + 1] = inbox[w][1] /\ inbox[w][1][1] = "start"
      BY <2>1, <3>1, <3>2
    <3>4. i + 1 = 1
      BY <1>1, <3>2, <3>3
    <3> QED BY <3>2, <3>4
  <2> QED BY <2>2, <2>3
<1>4. running'[w] # NoJob => ~ Starts(w, running[w])'
  <2>1. running'[w] \in Jobs \cup {NoJob}
    BY TypesKept DEF ClientTypes, WorkTypes
  <2> QED BY <1>3, <2>1 DEF Starts
<1> QED BY <1>2, <1>4

(* No job is sent twice.                                                      *)
LEMMA SentOnceKept ==
    ASSUME ClientTypes, WorkersFit, LineFits, LineFits', SentOnce, [Next]_vars
    PROVE  SentOnce'
<1>1. ASSUME NEW j \in Jobs, NEW v \in Workers, NEW w \in Workers, Has(v, j)', Has(w, j)'
      PROVE  v = w
  BY <1>1, StepHas, SendsUnsent DEF SentOnce
<1>2. ASSUME NEW j \in Jobs, Over(j)', NEW w \in Workers
      PROVE  ~ Has(w, j)'
  <2> SUFFICES ASSUME Has(w, j)'
               PROVE  FALSE
    OBVIOUS
  <2>1. CASE Over(j)
    BY <2>1, StepHas, SendsUnsent DEF SentOnce
  <2>2. ASSUME NEW v \in Workers, Has(v, j), ~ Has(v, j)'
        PROVE  FALSE
    BY <2>2, StepHas, SendsUnsent DEF SentOnce
  <2> QED BY <1>2, <2>1, <2>2, StepOver DEF OverStep
<1>3. ASSUME NEW j \in Jobs, Sent(j)'
      PROVE  pc'[j] = "accepted" /\ ~ InWait(j)'
  <2>1. Sent(j) \/ Sends(j)
    BY <1>3, StepHas, StepOver DEF OverStep, Sent
  <2>2. CASE Sent(j)
    BY <2>2, StepLine DEF SentOnce, LineStep
  <2>3. CASE Sends(j)
    BY <2>3 DEF Sends, LineFits, InWait
  <2> QED BY <2>1, <2>2, <2>3
<1>4. \A w \in Workers : running'[w] # NoJob => ~ Starts(w, running[w])'
  BY StartsOnce
<1>5. \A w \in Workers : \A i, k \in DOMAIN inbox'[w] :
         inbox'[w][i] = inbox'[w][k] /\ inbox'[w][i][1] = "start" => i = k
  BY StartsOnce
<1> QED BY <1>1, <1>2, <1>3, <1>4, <1>5 DEF SentOnce

-----------------------------------------------------------------------------
(* When the active job changes under the client's worker, it was over, or the *)
(* worker ends.                                                               *)
SoundNext(w) == \A k \in DOMAIN inbox'[w] : inbox'[w][k][1] # "shutdown"
ActiveStep ==
    \/ queues' = NoWorker
    \/ queues' \in Workers /\ queues' # queues /\ life[queues'] = "dead" /\ running'[queues'] = NoJob
    \/ /\ queues' = queues
       /\ \/ active' = active \/ active = NoJob \/ Over(active)
          \/ Emptied(queues) \/ ~ SoundNext(queues)

(* A new worker has no job but the new active one.                            *)
LEMMA RespawnActive ==
    ASSUME ClientTypes, WorkersFit, NEW first, NEW held \in BOOLEAN, Respawn(first, held)
    PROVE  ActiveStep
<1>1. /\ Fresh \in Workers /\ life[Fresh] = "dead" /\ queues' = Fresh
      /\ Fresh \notin {process, queues} /\ running'[Fresh] = running[Fresh]
  BY RespawnFacts
<1> QED BY <1>1 DEF ActiveStep, WorkersFit

(* Every step keeps to that.                                                  *)
LEMMA StepActive ==
    ASSUME ClientTypes, WorkersFit, [Next]_vars
    PROVE  ActiveStep
<1> USE DEF jobVars, procVars, readerVars, workVars, callVars, envVars
<1>1. ASSUME NEW j \in Jobs, EnsureStarted(j)
      PROVE  ActiveStep
  <2>1. CASE Respawn(<<>>, TRUE)
    BY <2>1, RespawnActive
  <2>2. CASE UNCHANGED queues /\ UNCHANGED active
    BY <2>2 DEF ActiveStep
  <2> QED BY <1>1, <2>1, <2>2 DEF EnsureStarted
<1>2. ASSUME NEW j \in Jobs, StartupReady(j) \/ StartupExpires(j)
      PROVE  ActiveStep
  BY <1>2 DEF StartupReady, StartupExpires, ActiveStep
<1>3. ASSUME NEW j \in Jobs, StartupKills(j)
      PROVE  ActiveStep
  BY <1>3 DEF StartupKills, Kill, ActiveStep
<1>4. ASSUME NEW j \in Jobs, Submit(j)
      PROVE  ActiveStep
  BY <1>4 DEF Submit, ActiveStep
<1>5. ASSUME NEW j \in Jobs, Cancel(j)
      PROVE  ActiveStep
  <2>1. CASE FailActive("cancelled", TRUE)
    BY <2>1, RespawnActive DEF FailActive
  <2>2. CASE UNCHANGED queues /\ UNCHANGED active
    BY <2>2 DEF ActiveStep
  <2> QED BY <1>5, <2>1, <2>2 DEF Cancel
<1>6. ASSUME Fetch
      PROVE  ActiveStep
  BY <1>6 DEF Fetch, ActiveStep
<1>7. ASSUME DispatchAnswer
      PROVE  ActiveStep
  BY <1>7 DEF DispatchAnswer, Over, ActiveStep
<1>8. ASSUME DispatchStrands
      PROVE  ActiveStep
  BY <1>8 DEF DispatchStrands, ActiveStep
<1>9. ASSUME DispatchStale
      PROVE  ActiveStep
  BY <1>9 DEF DispatchStale, ActiveStep
<1>10. ASSUME ReaderFindsCrash
      PROVE  ActiveStep
  BY <1>10, RespawnActive DEF ReaderFindsCrash, FailActive
<1>11. ASSUME ReaderLoops \/ Handshake \/ WatchdogExits \/ Toggle
      PROVE  ActiveStep
  BY <1>11 DEF ReaderLoops, Handshake, WatchdogExits, Toggle, ActiveStep
<1>12. ASSUME WatchdogTimeout
      PROVE  ActiveStep
  BY <1>12, RespawnActive DEF WatchdogTimeout, FailActive
<1>13. ASSUME Release
      PROVE  ActiveStep
  BY <1>13 DEF Release, Kill, ActiveStep
<1>14. ASSUME Shutdown
      PROVE  ActiveStep
  <2>1. CASE process # NoWorker
    BY <1>14, <2>1, DiesFacts DEF Shutdown, ClientTypes, WorkersFit, Emptied, ActiveStep
  <2>2. CASE process = NoWorker /\ ~ IsAlive(queues)
    <3>1. CASE queues = NoWorker
      BY <1>14, <3>1 DEF Shutdown, ActiveStep
    <3>2. CASE queues # NoWorker
      <4>1. running[queues] = NoJob /\ inbox[queues] = <<>>
        BY <2>2, <3>2 DEF IsAlive, WorkersFit, ClientTypes
      <4>2. UNCHANGED <<inbox, running, queues>>
        BY <1>14, <2>2 DEF Shutdown, Put
      <4>3. DOMAIN <<>> = {}
        OBVIOUS
      <4> QED BY <4>1, <4>2, <4>3 DEF Emptied, ActiveStep
    <3> QED BY <3>1, <3>2
  <2>3. CASE process = NoWorker /\ IsAlive(queues)
    <3>1. Put(<<"shutdown", NoJob>>) /\ <<"shutdown", NoJob>> \in Command /\ UNCHANGED queues
      BY <1>14, <2>3 DEF Shutdown, Command
    <3>2. queues \in Workers /\ life[queues] # "dead"
      BY <2>3 DEF IsAlive, ClientTypes
    <3>3. /\ Len(inbox[queues]) + 1 \in DOMAIN inbox'[queues]
          /\ inbox'[queues][Len(inbox[queues]) + 1] = <<"shutdown", NoJob>>
      BY <3>1, <3>2, PutFacts
    <3> QED BY <3>1, <3>3 DEF ActiveStep, SoundNext
  <2> QED BY <2>1, <2>2, <2>3
<1>15. ASSUME NEW w \in Workers, TakeStart(w)
      PROVE  ActiveStep
  BY <1>15 DEF TakeStart, RestUnchanged, ActiveStep
<1>16. ASSUME NEW w \in Workers, TakeCancel(w)
      PROVE  ActiveStep
  BY <1>16 DEF TakeCancel, RestUnchanged, ActiveStep
<1>17. ASSUME NEW w \in Workers, TakeShutdown(w)
      PROVE  ActiveStep
  BY <1>17 DEF TakeShutdown, RestUnchanged, ActiveStep
<1>18. ASSUME NEW w \in Workers, WorkerIdle(w)
      PROVE  ActiveStep
  BY <1>18 DEF WorkerIdle, RestUnchanged, ActiveStep
<1>19. ASSUME NEW w \in Workers, FlushTerminal(w)
      PROVE  ActiveStep
  BY <1>19 DEF FlushTerminal, RestUnchanged, ActiveStep
<1>20. ASSUME NEW w \in Workers, NEW kind \in {"result", "error", "cancelled"}, JobEnds(w, kind)
      PROVE  ActiveStep
  BY <1>20 DEF JobEnds, RestUnchanged, ActiveStep
<1>21. ASSUME NEW w \in Workers, Crash(w)
      PROVE  ActiveStep
  BY <1>21 DEF Crash, ActiveStep
<1>22. ASSUME NEW w \in Workers, Freeze(w)
      PROVE  ActiveStep
  BY <1>22 DEF Freeze, ActiveStep
<1>23. ASSUME UNCHANGED vars
      PROVE  ActiveStep
  BY <1>23 DEF vars, ActiveStep
<1> QED BY <1>1, <1>2, <1>3, <1>4, <1>5, <1>6, <1>7, <1>8, <1>9, <1>10, <1>11, <1>12, <1>13,
      <1>14, <1>15, <1>16, <1>17, <1>18, <1>19, <1>20, <1>21, <1>22, <1>23
        DEF Next, CallStep, Reader, WorkerStep

(* A worker that has at most a job it does not have has none.                 *)
LEMMA IdleUnless ==
    ASSUME ClientTypes, NEW w \in Workers, running[w] \in {NoJob, active},
           \A i \in DOMAIN inbox[w] : inbox[w][i][1] = "start" => inbox[w][i][2] = active,
           active = NoJob \/ ~ Has(w, active)
    PROVE  running[w] = NoJob /\ \A i \in DOMAIN inbox[w] : inbox[w][i][1] # "start"
<1>1. running[w] = NoJob
  BY DEF Has
<1>2. ASSUME NEW i \in DOMAIN inbox[w], inbox[w][i][1] = "start"
      PROVE  FALSE
  <2>1. inbox[w][i] \in Command
    BY DEF ClientTypes, WorkTypes
  <2>2. inbox[w][i] = <<"start", active>> /\ active \in Jobs
    BY <1>2, <2>1 DEF Command
  <2> QED BY <2>2, JobsAssumption DEF Has, Starts
<1> QED BY <1>1, <1>2

(* A job is started on a worker that has none.                                *)
LEMMA StartsIdle ==
    ASSUME ClientTypes, WorkersFit, SentOnce, OneAtATime, [Next]_vars,
           NEW w \in Workers, NEW c, NewStart(w, c), Sound(w)
    PROVE  running[w] = NoJob /\ \A i \in DOMAIN inbox[w] : inbox[w][i][1] # "start"
<1>1. CASE life[w] = "dead"
  <2>1. DOMAIN <<>> = {}
    OBVIOUS
  <2> QED BY <1>1, <2>1 DEF WorkersFit
<1>2. CASE life[w] # "dead"
  <2>1. w = queues /\ w # NoWorker
    BY <1>2, StepActive DEF NewStart, ActiveStep, Workers, NoWorker
  <2>2. /\ running[w] \in {NoJob, active}
        /\ \A i \in DOMAIN inbox[w] : inbox[w][i][1] = "start" => inbox[w][i][2] = active
    BY <2>1 DEF OneAtATime
  <2>3. active = NoJob \/ (active \in Jobs /\ ~ Has(w, active))
    BY <1>2 DEF NewStart, ClientTypes, SentOnce
  <2> QED BY <2>2, <2>3, IdleUnless
<1> QED BY <1>1, <1>2

(* Unless a worker was emptied, none of its commands tells it to end if none  *)
(* does afterwards.                                                           *)
LEMMA SoundBefore ==
    ASSUME NEW w \in Workers, QueueStep, SoundNext(w), ~ Emptied(w)
    PROVE  Sound(w)
<1>1. CASE inbox'[w] = inbox[w]
  BY <1>1 DEF SoundNext, Sound
<1>2. CASE HeadRead(w)
  <2>1. PICK n \in Nat : /\ DOMAIN inbox[w] = 1..(n + 1) /\ DOMAIN inbox'[w] = 1..n
                         /\ \A i \in 1..n : inbox'[w][i] = inbox[w][i + 1]
    BY <1>2 DEF HeadRead
  <2>2. ASSUME NEW k \in DOMAIN inbox[w]
        PROVE  inbox[w][k][1] # "shutdown"
    <3>1. CASE k = 1
      BY <1>2, <3>1 DEF HeadRead
    <3>2. CASE k # 1
      <4>1. k - 1 \in 1..n /\ (k - 1) + 1 = k
        BY <2>1, <3>2
      <4>2. inbox'[w][k - 1] = inbox[w][k] /\ k - 1 \in DOMAIN inbox'[w]
        BY <2>1, <4>1
      <4> QED BY <4>2 DEF SoundNext
    <3> QED BY <3>1, <3>2
  <2> QED BY <2>2 DEF Sound
<1>3. CASE Grown(w)
  <2>1. PICK n \in Nat : /\ DOMAIN inbox[w] = 1..n /\ DOMAIN inbox'[w] = 1..(n + 1)
                         /\ \A i \in 1..n : inbox'[w][i] = inbox[w][i]
    BY <1>3 DEF Grown
  <2> QED BY <2>1 DEF SoundNext, Sound
<1> QED BY <1>1, <1>2, <1>3 DEF QueueStep

(* A command to start that a worker comes to finds it idle, and is the only   *)
(* one.                                                                       *)
LEMMA IdleKept ==
    ASSUME ClientTypes, WorkersFit, LineFits, SentOnce, OneAtATime, [Next]_vars, NEW w \in Workers
    PROVE  /\ \A i \in DOMAIN inbox'[w] : Reached(w, i)' => running'[w] = NoJob
           /\ \A i, k \in DOMAIN inbox'[w] : Reached(w, i)' /\ Reached(w, k)' => i = k
<1>1. /\ \A i \in DOMAIN inbox[w] : Reached(w, i) => running[w] = NoJob
      /\ \A i, k \in DOMAIN inbox[w] : Reached(w, i) /\ Reached(w, k) => i = k
  BY DEF OneAtATime
<1>2. CASE HeadRead(w)
  <2>1. PICK n \in Nat : /\ DOMAIN inbox[w] = 1..(n + 1) /\ DOMAIN inbox'[w] = 1..n
                         /\ \A i \in 1..n : inbox'[w][i] = inbox[w][i + 1]
    BY <1>2 DEF HeadRead
  <2>2. ASSUME NEW i \in DOMAIN inbox'[w], Reached(w, i)'
        PROVE  i \in Nat /\ i + 1 \in DOMAIN inbox[w] /\ Reached(w, i + 1)
    <3>1. i \in 1..n /\ i + 1 \in 1..(n + 1) /\ inbox'[w][i] = inbox[w][i + 1]
      BY <2>1
    <3>2. ASSUME NEW k \in 1..(i + 1)
          PROVE  inbox[w][k][1] # "shutdown"
      <4>1. CASE k = 1
        BY <1>2, <4>1 DEF HeadRead
      <4>2. CASE k # 1
        <5>1. k - 1 \in 1..i /\ k - 1 \in 1..n /\ (k - 1) + 1 = k
          BY <3>1, <4>2
        <5>2. inbox'[w][k - 1] = inbox[w][k]
          BY <2>1, <5>1
        <5> QED BY <2>2, <5>1, <5>2 DEF Reached
      <4> QED BY <4>1, <4>2
    <3> QED BY <2>1, <2>2, <3>1, <3>2 DEF Reached
  <2>3. ASSUME NEW i \in DOMAIN inbox'[w], Reached(w, i)'
        PROVE  running'[w] = NoJob
    <3>1. running[w] = NoJob
      BY <1>1, <2>2, <2>3
    <3>2. ~ (inbox[w][1][1] = "start")
      <4> SUFFICES ASSUME inbox[w][1][1] = "start"
                   PROVE  FALSE
        OBVIOUS
      <4>1. 1 \in DOMAIN inbox[w]
        BY <2>1
      <4>2. \A k \in 1..1 : k = 1
        OBVIOUS
      <4>3. Reached(w, 1)
        BY <1>2, <4>2 DEF HeadRead, Reached
      <4>4. 1 = i + 1 /\ i \in 1..n
        BY <1>1, <2>1, <2>2, <2>3, <4>1, <4>3
      <4> QED BY <4>4
    <3> QED BY <3>1, <3>2, StepRunning DEF RunningStep
  <2>4. ASSUME NEW i \in DOMAIN inbox'[w], NEW k \in DOMAIN inbox'[w], Reached(w, i)', Reached(w, k)'
        PROVE  i = k
    <3>1. i + 1 = k + 1 /\ i \in Nat /\ k \in Nat
      BY <1>1, <2>2, <2>4
    <3> QED BY <3>1
  <2> QED BY <2>3, <2>4
<1>3. CASE ~ HeadRead(w)
  <2>1. running'[w] \in {running[w], NoJob}
    BY <1>3, StepRunning DEF RunningStep
  <2>2. CASE inbox'[w] = inbox[w] \/ Emptied(w)
    BY <1>1, <2>1, <2>2 DEF Emptied, Reached
  <2>3. CASE Grown(w)
    <3>1. PICK n \in Nat : /\ DOMAIN inbox[w] = 1..n /\ DOMAIN inbox'[w] = 1..(n + 1)
                           /\ \A i \in 1..n : inbox'[w][i] = inbox[w][i]
                           /\ NewCommand(w, inbox'[w][n + 1])
      BY <2>3 DEF Grown
    <3>2. ASSUME NEW i \in 1..n, Reached(w, i)'
          PROVE  i \in DOMAIN inbox[w] /\ Reached(w, i)
      <4>1. \A k \in 1..i : k \in 1..n
        BY <3>1
      <4> QED BY <3>1, <3>2, <4>1 DEF Reached
    <3>3. ASSUME Reached(w, n + 1)'
          PROVE  running[w] = NoJob /\ \A i \in 1..n : ~ Reached(w, i)
      <4>1. NewStart(w, inbox'[w][n + 1])
        BY <3>1, <3>3 DEF NewCommand, Reached
      <4>2. \A k \in 1..n : k \in 1..(n + 1)
        BY <3>1
      <4>3. Sound(w)
        BY <3>1, <3>3, <4>2 DEF Sound, Reached
      <4> QED BY <3>1, <4>1, <4>3, StartsIdle DEF Reached
    <3>4. \A i \in DOMAIN inbox'[w] : i \in 1..n \/ i = n + 1
      BY <3>1
    <3> QED BY <1>1, <2>1, <3>2, <3>3, <3>4
  <2> QED BY <1>3, <2>2, <2>3, StepQueues DEF QueueStep
<1> QED BY <1>2, <1>3

(* A worker gets a job only when it is idle.                                  *)
LEMMA OneAtATimeKept ==
    ASSUME ClientTypes, WorkersFit, LineFits, SentOnce, OneAtATime, [Next]_vars
    PROVE  OneAtATime'
<1> DEFINE Fits(q) == /\ running'[q] \in {NoJob, active'}
                      /\ \A i \in DOMAIN inbox'[q] :
                            inbox'[q][i][1] = "start" => inbox'[q][i][2] = active'
<1>1. ASSUME NEW q \in Workers, q = queues', SoundNext(q)
      PROVE  Fits(q)
  <2>1. ASSUME NEW i \in DOMAIN inbox'[q], inbox'[q][i][1] = "start",
               ~ \E k \in DOMAIN inbox[q] : inbox[q][k] = inbox'[q][i]
        PROVE  inbox'[q][i][2] = active'
    BY <2>1, StepCommands DEF NewCommand, NewStart
  <2>2. CASE life[q] = "dead" /\ running'[q] = NoJob
    <3>1. DOMAIN inbox[q] = {}
      <4>1. DOMAIN <<>> = {}
        OBVIOUS
      <4> QED BY <2>2, <4>1 DEF WorkersFit
    <3> QED BY <2>1, <2>2, <3>1
  <2>3. CASE Emptied(q)
    BY <2>3 DEF Emptied
  <2>4. CASE q = queues /\ ~ Emptied(q) /\ (active' = active \/ active = NoJob \/ Over(active))
    <3>1. Sound(q)
      BY <1>1, <2>4, SoundBefore, StepQueues
    <3>2. /\ running[q] \in {NoJob, active}
          /\ \A i \in DOMAIN inbox[q] : inbox[q][i][1] = "start" => inbox[q][i][2] = active
      BY <2>4, <3>1 DEF OneAtATime, Workers, NoWorker
    <3>3. CASE active' = active
      <4>1. running'[q] \in {NoJob, active}
        <5>1. CASE running'[q] \in {running[q], NoJob}
          BY <3>2, <5>1
        <5>2. CASE HeadRead(q) /\ inbox[q][1] = <<"start", running'[q]>>
          <6>1. 1 \in DOMAIN inbox[q]
            BY <5>2 DEF HeadRead
          <6> QED BY <3>2, <5>2, <6>1
        <5> QED BY <5>1, <5>2, StepRunning DEF RunningStep
      <4>2. ASSUME NEW i \in DOMAIN inbox'[q], inbox'[q][i][1] = "start"
            PROVE  inbox'[q][i][2] = active'
        BY <2>1, <3>2, <3>3, <4>2
      <4> QED BY <3>3, <4>1, <4>2
    <3>4. CASE active' # active
      <4>1. active = NoJob \/ ~ Has(q, active)
        BY <2>4, <3>4 DEF SentOnce, ClientTypes
      <4>2. running[q] = NoJob /\ \A i \in DOMAIN inbox[q] : inbox[q][i][1] # "start"
        BY <3>2, <4>1, IdleUnless
      <4>3. running'[q] = NoJob
        <5>1. CASE running'[q] \in {running[q], NoJob}
          BY <4>2, <5>1
        <5>2. CASE HeadRead(q) /\ inbox[q][1] = <<"start", running'[q]>>
          <6>1. 1 \in DOMAIN inbox[q]
            BY <5>2 DEF HeadRead
          <6> QED BY <4>2, <5>2, <6>1
        <5> QED BY <5>1, <5>2, StepRunning DEF RunningStep
      <4> QED BY <2>1, <4>2, <4>3
    <3> QED BY <3>3, <3>4
  <2> QED BY <1>1, <2>2, <2>3, <2>4, StepActive DEF ActiveStep, Workers, NoWorker
<1>2. queues' # NoWorker /\ Sound(queues)' => Fits(queues')
  <2> SUFFICES ASSUME queues' # NoWorker, Sound(queues)'
               PROVE  Fits(queues')
    OBVIOUS
  <2>1. PICK q \in Workers : q = queues'
    BY TypesKept DEF ClientTypes
  <2>2. SoundNext(q)
    BY <2>1 DEF Sound, SoundNext
  <2> QED BY <1>1, <2>1, <2>2
<1>3. /\ \A w \in Workers : \A i \in DOMAIN inbox'[w] : Reached(w, i)' => running'[w] = NoJob
      /\ \A w \in Workers : \A i, k \in DOMAIN inbox'[w] : Reached(w, i)' /\ Reached(w, k)' => i = k
  BY IdleKept
<1> QED BY <1>2, <1>3 DEF OneAtATime

-----------------------------------------------------------------------------
(* Without a crash, a changed setting or an expired handshake.                *)
(* A handshake that expired is remembered.                                    *)
LEMMA ExpiryFitsKept ==
    ASSUME ClientTypes, ExpiryFits, [Next]_vars
    PROVE  ExpiryFits'
<1> USE DEF jobVars, procVars, readerVars, workVars, callVars, envVars
<1>1. ASSUME NEW j \in Jobs, EnsureStarted(j)
      PROVE  ExpiryFits'
  <2>1. \A k \in Jobs : pc'[k] = "expired" => pc[k] = "expired"
    BY <1>1 DEF EnsureStarted, ClientTypes
  <2> QED BY <2>1, StepGrows DEF Grows, ExpiryFits
<1>2. ASSUME NEW j \in Jobs, StartupReady(j) \/ StartupExpires(j)
      PROVE  ExpiryFits'
  <2>1. CASE StartupReady(j)
    <3>1. \A k \in Jobs : pc'[k] = "expired" => pc[k] = "expired"
      BY <2>1 DEF StartupReady, ClientTypes
    <3> QED BY <3>1, StepGrows DEF Grows, ExpiryFits
  <2>2. CASE StartupExpires(j)
    BY <2>2 DEF StartupExpires, Mishap, ExpiryFits
  <2> QED BY <1>2, <2>1, <2>2
<1>3. ASSUME NEW j \in Jobs, StartupKills(j)
      PROVE  ExpiryFits'
  <2>1. \A k \in Jobs : pc'[k] = "expired" => pc[k] = "expired"
    BY <1>3 DEF StartupKills, ClientTypes
  <2> QED BY <2>1, StepGrows DEF Grows, ExpiryFits
<1>4. ASSUME NEW j \in Jobs, Submit(j)
      PROVE  ExpiryFits'
  <2>1. \A k \in Jobs : pc'[k] = "expired" => pc[k] = "expired"
    BY <1>4 DEF Submit, ClientTypes
  <2> QED BY <2>1, StepGrows DEF Grows, ExpiryFits
<1>5. ASSUME NEW j \in Jobs, Cancel(j)
      PROVE  ExpiryFits'
  BY <1>5, StepGrows DEF Cancel, Grows, ExpiryFits
<1>6. ASSUME Fetch
      PROVE  ExpiryFits'
  BY <1>6, StepGrows DEF Fetch, Grows, ExpiryFits
<1>7. ASSUME DispatchAnswer
      PROVE  ExpiryFits'
  BY <1>7, StepGrows DEF DispatchAnswer, Grows, ExpiryFits
<1>8. ASSUME DispatchStrands
      PROVE  ExpiryFits'
  BY <1>8, StepGrows DEF DispatchStrands, Grows, ExpiryFits
<1>9. ASSUME DispatchStale
      PROVE  ExpiryFits'
  BY <1>9, StepGrows DEF DispatchStale, Grows, ExpiryFits
<1>10. ASSUME ReaderFindsCrash
      PROVE  ExpiryFits'
  BY <1>10, StepGrows DEF ReaderFindsCrash, Grows, ExpiryFits
<1>11. ASSUME ReaderLoops \/ Handshake \/ WatchdogExits \/ Toggle
      PROVE  ExpiryFits'
  BY <1>11, StepGrows DEF ReaderLoops, Handshake, WatchdogExits, Toggle, Grows, ExpiryFits
<1>12. ASSUME WatchdogTimeout
      PROVE  ExpiryFits'
  BY <1>12, StepGrows DEF WatchdogTimeout, Grows, ExpiryFits
<1>13. ASSUME Release
      PROVE  ExpiryFits'
  BY <1>13, StepGrows DEF Release, Grows, ExpiryFits
<1>14. ASSUME Shutdown
      PROVE  ExpiryFits'
  BY <1>14, StepGrows DEF Shutdown, Grows, ExpiryFits
<1>15. ASSUME NEW w \in Workers, TakeStart(w)
      PROVE  ExpiryFits'
  BY <1>15, StepGrows DEF TakeStart, RestUnchanged, Grows, ExpiryFits
<1>16. ASSUME NEW w \in Workers, TakeCancel(w)
      PROVE  ExpiryFits'
  BY <1>16, StepGrows DEF TakeCancel, RestUnchanged, Grows, ExpiryFits
<1>17. ASSUME NEW w \in Workers, TakeShutdown(w)
      PROVE  ExpiryFits'
  BY <1>17, StepGrows DEF TakeShutdown, RestUnchanged, Grows, ExpiryFits
<1>18. ASSUME NEW w \in Workers, WorkerIdle(w)
      PROVE  ExpiryFits'
  BY <1>18, StepGrows DEF WorkerIdle, RestUnchanged, Grows, ExpiryFits
<1>19. ASSUME NEW w \in Workers, FlushTerminal(w)
      PROVE  ExpiryFits'
  BY <1>19, StepGrows DEF FlushTerminal, RestUnchanged, Grows, ExpiryFits
<1>20. ASSUME NEW w \in Workers, NEW kind \in {"result", "error", "cancelled"}, JobEnds(w, kind)
      PROVE  ExpiryFits'
  BY <1>20, StepGrows DEF JobEnds, RestUnchanged, Grows, ExpiryFits
<1>21. ASSUME NEW w \in Workers, Crash(w)
      PROVE  ExpiryFits'
  BY <1>21, StepGrows DEF Crash, Grows, ExpiryFits
<1>22. ASSUME NEW w \in Workers, Freeze(w)
      PROVE  ExpiryFits'
  BY <1>22, StepGrows DEF Freeze, Grows, ExpiryFits
<1>23. ASSUME UNCHANGED vars
      PROVE  ExpiryFits'
  BY <1>23, StepGrows DEF vars, Grows, ExpiryFits
<1> QED BY <1>1, <1>2, <1>3, <1>4, <1>5, <1>6, <1>7, <1>8, <1>9, <1>10, <1>11, <1>12, <1>13,
      <1>14, <1>15, <1>16, <1>17, <1>18, <1>19, <1>20, <1>21, <1>22, <1>23
        DEF Next, CallStep, Reader, WorkerStep

(* What happened stays happened.                                              *)
LEMMA QuietBefore ==
    ASSUME [Next]_vars
    PROVE  Quiet' => Quiet
  BY StepGrows DEF Grows, Quiet

(* The setting is the one the worker was born with.                           *)
LEMMA SettingFitsKept ==
    ASSUME ClientTypes, SettingFits, [Next]_vars
    PROVE  SettingFits'
<1> USE DEF jobVars, procVars, readerVars, workVars, callVars, envVars
<1>1. ASSUME NEW j \in Jobs, EnsureStarted(j)
      PROVE  SettingFits'
  <2>1. CASE Respawn(<<>>, TRUE)
    BY <1>1, <2>1, RespawnFacts DEF EnsureStarted, SettingFits
  <2>2. CASE UNCHANGED procVars
    BY <1>1, <2>2, QuietBefore DEF EnsureStarted, SettingFits
  <2> QED BY <1>1, <2>1, <2>2 DEF EnsureStarted
<1>2. ASSUME NEW j \in Jobs, StartupReady(j) \/ StartupExpires(j)
      PROVE  SettingFits'
  BY <1>2, QuietBefore DEF StartupReady, StartupExpires, SettingFits
<1>3. ASSUME NEW j \in Jobs, StartupKills(j)
      PROVE  SettingFits'
  BY <1>3, QuietBefore DEF StartupKills, Kill, SettingFits
<1>4. ASSUME NEW j \in Jobs, Submit(j)
      PROVE  SettingFits'
  BY <1>4, QuietBefore DEF Submit, SettingFits
<1>5. ASSUME NEW j \in Jobs, Cancel(j)
      PROVE  SettingFits'
  <2>1. CASE FailActive("cancelled", TRUE)
    BY <1>5, <2>1, RespawnFacts DEF Cancel, FailActive, SettingFits
  <2>2. CASE UNCHANGED procVars
    BY <1>5, <2>2, QuietBefore DEF Cancel, SettingFits
  <2> QED BY <1>5, <2>1, <2>2 DEF Cancel
<1>6. ASSUME Fetch
      PROVE  SettingFits'
  BY <1>6, QuietBefore DEF Fetch, SettingFits
<1>7. ASSUME DispatchAnswer
      PROVE  SettingFits'
  BY <1>7, QuietBefore DEF DispatchAnswer, SettingFits
<1>8. ASSUME DispatchStrands
      PROVE  SettingFits'
  BY <1>8 DEF DispatchStrands, SettingFits
<1>9. ASSUME DispatchStale
      PROVE  SettingFits'
  BY <1>9, QuietBefore DEF DispatchStale, SettingFits
<1>10. ASSUME ReaderFindsCrash
      PROVE  SettingFits'
  BY <1>10, RespawnFacts DEF ReaderFindsCrash, FailActive, SettingFits
<1>11. ASSUME ReaderLoops \/ Handshake \/ WatchdogExits \/ Toggle
      PROVE  SettingFits'
  <2>1. CASE Toggle
    <3>1. "toggle" \in happened'
      BY <2>1 DEF Toggle, Mishap
    <3> QED BY <3>1 DEF SettingFits, Quiet
  <2>2. CASE ReaderLoops \/ Handshake \/ WatchdogExits
    BY <2>2, QuietBefore DEF ReaderLoops, Handshake, WatchdogExits, SettingFits
  <2> QED BY <1>11, <2>1, <2>2
<1>12. ASSUME WatchdogTimeout
      PROVE  SettingFits'
  BY <1>12, RespawnFacts DEF WatchdogTimeout, FailActive, SettingFits
<1>13. ASSUME Release
      PROVE  SettingFits'
  BY <1>13, QuietBefore DEF Release, Kill, SettingFits
<1>14. ASSUME Shutdown
      PROVE  SettingFits'
  BY <1>14, QuietBefore DEF Shutdown, SettingFits
<1>15. ASSUME NEW w \in Workers, TakeStart(w)
      PROVE  SettingFits'
  BY <1>15, QuietBefore DEF TakeStart, RestUnchanged, SettingFits
<1>16. ASSUME NEW w \in Workers, TakeCancel(w)
      PROVE  SettingFits'
  BY <1>16, QuietBefore DEF TakeCancel, RestUnchanged, SettingFits
<1>17. ASSUME NEW w \in Workers, TakeShutdown(w)
      PROVE  SettingFits'
  BY <1>17, QuietBefore DEF TakeShutdown, RestUnchanged, SettingFits
<1>18. ASSUME NEW w \in Workers, WorkerIdle(w)
      PROVE  SettingFits'
  BY <1>18, QuietBefore DEF WorkerIdle, RestUnchanged, SettingFits
<1>19. ASSUME NEW w \in Workers, FlushTerminal(w)
      PROVE  SettingFits'
  BY <1>19, QuietBefore DEF FlushTerminal, RestUnchanged, SettingFits
<1>20. ASSUME NEW w \in Workers, NEW kind \in {"result", "error", "cancelled"}, JobEnds(w, kind)
      PROVE  SettingFits'
  BY <1>20, QuietBefore DEF JobEnds, RestUnchanged, SettingFits
<1>21. ASSUME NEW w \in Workers, Crash(w)
      PROVE  SettingFits'
  BY <1>21, QuietBefore DEF Crash, SettingFits
<1>22. ASSUME NEW w \in Workers, Freeze(w)
      PROVE  SettingFits'
  BY <1>22, QuietBefore DEF Freeze, SettingFits
<1>23. ASSUME UNCHANGED vars
      PROVE  SettingFits'
  BY <1>23, QuietBefore DEF vars, SettingFits
<1> QED BY <1>1, <1>2, <1>3, <1>4, <1>5, <1>6, <1>7, <1>8, <1>9, <1>10, <1>11, <1>12, <1>13,
      <1>14, <1>15, <1>16, <1>17, <1>18, <1>19, <1>20, <1>21, <1>22, <1>23
        DEF Next, CallStep, Reader, WorkerStep

(* No step takes the worker from under an active job.                         *)
LEMMA ServedKept ==
    ASSUME ClientTypes, NoneEnds, ExpiryFits, [Next]_vars, Quiet', Served,
           active' = active, active # NoJob
    PROVE  Served'
<1> USE DEF jobVars, procVars, readerVars, workVars, callVars, envVars
<1>1. ASSUME NEW j \in Jobs, EnsureStarted(j)
      PROVE  Served'
  <2>1. CASE Respawn(<<>>, TRUE)
    BY <2>1, RespawnFacts DEF Served
  <2>2. CASE UNCHANGED <<procVars, life>>
    BY <2>2 DEF Served
  <2> QED BY <1>1, <2>1, <2>2 DEF EnsureStarted
<1>2. ASSUME NEW j \in Jobs, StartupReady(j) \/ StartupExpires(j)
      PROVE  Served'
  BY <1>2 DEF StartupReady, StartupExpires, Served
<1>3. ASSUME NEW j \in Jobs, StartupKills(j)
      PROVE  Served'
  BY <1>3, QuietBefore DEF StartupKills, ExpiryFits, Quiet
<1>4. ASSUME NEW j \in Jobs, Submit(j)
      PROVE  Served'
  BY <1>4 DEF Submit, Served
<1>5. ASSUME NEW j \in Jobs, Cancel(j)
      PROVE  Served'
  <2>1. CASE FailActive("cancelled", TRUE)
    BY <2>1, RespawnFacts DEF FailActive, Served
  <2>2. CASE UNCHANGED <<process, life>>
    BY <2>2 DEF Served
  <2> QED BY <1>5, <2>1, <2>2 DEF Cancel
<1>6. ASSUME Fetch
      PROVE  Served'
  BY <1>6 DEF Fetch, Served
<1>7. ASSUME DispatchAnswer
      PROVE  Served'
  BY <1>7 DEF DispatchAnswer, Served
<1>8. ASSUME DispatchStrands
      PROVE  Served'
  BY <1>8 DEF DispatchStrands
<1>9. ASSUME DispatchStale
      PROVE  Served'
  BY <1>9 DEF DispatchStale, Served
<1>10. ASSUME ReaderFindsCrash
      PROVE  Served'
  BY <1>10 DEF ReaderFindsCrash, Served
<1>11. ASSUME ReaderLoops \/ Handshake \/ WatchdogExits \/ Toggle
      PROVE  Served'
  BY <1>11 DEF ReaderLoops, Handshake, WatchdogExits, Toggle, Served
<1>12. ASSUME WatchdogTimeout
      PROVE  Served'
  BY <1>12, RespawnFacts DEF WatchdogTimeout, FailActive, Served
<1>13. ASSUME Release
      PROVE  Served'
  BY <1>13 DEF Release
<1>14. ASSUME Shutdown
      PROVE  Served'
  BY <1>14 DEF Shutdown
<1>15. ASSUME NEW w \in Workers, TakeStart(w)
      PROVE  Served'
  BY <1>15 DEF TakeStart, RestUnchanged, Served
<1>16. ASSUME NEW w \in Workers, TakeCancel(w)
      PROVE  Served'
  BY <1>16 DEF TakeCancel, RestUnchanged, Served
<1>17. ASSUME NEW w \in Workers, TakeShutdown(w)
      PROVE  Served'
  <2>1. Reads(w, "shutdown")
    BY <1>17 DEF TakeShutdown
  <2>2. 1 \in DOMAIN inbox[w] /\ inbox[w][1][1] = "shutdown"
    BY <2>1 DEF Reads, ClientTypes, WorkTypes
  <2> QED BY <2>2, QuietBefore DEF NoneEnds, Quiet
<1>18. ASSUME NEW w \in Workers, WorkerIdle(w)
      PROVE  Served'
  BY <1>18 DEF WorkerIdle, RestUnchanged, Served
<1>19. ASSUME NEW w \in Workers, FlushTerminal(w)
      PROVE  Served'
  BY <1>19 DEF FlushTerminal, RestUnchanged, Served
<1>20. ASSUME NEW w \in Workers, NEW kind \in {"result", "error", "cancelled"}, JobEnds(w, kind)
      PROVE  Served'
  BY <1>20 DEF JobEnds, RestUnchanged, Served
<1>21. ASSUME NEW w \in Workers, Crash(w)
      PROVE  Served'
  <2>1. "crash" \in happened'
    BY <1>21 DEF Crash, Mishap
  <2> QED BY <2>1 DEF Quiet
<1>22. ASSUME NEW w \in Workers, Freeze(w)
      PROVE  Served'
  BY <1>22 DEF Freeze, Served, ClientTypes, WorkTypes
<1>23. ASSUME UNCHANGED vars
      PROVE  Served'
  BY <1>23 DEF vars, Served
<1> QED BY <1>1, <1>2, <1>3, <1>4, <1>5, <1>6, <1>7, <1>8, <1>9, <1>10, <1>11, <1>12, <1>13,
      <1>14, <1>15, <1>16, <1>17, <1>18, <1>19, <1>20, <1>21, <1>22, <1>23
        DEF Next, CallStep, Reader, WorkerStep

(* The worker of a job that was sent is there.                                *)
LEMMA ActiveServedKept ==
    ASSUME ClientTypes, ClientTypes', WorkersFit, WorkersFit', OneAlive', NoneEnds, LineFits,
           SentOnce, ExpiryFits, ActiveServed, [Next]_vars
    PROVE  ActiveServed'
<1> SUFFICES ASSUME Quiet', active' # NoJob, Sent(active)', ~ Served'
             PROVE  FALSE
  BY DEF ActiveServed
<1>1. PICK j \in Jobs : j = active'
  BY DEF ClientTypes
<1>2. Sent(j)'
  BY <1>1 DEF Sent, Has, Over, Starts
<1>3. ASSUME NEW w \in Workers, Has(w, j)'
      PROVE  FALSE
  <2>1. life'[w] = "dead"
    BY <1>3 DEF OneAlive, Quiet, Served, Workers, NoWorker
  <2>2. running'[w] = NoJob /\ inbox'[w] = <<>>
    BY <2>1 DEF WorkersFit
  <2>3. DOMAIN <<>> = {}
    OBVIOUS
  <2> QED BY <1>3, <2>2, <2>3, JobsAssumption DEF Has, Starts
<1>4. Over(j)'
  BY <1>2, <1>3 DEF Sent
<1>5. Sent(j)
  BY <1>4, StepOver DEF OverStep, Sent
<1>6. j = active
  BY <1>1, <1>5, StepLine DEF LineStep, SentOnce
<1>7. Served
  BY <1>1, <1>5, <1>6, QuietBefore DEF ActiveServed
<1> QED BY <1>1, <1>6, <1>7, ServedKept

(* The line is complete.                                                      *)
LineRest ==
    /\ active' = NoJob => wait' = <<>>
    /\ \A j \in Unanswered' : j = active' \/ InWait(j)'
    /\ \A i \in DOMAIN wait' : jobType'[wait'[i]] = jobType'[active']

(* The line stays full when nobody touches it.                                *)
LEMMA SameLine ==
    ASSUME ClientTypes, LineFits, LineFull, Quiet, UNCHANGED <<active, wait, answers>>,
           \/ UNCHANGED <<pc, jobType>>
           \/ \E j \in Jobs : /\ pc[j] # "accepted" /\ pc'[j] # "accepted"
                              /\ \A k \in Jobs : k # j => pc'[k] = pc[k] /\ jobType'[k] = jobType[k]
    PROVE  LineRest
<1>1. CASE UNCHANGED <<pc, jobType>>
  BY <1>1 DEF LineFull, LineRest, Unanswered, InWait
<1>2. ASSUME NEW j \in Jobs, pc[j] # "accepted", pc'[j] # "accepted",
             \A k \in Jobs : k # j => pc'[k] = pc[k] /\ jobType'[k] = jobType[k]
      PROVE  LineRest
  <2>1. Unanswered' \subseteq Unanswered
    BY <1>2 DEF Unanswered
  <2>2. ASSUME NEW i \in DOMAIN wait
        PROVE  jobType'[wait[i]] = jobType'[active]
    <3>1. wait[i] \in Jobs /\ wait[i] # j /\ active # j
      BY <1>2 DEF ClientTypes, LineFits, InWait
    <3>2. active \in Jobs
      <4>1. DOMAIN <<>> = {}
        OBVIOUS
      <4> QED BY <4>1 DEF LineFull, ClientTypes
    <3> QED BY <1>2, <3>1, <3>2 DEF LineFull
  <2> QED BY <2>1, <2>2 DEF LineFull, LineRest, InWait
<1> QED BY <1>1, <1>2

(* It stays full when its head becomes active.                                *)
LEMMA AdvanceFull ==
    ASSUME ClientTypes, LineFits, LineFull, Quiet, active # NoJob, NEW kind \in Answers,
           Answer(active, kind), active' = NextActive, wait' = NextWait, UNCHANGED <<pc, jobType>>
    PROVE  LineRest
<1>1. active \in Jobs /\ answers[active] = <<>>
  BY DEF ClientTypes, LineFits
<1>2. answers'[active] # <<>> /\ \A k \in Jobs : k # active => answers'[k] = answers[k]
  BY <1>1, AnswerFacts
<1>3. \A j \in Unanswered' : j \in Unanswered /\ j # active
  BY <1>2 DEF Unanswered
<1>4. \A j \in Unanswered' : j = active' \/ InWait(j)'
  BY <1>3, NextWaitFits DEF LineFull, Unanswered
<1>5. active' = NoJob => wait' = <<>>
  BY NextFacts, JobsAssumption DEF ClientTypes
<1>6. ASSUME NEW i \in DOMAIN wait'
      PROVE  jobType'[wait'[i]] = jobType'[active']
  <2>1. i + 1 \in DOMAIN wait /\ wait'[i] = wait[i + 1]
    BY NextFacts DEF ClientTypes
  <2>2. wait # <<>>
    <3>1. DOMAIN <<>> = {}
      OBVIOUS
    <3> QED BY <2>1, <3>1
  <2>3. active' = wait[1] /\ 1 \in DOMAIN wait
    BY <2>2, NextFacts DEF ClientTypes
  <2> QED BY <2>1, <2>3 DEF LineFull
<1> QED BY <1>4, <1>5, <1>6 DEF LineRest

(* Every step keeps it complete.                                              *)
LEMMA LineRestKept ==
    ASSUME ClientTypes, LineFits, SettingFits, LineFull, ActiveServed, Quiet,
           [Next]_vars
    PROVE  LineRest
<1> USE DEF jobVars, procVars, readerVars, workVars, callVars, envVars
<1>1. ASSUME NEW j \in Jobs, EnsureStarted(j)
      PROVE  LineRest
  <2>1. pc[j] = "new" /\ pc'[j] # "accepted" /\ UNCHANGED <<active, wait, answers>>
        /\ \A k \in Jobs : k # j => pc'[k] = pc[k] /\ jobType'[k] = jobType[k]
    BY <1>1 DEF EnsureStarted, ClientTypes
  <2> QED BY <2>1, SameLine DEF LineFits
<1>2. ASSUME NEW j \in Jobs, StartupReady(j) \/ StartupExpires(j)
      PROVE  LineRest
  <2>1. pc[j] = "starting" /\ pc'[j] # "accepted" /\ UNCHANGED <<active, wait, answers, jobType>>
        /\ \A k \in Jobs : k # j => pc'[k] = pc[k]
    BY <1>2 DEF StartupReady, StartupExpires, ClientTypes
  <2> QED BY <2>1, SameLine DEF LineFits
<1>3. ASSUME NEW j \in Jobs, StartupKills(j)
      PROVE  LineRest
  <2>1. pc[j] = "expired" /\ pc'[j] # "accepted" /\ UNCHANGED <<active, wait, answers, jobType>>
        /\ \A k \in Jobs : k # j => pc'[k] = pc[k]
    BY <1>3 DEF StartupKills, ClientTypes
  <2> QED BY <2>1, SameLine DEF LineFits
<1>4. ASSUME NEW j \in Jobs, Submit(j)
      PROVE  LineRest
  <2>1. pc[j] = "submitting" /\ (\A k \in Jobs : k # j => pc'[k] = pc[k])
        /\ UNCHANGED <<answers, jobType>>
    BY <1>4 DEF Submit, ClientTypes
  <2>2. CASE active = NoJob /\ active' = j /\ UNCHANGED wait
    <3>1. \A k \in Unanswered' : k = j \/ k \in Unanswered
      BY <2>1 DEF Unanswered
    <3>2. wait = <<>> /\ DOMAIN <<>> = {}
      BY <2>2 DEF LineFull
    <3> QED BY <2>2, <3>1, <3>2, JobsAssumption DEF LineFull, LineRest, Unanswered, InWait
  <2>3. CASE wait' = Append(wait, j) /\ active # NoJob /\ UNCHANGED active /\ jobType[active] = jobType[j]
    <3>1. /\ DOMAIN wait' = 1..(Len(wait) + 1) /\ DOMAIN wait = 1..Len(wait) /\ Len(wait) \in Nat
          /\ \A i \in 1..Len(wait) : wait'[i] = wait[i]
          /\ wait'[Len(wait) + 1] = j
      BY <2>3, AppendFacts DEF ClientTypes
    <3>2. \A k \in Unanswered' : k = j \/ k \in Unanswered
      BY <2>1 DEF Unanswered
    <3>3. \A k \in Jobs : InWait(k) \/ k = j => InWait(k)'
      BY <3>1 DEF InWait
    <3>4. ASSUME NEW i \in DOMAIN wait'
          PROVE  jobType[wait'[i]] = jobType[active]
      <4>1. i \in 1..Len(wait) \/ i = Len(wait) + 1
        BY <3>1
      <4> QED BY <2>3, <3>1, <4>1 DEF LineFull
    <3>5. \A k \in Unanswered' : k = active \/ InWait(k)'
      BY <3>2, <3>3 DEF LineFull, Unanswered
    <3> QED BY <2>1, <2>3, <3>4, <3>5 DEF LineRest
  <2>4. CASE UNCHANGED <<active, wait>> /\ pc' = [pc EXCEPT ![j] = "refused"]
    <3>1. pc'[j] # "accepted"
      BY <2>4 DEF ClientTypes
    <3> QED BY <2>1, <2>4, <3>1, SameLine DEF LineFits
  <2> QED BY <1>4, <2>2, <2>3, <2>4 DEF Submit
<1>5. ASSUME NEW j \in Jobs, Cancel(j)
      PROVE  LineRest
  <2>0. UNCHANGED <<pc, jobType>>
    BY <1>5 DEF Cancel
  <2>1. ASSUME NEW i \in DOMAIN wait, wait[i] = j, wait' = RemoveAt(wait, i), UNCHANGED active,
               Answer(j, "cancelled")
        PROVE  LineRest
    <3>1. /\ \A a \in DOMAIN wait' : \E b \in DOMAIN wait : wait'[a] = wait[b]
          /\ \A b \in DOMAIN wait : b # i => \E a \in DOMAIN wait' : wait'[a] = wait[b]
      <4>1. wait \in Seq(Jobs)
        BY DEF ClientTypes
      <4> QED BY <2>1, <4>1, RemoveFacts, SMTT(40)
    <3>2. answers'[j] # <<>> /\ \A k \in Jobs : k # j => answers'[k] = answers[k]
      <4>1. answers[j] = <<>>
        BY <2>1 DEF LineFits, InWait
      <4> QED BY <2>1, <4>1, AnswerFacts DEF Answers
    <3>3. \A k \in Unanswered' : k \in Unanswered /\ k # j
      BY <2>0, <3>2 DEF Unanswered
    <3>4. \A k \in Jobs : InWait(k) /\ k # j => InWait(k)'
      BY <2>1, <3>1 DEF InWait
    <3>5. \A k \in Unanswered' : k = active \/ InWait(k)'
      BY <3>3, <3>4 DEF LineFull, Unanswered
    <3>6. \A a \in DOMAIN wait' : jobType[wait'[a]] = jobType[active]
      BY <3>1 DEF LineFull
    <3>7. active # NoJob
      <4>1. DOMAIN <<>> = {}
        OBVIOUS
      <4> QED BY <2>1, <4>1 DEF LineFull
    <3> QED BY <2>0, <2>1, <3>5, <3>6, <3>7 DEF LineRest
  <2>2. CASE active = j /\ FailActive("cancelled", TRUE)
    BY <2>0, <2>2, AdvanceFull, JobsAssumption DEF FailActive, Answers
  <2>3. CASE UNCHANGED jobVars
    BY <2>0, <2>3, SameLine
  <2> QED BY <1>5, <2>1, <2>2, <2>3 DEF Cancel
<1>6. ASSUME Fetch
      PROVE  LineRest
  BY <1>6, SameLine DEF Fetch
<1>7. ASSUME DispatchAnswer
      PROVE  LineRest
  <2>1. active # NoJob /\ fetched[1] \in Answers
    BY <1>7, JobsAssumption DEF DispatchAnswer, ClientTypes, Event, NoEvent, Answers
  <2> QED BY <1>7, <2>1, AdvanceFull DEF DispatchAnswer
<1>8. ASSUME DispatchStrands
      PROVE  LineRest
  <2>1. active # NoJob /\ Over(active) /\ ~ Satisfied
    BY <1>8, JobsAssumption DEF DispatchStrands, ClientTypes, Event, NoEvent, Over
  <2>2. Served
    BY <2>1 DEF ActiveServed, Sent
  <2> QED BY <2>1, <2>2 DEF Served, Satisfied, IsAlive, SettingFits
<1>9. ASSUME DispatchStale
      PROVE  LineRest
  BY <1>9, SameLine DEF DispatchStale
<1>10. ASSUME ReaderFindsCrash
      PROVE  LineRest
  BY <1>10, AdvanceFull DEF ReaderFindsCrash, FailActive, Answers
<1>11. ASSUME ReaderLoops \/ Handshake \/ WatchdogExits \/ Toggle
      PROVE  LineRest
  BY <1>11, SameLine DEF ReaderLoops, Handshake, WatchdogExits, Toggle
<1>12. ASSUME WatchdogTimeout
      PROVE  LineRest
  BY <1>12, AdvanceFull DEF WatchdogTimeout, FailActive, Answers
<1>13. ASSUME Release
      PROVE  LineRest
  BY <1>13, SameLine DEF Release
<1>14. ASSUME Shutdown
      PROVE  LineRest
  <2>1. active' = NoJob /\ wait' = <<>> /\ UNCHANGED pc
    BY <1>14 DEF Shutdown
  <2>2. \A k \in Unanswered' : FALSE
    <3> SUFFICES ASSUME NEW k \in Jobs, pc[k] = "accepted", answers'[k] = <<>>
                 PROVE  FALSE
      BY <2>1 DEF Unanswered
    <3>1. CASE k = active \/ Contains(wait, k)
      <4>1. answers'[k] = Append(answers[k], "cancelled") /\ answers[k] \in Seq(Answers) /\ "cancelled" \in Answers
        BY <1>14, <3>1 DEF Shutdown, ClientTypes, Answers
      <4> QED BY <3>1, <4>1
    <3>2. CASE ~(k = active \/ Contains(wait, k))
      <4>1. k \in Unanswered
        BY <1>14, <3>2 DEF Shutdown, Unanswered
      <4> QED BY <3>2, <4>1 DEF LineFull, InWait, Contains
    <3> QED BY <3>1, <3>2
  <2>3. DOMAIN <<>> = {}
    OBVIOUS
  <2> QED BY <2>1, <2>2, <2>3 DEF LineRest
<1>15. ASSUME NEW w \in Workers, TakeStart(w)
      PROVE  LineRest
  BY <1>15, SameLine DEF TakeStart, RestUnchanged
<1>16. ASSUME NEW w \in Workers, TakeCancel(w)
      PROVE  LineRest
  BY <1>16, SameLine DEF TakeCancel, RestUnchanged
<1>17. ASSUME NEW w \in Workers, TakeShutdown(w)
      PROVE  LineRest
  BY <1>17, SameLine DEF TakeShutdown, RestUnchanged
<1>18. ASSUME NEW w \in Workers, WorkerIdle(w)
      PROVE  LineRest
  BY <1>18, SameLine DEF WorkerIdle, RestUnchanged
<1>19. ASSUME NEW w \in Workers, FlushTerminal(w)
      PROVE  LineRest
  BY <1>19, SameLine DEF FlushTerminal, RestUnchanged
<1>20. ASSUME NEW w \in Workers, NEW kind \in {"result", "error", "cancelled"}, JobEnds(w, kind)
      PROVE  LineRest
  BY <1>20, SameLine DEF JobEnds, RestUnchanged
<1>21. ASSUME NEW w \in Workers, Crash(w)
      PROVE  LineRest
  BY <1>21, SameLine DEF Crash
<1>22. ASSUME NEW w \in Workers, Freeze(w)
      PROVE  LineRest
  BY <1>22, SameLine DEF Freeze
<1>23. ASSUME UNCHANGED vars
      PROVE  LineRest
  BY <1>23, SameLine DEF vars
<1> QED BY <1>1, <1>2, <1>3, <1>4, <1>5, <1>6, <1>7, <1>8, <1>9, <1>10, <1>11, <1>12, <1>13,
      <1>14, <1>15, <1>16, <1>17, <1>18, <1>19, <1>20, <1>21, <1>22, <1>23
        DEF Next, CallStep, Reader, WorkerStep

(* The line stays full.                                                       *)
LEMMA LineFullKept ==
    ASSUME ClientTypes, LineFits, SettingFits, LineFull, ActiveServed, [Next]_vars
    PROVE  LineFull'
  BY LineRestKept, QuietBefore DEF LineFull, LineRest


-----------------------------------------------------------------------------
(* The invariant is inductive.                                                *)
LEMMA InitIInv == Init => IInv
<1> SUFFICES ASSUME Init
             PROVE  IInv
  OBVIOUS
<1>1. /\ active = NoJob /\ wait = <<>> /\ process = NoWorker /\ queues = NoWorker
      /\ reading = NoWorker /\ fetched = NoEvent /\ hw = hwAccel /\ happened = {}
      /\ pc = [j \in Jobs |-> "new"] /\ jobType = [j \in Jobs |-> "none"]
      /\ answers = [j \in Jobs |-> <<>>]
      /\ life = [w \in Workers |-> "dead"]
      /\ inbox = [w \in Workers |-> <<>>] /\ outbox = [w \in Workers |-> <<>>]
      /\ running = [w \in Workers |-> NoJob] /\ flag = [w \in Workers |-> FALSE]
      /\ ending = [w \in Workers |-> NoEvent]
  BY DEF Init
<1>2. /\ DOMAIN <<>> = {} /\ Len(<<>>) = 0 /\ NoEvent[1] = "none" /\ NoEvent[2] = NoJob
  BY DEF NoEvent
<1>3. Range(<<>>) = {}
  BY <1>2 DEF Range
<1>4. ClientTypes
  BY <1>1 DEF ClientTypes, WorkTypes
<1>5. WorkersFit /\ OneAlive /\ NoneEnds
  BY <1>1, <1>2 DEF WorkersFit, OneAlive, NoneEnds
<1>6. LineFits
  BY <1>1, <1>2, JobsAssumption DEF LineFits, InWait, AnsweredOnce
<1>7. EventsFit /\ AskedFit
  BY <1>1, <1>2 DEF EventsFit, TrueEvent, AskedFit
<1>8. AnswerIsOwn
  BY <1>1, <1>3 DEF AnswerIsOwn
<1>9. \A j \in Jobs : ~ Sent(j) /\ ~ Over(j) /\ \A w \in Workers : ~ Has(w, j)
  BY <1>1, <1>2, JobsAssumption DEF Sent, Over, Has, Starts
<1>10. SentOnce
  BY <1>1, <1>2, <1>9 DEF SentOnce
<1>11. OneAtATime
  BY <1>1, <1>2 DEF OneAtATime
<1>12. ExpiryFits /\ SettingFits /\ ActiveServed
  BY <1>1 DEF ExpiryFits, SettingFits, ActiveServed
<1>13. LineFull
  BY <1>1, <1>2 DEF LineFull, Unanswered
<1> QED BY <1>4, <1>5, <1>6, <1>7, <1>8, <1>10, <1>11, <1>12, <1>13 DEF IInv

(* Every step keeps the invariant.                                            *)
LEMMA NextIInv == IInv /\ [Next]_vars => IInv'
<1> SUFFICES ASSUME IInv, [Next]_vars
             PROVE  IInv'
  OBVIOUS
<1>1. /\ ClientTypes /\ WorkersFit /\ OneAlive /\ NoneEnds
      /\ LineFits /\ EventsFit /\ AskedFit /\ AnswerIsOwn
      /\ SentOnce /\ OneAtATime
      /\ ExpiryFits /\ SettingFits /\ LineFull /\ ActiveServed
  BY Zenon DEF IInv
<1>2. ClientTypes' /\ WorkersFit' /\ OneAlive' /\ LineFits'
  BY <1>1, TypesKept, WorkersFitKept, OneAliveKept, LineFitsKept, Zenon
<1>3. NoneEnds' /\ EventsFit' /\ AskedFit' /\ AnswerIsOwn'
  BY <1>1, NoneEndsKept, EventsFitKept, AskedFitKept, AnswerIsOwnKept, Zenon
<1>4. SentOnce' /\ OneAtATime'
  BY <1>1, <1>2, SentOnceKept, OneAtATimeKept, Zenon
<1>5. ExpiryFits' /\ SettingFits' /\ LineFull'
  BY <1>1, ExpiryFitsKept, SettingFitsKept, LineFullKept, Zenon
<1>6. ActiveServed'
  BY <1>1, <1>2, ActiveServedKept, Zenon
<1> QED BY <1>2, <1>3, <1>4, <1>5, <1>6, Zenon DEF IInv

(* The invariant holds.                                                       *)
LEMMA Inductive == Spec => []IInv
  BY InitIInv, NextIInv, PTL DEF Spec

-----------------------------------------------------------------------------
(* The active job is in good hands.                                           *)
Calm == ~Excused

(* Once somebody called, and nothing interfered, the client has a worker and  *)
(* its two threads.                                                           *)
ClientUp ==
    /\ ~shutdownDone => ~stopping
    /\ Calm => /\ (\E j \in Jobs : pc[j] # "new") => process # NoWorker
               /\ process # NoWorker => readerUp /\ watchUp

(* The only event of the client's worker that was not dispatched yet is that  *)
(* of the active job, and it is in one place; other workers have none of it.  *)
OwnEvents(w) ==
    /\ ending[w] # NoEvent =>
          /\ active # NoJob /\ ending[w][2] = active
          /\ outbox[w] = <<>> /\ fetched[2] # active
    /\ outbox[w] # <<>> =>
          /\ active # NoJob /\ outbox[w][1][2] = active
          /\ Len(outbox[w]) = 1 /\ fetched[2] # active
EventsOnce ==
    /\ \A w \in Workers : life[w] = "dead" => ending[w] = NoEvent
    /\ Calm => \A w \in Workers :
          IF w = process THEN OwnEvents(w) ELSE \A i \in DOMAIN outbox[w] : outbox[w][i][2] # active

Carried ==
    Calm /\ active # NoJob =>
        \/ Has(process, active) \/ ending[process][2] = active
        \/ outbox[process] # <<>> \/ fetched[2] = active

HandsInv == ClientUp /\ EventsOnce /\ Carried

LEMMA CalmBefore ==
    ASSUME [Next]_vars
    PROVE  Calm' => Calm /\ Quiet /\ ~shutdownDone /\ "crash" \notin happened
  BY StepGrows DEF Grows, Calm, Excused, Quiet

(* Then the client has the worker it wants whenever a job is active.          *)
LEMMA CalmServes ==
    ASSUME IInv, ClientUp, Calm
    PROVE  /\ process # NoWorker => /\ process = queues /\ process \in Workers
                                    /\ life[process] # "dead" /\ Satisfied
                                    /\ running[process] \in {NoJob, active}
                                    /\ \A j \in Jobs : Starts(process, j) => j = active
           /\ active # NoJob => active \in Jobs /\ process # NoWorker
           /\ \A w \in Workers : life[w] = "up" => w = process
<1>1. Quiet /\ "crash" \notin happened
  BY DEF Calm, Excused, Quiet
<1>2. /\ ClientTypes /\ WorkersFit /\ OneAlive /\ NoneEnds /\ LineFits /\ OneAtATime /\ SettingFits
  BY Zenon DEF IInv
<1>3. \A w \in Workers : life[w] # "dead" => w = process
  BY <1>1, <1>2, Zenon DEF OneAlive
<1>4. ASSUME process # NoWorker
      PROVE  /\ process = queues /\ process \in Workers
             /\ life[process] # "dead" /\ Satisfied
             /\ running[process] \in {NoJob, active}
             /\ \A j \in Jobs : Starts(process, j) => j = active
  <2>1. process = queues /\ process \in Workers /\ life[process] # "dead"
    BY <1>1, <1>2, <1>4 DEF WorkersFit, ClientTypes, OneAlive
  <2>2. Sound(queues)
    BY <1>1, <1>2, <2>1 DEF NoneEnds, Sound
  <2>3. /\ running[queues] \in {NoJob, active}
        /\ \A i \in DOMAIN inbox[queues] : inbox[queues][i][1] = "start" => inbox[queues][i][2] = active
    BY <1>2, <1>4, <2>1, <2>2 DEF OneAtATime
  <2>4. Satisfied
    BY <1>1, <1>2, <2>1 DEF Satisfied, IsAlive, SettingFits, Workers, NoWorker
  <2>5. ASSUME NEW j \in Jobs, Starts(process, j)
        PROVE  j = active
    <3>1. PICK i \in DOMAIN inbox[queues] : inbox[queues][i] = <<"start", j>>
      BY <2>1, <2>5 DEF Starts
    <3> QED BY <2>3, <3>1
  <2> QED BY <2>1, <2>3, <2>4, <2>5
<1>5. ASSUME active # NoJob
      PROVE  active \in Jobs /\ process # NoWorker
  <2>1. active \in Jobs
    BY <1>2, <1>5 DEF ClientTypes
  <2>2. pc[active] = "accepted"
    BY <1>2, <2>1 DEF LineFits
  <2> QED BY <2>1, <2>2 DEF ClientUp
<1> QED BY <1>3, <1>4, <1>5

(* The events of a job that just became active are still to come.             *)
LEMMA NewActiveUnsent ==
    ASSUME IInv, IInv', [Next]_vars, active' # active
    PROVE  /\ \A w \in Workers : \A i \in DOMAIN outbox'[w] : outbox'[w][i][2] # active'
           /\ active' # NoJob => fetched'[2] # active'
<1>1. /\ ClientTypes /\ ClientTypes' /\ LineFits /\ SentOnce
  BY Zenon DEF IInv
<1>2. CASE active' = NoJob
  <2>1. \A w \in Workers : \A i \in DOMAIN outbox'[w] : outbox'[w][i] \in Event
    BY <1>1 DEF ClientTypes, WorkTypes
  <2> QED BY <1>2, <2>1, JobsAssumption DEF Event
<1>3. ASSUME active' # NoJob
      PROVE  /\ \A w \in Workers : \A i \in DOMAIN outbox'[w] : outbox'[w][i][2] # active'
             /\ fetched'[2] # active'
  <2>1. PICK j \in Jobs : j = active'
    BY <1>1, <1>3 DEF ClientTypes
  <2>2. Sends(j)
    BY <1>1, <2>1, StepLine DEF LineStep, Sends
  <2>3. ~Over(j)'
    BY <1>1, <2>2, SendsUnsent, StepOver DEF OverStep
  <2> QED BY <2>1, <2>3 DEF Over
<1> QED BY <1>2, <1>3

(* A new worker comes with both threads.                                      *)
LEMMA RespawnsUp ==
    ASSUME ClientTypes, NEW first, Respawn(first, TRUE), [Next]_vars
    PROVE  ClientUp'
<1>1. process' # NoWorker
  BY RespawnFacts
<1>2. readerUp' /\ watchUp' /\ ~stopping'
  BY DEF Respawn
<1> QED BY <1>1, <1>2 DEF ClientUp

(* No step takes a thread or the worker away while nothing interferes.        *)
LEMMA ClientUpKept ==
    ASSUME IInv, ClientUp, [Next]_vars
    PROVE  ClientUp'
<1> USE DEF jobVars, procVars, readerVars, workVars, callVars, envVars
<1>a. ClientTypes /\ ExpiryFits /\ LineFits
  BY Zenon DEF IInv
<1>b. Quiet => \A j \in Jobs : pc[j] # "expired"
  BY <1>a DEF ExpiryFits, Quiet
<1>c. ASSUME UNCHANGED <<process, stopping, readerUp, watchUp>>,
             pc' = pc \/ (Calm => process # NoWorker)
      PROVE  ClientUp'
  BY <1>c, CalmBefore, StepGrows DEF ClientUp, Grows
<1>1. ASSUME NEW j \in Jobs, EnsureStarted(j)
      PROVE  ClientUp'
  <2>1. CASE Respawn(<<>>, TRUE)
    BY <1>a, <2>1, RespawnsUp
  <2>2. CASE Satisfied /\ UNCHANGED <<procVars, readerVars, watchUp>>
    BY <1>c, <2>2 DEF Satisfied, IsAlive
  <2> QED BY <1>1, <2>1, <2>2 DEF EnsureStarted
<1>2. ASSUME NEW j \in Jobs, StartupReady(j) \/ StartupExpires(j)
      PROVE  ClientUp'
  <2>1. pc[j] # "new"
    BY <1>2 DEF StartupReady, StartupExpires
  <2>2. Calm => process # NoWorker
    BY <2>1 DEF ClientUp
  <2> QED BY <1>2, <1>c, <2>2 DEF StartupReady, StartupExpires
<1>3. ASSUME NEW j \in Jobs, StartupKills(j)
      PROVE  ClientUp'
  <2>1. ~Calm'
    BY <1>3, <1>b, CalmBefore DEF StartupKills
  <2>2. UNCHANGED <<stopping, shutdownDone>>
    BY <1>3 DEF StartupKills, Kill
  <2> QED BY <2>1, <2>2 DEF ClientUp
<1>4. ASSUME NEW j \in Jobs, Submit(j)
      PROVE  ClientUp'
  <2>1. pc[j] # "new"
    BY <1>4 DEF Submit
  <2>2. Calm => process # NoWorker
    BY <2>1 DEF ClientUp
  <2> QED BY <1>4, <1>c, <2>2 DEF Submit
<1>5. ASSUME NEW j \in Jobs, Cancel(j)
      PROVE  ClientUp'
  <2>1. CASE FailActive("cancelled", TRUE)
    BY <1>a, <2>1, RespawnsUp DEF FailActive
  <2>2. CASE UNCHANGED <<procVars, readerVars, watchUp>>
    BY <1>5, <1>c, <2>2 DEF Cancel
  <2> QED BY <1>5, <2>1, <2>2 DEF Cancel
<1>6. ASSUME Fetch \/ DispatchAnswer \/ DispatchStale \/ Handshake \/ Toggle
      PROVE  ClientUp'
  BY <1>6, <1>c DEF Fetch, DispatchAnswer, DispatchStale, Handshake, Toggle
<1>7. ASSUME DispatchStrands
      PROVE  ClientUp'
  <2>1. ~Calm'
    <3>1. active # NoJob /\ ~Satisfied
      BY <1>7, <1>a, JobsAssumption DEF DispatchStrands, ClientTypes, Event
    <3> QED BY <3>1, CalmBefore, CalmServes
  <2>2. ~stopping'
    BY <1>7 DEF DispatchStrands
  <2> QED BY <2>1, <2>2 DEF ClientUp
<1>8. ASSUME ReaderFindsCrash
      PROVE  ClientUp'
  <2>1. ~Calm'
    BY <1>8, CalmBefore, CalmServes DEF ReaderFindsCrash
  <2>2. ~stopping'
    BY <1>8 DEF ReaderFindsCrash, FailActive, Respawn
  <2> QED BY <2>1, <2>2 DEF ClientUp
<1>9. ASSUME ReaderLoops \/ WatchdogExits
      PROVE  ClientUp'
  <2>1. UNCHANGED <<process, stopping, shutdownDone, pc>>
    BY <1>9 DEF ReaderLoops, WatchdogExits
  <2>2. ~stopping => UNCHANGED <<readerUp, watchUp>>
    BY <1>9 DEF ReaderLoops, WatchdogExits
  <2> QED BY <2>1, <2>2, CalmBefore DEF ClientUp
<1>10. ASSUME WatchdogTimeout
       PROVE  ClientUp'
  BY <1>a, <1>10, RespawnsUp DEF WatchdogTimeout, FailActive
<1>11. ASSUME Release
       PROVE  ClientUp'
  <2>1. ~Calm'
    BY <1>11 DEF Release, Mishap, Calm, Excused
  <2> QED BY <1>11, <2>1 DEF Release, Kill, ClientUp
<1>12. ASSUME Shutdown
       PROVE  ClientUp'
  BY <1>12 DEF Shutdown, ClientUp, Calm, Excused
<1>13. ASSUME NEW w \in Workers, WorkerStep(w)
       PROVE  ClientUp'
  BY <1>13, <1>c DEF WorkerStep, TakeStart, TakeCancel, TakeShutdown, WorkerIdle, FlushTerminal,
        JobEnds, RestUnchanged
<1>14. ASSUME NEW w \in Workers, Crash(w) \/ Freeze(w)
       PROVE  ClientUp'
  BY <1>14, <1>c DEF Crash, Freeze
<1>15. ASSUME UNCHANGED vars
       PROVE  ClientUp'
  BY <1>15, <1>c DEF vars
<1> QED BY <1>1, <1>2, <1>3, <1>4, <1>5, <1>6, <1>7, <1>8, <1>9, <1>10, <1>11, <1>12, <1>13,
      <1>14, <1>15 DEF Next, CallStep, Reader

(* A new worker has no event, and takes none of the active job's with it.     *)
LEMMA RespawnEventsOnce ==
    ASSUME ClientTypes, EventsOnce, NEW first, NEW held \in BOOLEAN, Respawn(first, held),
           Calm' => \A w \in Workers : \A i \in DOMAIN outbox'[w] : outbox'[w][i][2] # active'
    PROVE  EventsOnce'
<1>1. /\ Fresh \in Workers /\ life[Fresh] = "dead" /\ Fresh # process
      /\ process' = (IF held THEN Fresh ELSE NoWorker)
      /\ \A v \in Workers :
            /\ life'[v] = IF v = Fresh THEN "up" ELSE IF v = process THEN "dead" ELSE life[v]
            /\ outbox'[v] = IF v = Fresh THEN <<>> ELSE outbox[v]
            /\ ending'[v] = IF v = process THEN NoEvent ELSE ending[v]
  BY RespawnFacts
<1>2. \A w \in Workers : life'[w] = "dead" => ending'[w] = NoEvent
  BY <1>1 DEF EventsOnce
<1>3. ASSUME NEW w \in Workers, w = process' PROVE OwnEvents(w)'
  <2>1. w = Fresh
    BY <1>1, <1>3 DEF Workers, NoWorker
  <2>2. outbox'[w] = <<>> /\ ending'[w] = NoEvent
    BY <1>1, <2>1 DEF EventsOnce
  <2> QED BY <2>2 DEF OwnEvents
<1> QED BY <1>2, <1>3 DEF EventsOnce

(* The next job meets no event, once the one before is answered by its own.   *)
LEMMA AdvanceEventsOnce ==
    ASSUME IInv, IInv', EventsOnce, [Next]_vars, active' # active,
           UNCHANGED <<process, life, ending, outbox>>,
           active = NoJob \/ fetched[2] = active
    PROVE  EventsOnce'
<1>1. ASSUME Calm', NEW w \in Workers, w = process PROVE OwnEvents(w)'
  <2>1. OwnEvents(w)
    BY <1>1, CalmBefore DEF EventsOnce
  <2>2. ending'[w] = NoEvent /\ outbox'[w] = <<>>
    BY <2>1 DEF OwnEvents
  <2> QED BY <2>2 DEF OwnEvents
<1> QED BY <1>1, NewActiveUnsent DEF EventsOnce

(* Most steps leave the events as they are.                                   *)
LEMMA SameEventsOnce ==
    ASSUME EventsOnce, [Next]_vars, UNCHANGED <<process, active, fetched, ending, outbox>>,
           \A w \in Workers : life'[w] = "dead" => life[w] = "dead"
    PROVE  EventsOnce'
<1>1. \A w \in Workers : OwnEvents(w) => OwnEvents(w)'
  BY DEF OwnEvents
<1> QED BY <1>1, CalmBefore DEF EventsOnce

LEMMA DiesEventsOnce ==
    ASSUME ClientTypes, EventsOnce, NEW w \in Workers \cup {NoWorker}, Dies(w), ~Calm'
    PROVE  EventsOnce'
<1>1. \A v \in Workers : /\ life'[v] = IF v = w THEN "dead" ELSE life[v]
                         /\ ending'[v] = IF v = w THEN NoEvent ELSE ending[v]
  BY DiesFacts
<1> QED BY <1>1 DEF EventsOnce

(* A job that fails is not the next one.                                      *)
LEMMA FailMovesOn ==
    ASSUME ClientTypes, LineFits, active # NoJob, active' = NextActive
    PROVE  active' # active
<1>1. CASE wait = <<>>
  BY <1>1, NextFacts DEF ClientTypes
<1>2. CASE wait # <<>>
  BY <1>2, NextFacts DEF ClientTypes, LineFits
<1> QED BY <1>1, <1>2

LEMMA FailEventsOnce ==
    ASSUME IInv, IInv', EventsOnce, [Next]_vars, active # NoJob, NEW kind, NEW held \in BOOLEAN,
           FailActive(kind, held)
    PROVE  EventsOnce'
<1>1. ClientTypes /\ LineFits
  BY Zenon DEF IInv
<1>2. Respawn(StartNext, held) /\ active' = NextActive
  BY DEF FailActive
<1>3. \A w \in Workers : \A i \in DOMAIN outbox'[w] : outbox'[w][i][2] # active'
  BY <1>1, <1>2, FailMovesOn, NewActiveUnsent
<1> QED BY <1>1, <1>2, <1>3, RespawnEventsOnce

(* A queue of one event.                                                      *)
LEMMA OneEvent ==
    ASSUME NEW S, NEW e \in S
    PROVE  /\ Append(<<>>, e) # <<>> /\ Len(Append(<<>>, e)) = 1 /\ Append(<<>>, e)[1] = e
           /\ \A s \in Seq(S) : Len(s) = 1 => Tail(s) = <<>>
<1>1. <<>> \in Seq(S) /\ Len(<<>>) = 0
  OBVIOUS
<1>2. /\ Append(<<>>, e) \in Seq(S) /\ Len(Append(<<>>, e)) = 1 /\ Append(<<>>, e)[1] = e
  BY <1>1, AppendProperties
<1>3. ASSUME NEW s \in Seq(S), Len(s) = 1
      PROVE  Tail(s) = <<>>
  <2>1. s # <<>>
    BY <1>1, <1>3
  <2>2. Tail(s) \in Seq(S) /\ Len(Tail(s)) = 0
    BY <1>3, <2>1, HeadTailProperties
  <2> QED BY <2>2, EmptySeq
<1> QED BY <1>1, <1>2, <1>3

(* The reader takes the only event of the client's worker, or an old one.     *)
LEMMA FetchEventsOnce ==
    ASSUME IInv, EventsOnce, [Next]_vars, Fetch
    PROVE  EventsOnce'
<1> USE DEF jobVars, procVars, readerVars, workVars, callVars, envVars
<1>1. /\ ClientTypes /\ reading \in Workers /\ outbox[reading] \in Seq(Event) /\ outbox[reading] # <<>>
  BY DEF Fetch, IInv, ClientTypes, WorkTypes
<1>2. /\ UNCHANGED <<process, active, ending, life>>
      /\ fetched' = outbox[reading][1]
      /\ outbox'[reading] = Tail(outbox[reading])
      /\ \A w \in Workers : w # reading => outbox'[w] = outbox[w]
  BY <1>1, TailFacts DEF Fetch, ClientTypes, WorkTypes
<1>3. ASSUME Calm', NEW w \in Workers, w = process PROVE OwnEvents(w)'
  <2>1. OwnEvents(w) /\ (w # reading => \A i \in DOMAIN outbox[reading] : outbox[reading][i][2] # active)
    BY <1>1, <1>3, CalmBefore DEF EventsOnce
  <2>2. CASE w = reading
    <3>1. Len(outbox[w]) = 1 /\ ending[w] = NoEvent
      BY <1>1, <2>1, <2>2 DEF OwnEvents
    <3>2. outbox'[w] = <<>>
      <4>1. outbox[w][1] \in Event
        BY <1>1, <2>2, TailFacts
      <4> QED BY <1>1, <1>2, <2>2, <3>1, <4>1, OneEvent
    <3> QED BY <1>2, <3>1, <3>2 DEF OwnEvents
  <2>3. CASE w # reading
    <3>1. fetched'[2] # active
      BY <1>1, <1>2, <2>1, <2>3, TailFacts
    <3> QED BY <1>2, <2>1, <2>3, <3>1 DEF OwnEvents
  <2> QED BY <2>2, <2>3
<1>4. ASSUME Calm', NEW w \in Workers, w # process, NEW i \in DOMAIN outbox'[w]
      PROVE  outbox'[w][i][2] # active'
  <2>1. \A k \in DOMAIN outbox[w] : outbox[w][k][2] # active
    BY <1>4, CalmBefore DEF EventsOnce
  <2>2. CASE w = reading
    <3>1. i \in DOMAIN Tail(outbox[w]) /\ outbox'[w] = Tail(outbox[w])
      BY <1>2, <1>4, <2>2
    <3>2. i + 1 \in DOMAIN outbox[w] /\ outbox'[w][i] = outbox[w][i + 1]
      BY <1>1, <2>2, <3>1, TailFacts
    <3> QED BY <1>2, <2>1, <3>2
  <2> QED BY <1>2, <1>4, <2>1, <2>2
<1> QED BY <1>2, <1>3, <1>4 DEF EventsOnce

(* A worker ends the job it has, and has no event of another.                 *)
LEMMA EndEventsOnce ==
    ASSUME IInv, ClientUp, EventsOnce, [Next]_vars, NEW w \in Workers,
           NEW kind \in {"result", "error", "cancelled"}, JobEnds(w, kind)
    PROVE  EventsOnce'
<1> USE DEF jobVars, procVars, readerVars, workVars, callVars, envVars
<1>1. /\ ClientTypes /\ SentOnce /\ life[w] = "up" /\ running[w] \in Jobs
  BY DEF JobEnds, RestUnchanged, IInv, ClientTypes, WorkTypes
<1>2. /\ UNCHANGED <<process, active, outbox, life, fetched>>
      /\ ending'[w] = <<kind, running[w]>>
      /\ \A v \in Workers : v # w => ending'[v] = ending[v]
  BY <1>1 DEF JobEnds, RestUnchanged, ClientTypes, WorkTypes
<1>3. ASSUME Calm', NEW v \in Workers, v = process PROVE OwnEvents(v)'
  <2>1. OwnEvents(v) /\ v = w /\ running[w] = active /\ active # NoJob
    <3>1. Calm /\ OwnEvents(v)
      BY <1>3, CalmBefore DEF EventsOnce
    <3>2. w = process
      BY <1>1, <3>1, CalmServes
    <3>3. process # NoWorker
      BY <3>2 DEF Workers, NoWorker
    <3>4. running[process] \in {NoJob, active}
      BY <3>1, <3>3, CalmServes
    <3> QED BY <1>1, <1>3, <3>1, <3>2, <3>4, JobsAssumption
  <2>2. ~Over(active)
    <3>1. Has(w, active)
      BY <2>1 DEF Has
    <3> QED BY <1>1, <2>1, <3>1 DEF SentOnce
  <2>3. fetched[2] # active
    BY <2>2 DEF Over
  <2>4. outbox[w] = <<>>
    <3>1. SUFFICES ASSUME outbox[w] # <<>> PROVE FALSE
      OBVIOUS
    <3>2. outbox[w][1][2] = active /\ 1 \in DOMAIN outbox[w]
      BY <2>1, <3>1 DEF OwnEvents
    <3> QED BY <2>2, <3>2 DEF Over
  <2> QED BY <1>2, <2>1, <2>3, <2>4 DEF OwnEvents
<1>4. \A v \in Workers : life'[v] = "dead" => ending'[v] = NoEvent
  BY <1>1, <1>2 DEF EventsOnce
<1> QED BY <1>2, <1>3, <1>4, CalmBefore DEF EventsOnce

(* The event it held back becomes the only one of its queue.                  *)
LEMMA FlushEventsOnce ==
    ASSUME IInv, ClientUp, EventsOnce, [Next]_vars, NEW w \in Workers, FlushTerminal(w)
    PROVE  EventsOnce'
<1> USE DEF jobVars, procVars, readerVars, workVars, callVars, envVars
<1>1. /\ ClientTypes /\ life[w] = "up" /\ ending[w] # NoEvent
  BY DEF FlushTerminal, IInv
<1>2. /\ UNCHANGED <<process, active, life, fetched>>
      /\ ending'[w] = NoEvent /\ outbox'[w] = Append(outbox[w], ending[w])
      /\ \A v \in Workers : v # w => ending'[v] = ending[v] /\ outbox'[v] = outbox[v]
  BY <1>1 DEF FlushTerminal, RestUnchanged, ClientTypes, WorkTypes
<1>3. ASSUME Calm' PROVE w = process /\ OwnEvents(w)
  BY <1>1, <1>3, CalmBefore, CalmServes DEF EventsOnce
<1>4. ASSUME Calm', NEW v \in Workers, v = process PROVE OwnEvents(v)'
  <2>1. ending[w] \in Event /\ outbox[w] = <<>> /\ v = w
    BY <1>1, <1>3, <1>4 DEF OwnEvents, ClientTypes, WorkTypes
  <2>2. /\ outbox'[w] = Append(<<>>, ending[w])
        /\ ending[w][2] = active /\ active # NoJob /\ fetched[2] # active
    BY <1>1, <1>2, <1>3, <1>4, <2>1 DEF OwnEvents
  <2>3. Len(outbox'[w]) = 1 /\ outbox'[w][1][2] = active
    BY <2>1, <2>2, OneEvent
  <2> QED BY <1>2, <2>1, <2>2, <2>3 DEF OwnEvents
<1>5. \A v \in Workers : life'[v] = "dead" => ending'[v] = NoEvent
  BY <1>1, <1>2 DEF EventsOnce
<1> QED BY <1>2, <1>3, <1>4, <1>5, CalmBefore DEF EventsOnce

(* A worker that takes a command to start a job is idle.                      *)
LEMMA TakesIdle ==
    ASSUME IInv, NEW w \in Workers, Reads(w, "start")
    PROVE  running[w] = NoJob
<1>1. ClientTypes /\ OneAtATime
  BY Zenon DEF IInv
<1>2. inbox[w] \in Seq(Command) /\ inbox[w] # <<>> /\ Head(inbox[w])[1] = "start"
  BY <1>1 DEF Reads, ClientTypes, WorkTypes
<1>3. 1 \in DOMAIN inbox[w] /\ inbox[w][1][1] = "start"
  BY <1>2, TailFacts
<1>4. Reached(w, 1)
  BY <1>3 DEF Reached
<1> QED BY <1>1, <1>3, <1>4 DEF OneAtATime

(* Every step keeps the active job's event in one place.                      *)
LEMMA EventsOnceKept ==
    ASSUME IInv, IInv', ClientUp, EventsOnce, [Next]_vars
    PROVE  EventsOnce'
<1> USE DEF jobVars, procVars, readerVars, workVars, callVars, envVars
<1>a. ClientTypes /\ ClientTypes' /\ LineFits /\ ExpiryFits
  BY Zenon DEF IInv
<1>1. ASSUME NEW j \in Jobs, EnsureStarted(j)
      PROVE  EventsOnce'
  <2>1. CASE ~Satisfied /\ Respawn(<<>>, TRUE)
    <3>1. Calm' => active' = NoJob
      BY <1>1, <2>1, CalmBefore, CalmServes DEF EnsureStarted
    <3>2. \A w \in Workers : \A i \in DOMAIN outbox'[w] : outbox'[w][i] \in Event
      BY <1>a DEF ClientTypes, WorkTypes
    <3>3. Calm' => \A w \in Workers : \A i \in DOMAIN outbox'[w] : outbox'[w][i][2] # active'
      BY <3>1, <3>2, JobsAssumption DEF Event
    <3> QED BY <1>a, <2>1, <3>3, RespawnEventsOnce
  <2>2. CASE UNCHANGED <<procVars, readerVars, life, workVars>>
    BY <1>1, <2>2, SameEventsOnce DEF EnsureStarted
  <2> QED BY <1>1, <2>1, <2>2 DEF EnsureStarted
<1>2. ASSUME NEW j \in Jobs, StartupReady(j) \/ StartupExpires(j)
      PROVE  EventsOnce'
  BY <1>2, SameEventsOnce DEF StartupReady, StartupExpires
<1>3. ASSUME NEW j \in Jobs, StartupKills(j)
      PROVE  EventsOnce'
  <2>1. "expiry" \in happened
    BY <1>3, <1>a DEF StartupKills, ExpiryFits
  <2>2. ~Calm'
    BY <2>1, CalmBefore DEF Quiet
  <2>3. Dies(process) /\ process \in Workers \cup {NoWorker}
    BY <1>3, <1>a DEF StartupKills, Kill, ClientTypes
  <2> QED BY <1>a, <2>2, <2>3, DiesEventsOnce
<1>4. ASSUME NEW j \in Jobs, Submit(j)
      PROVE  EventsOnce'
  <2>1. CASE active = NoJob
    BY <1>4, <2>1, AdvanceEventsOnce, JobsAssumption DEF Submit
  <2>2. CASE active # NoJob
    BY <1>4, <2>2, SameEventsOnce DEF Submit
  <2> QED BY <2>1, <2>2
<1>5. ASSUME NEW j \in Jobs, Cancel(j)
      PROVE  EventsOnce'
  <2>1. CASE active = j /\ FailActive("cancelled", TRUE)
    BY <2>1, FailEventsOnce, JobsAssumption
  <2>2. CASE UNCHANGED <<active, procVars, readerVars, life, outbox, ending>>
    BY <1>5, <2>2, SameEventsOnce DEF Cancel
  <2> QED BY <1>5, <2>1, <2>2 DEF Cancel
<1>6. ASSUME Fetch
      PROVE  EventsOnce'
  BY <1>6, FetchEventsOnce
<1>7. ASSUME DispatchAnswer
      PROVE  EventsOnce'
  <2>1. active # NoJob
    BY <1>7, <1>a, JobsAssumption DEF DispatchAnswer, ClientTypes, Event
  <2>2. active' # active
    BY <1>7, <1>a, <2>1, FailMovesOn DEF DispatchAnswer
  <2> QED BY <1>7, <2>2, AdvanceEventsOnce DEF DispatchAnswer
<1>8. ASSUME DispatchStrands
      PROVE  EventsOnce'
  <2>1. active # NoJob /\ ~Satisfied
    BY <1>8, <1>a, JobsAssumption DEF DispatchStrands, ClientTypes, Event
  <2>2. ~Calm'
    BY <2>1, CalmBefore, CalmServes
  <2>3. Dies(process) /\ process \in Workers \cup {NoWorker}
    BY <1>8, <1>a DEF DispatchStrands, ClientTypes
  <2> QED BY <1>a, <2>2, <2>3, DiesEventsOnce
<1>9. ASSUME DispatchStale
      PROVE  EventsOnce'
  <2>1. UNCHANGED <<process, active, ending, outbox, life>> /\ fetched' = NoEvent
    BY <1>9 DEF DispatchStale
  <2>2. ASSUME NEW w \in Workers, OwnEvents(w) PROVE OwnEvents(w)'
    BY <2>1, <2>2 DEF OwnEvents, NoEvent
  <2> QED BY <2>1, <2>2, CalmBefore DEF EventsOnce
<1>10. ASSUME ReaderFindsCrash
       PROVE  EventsOnce'
  BY <1>10, FailEventsOnce DEF ReaderFindsCrash
<1>11. ASSUME ReaderLoops \/ Handshake \/ WatchdogExits \/ Toggle
       PROVE  EventsOnce'
  BY <1>11, SameEventsOnce DEF ReaderLoops, Handshake, WatchdogExits, Toggle
<1>12. ASSUME WatchdogTimeout
       PROVE  EventsOnce'
  BY <1>12, FailEventsOnce DEF WatchdogTimeout
<1>13. ASSUME Release
       PROVE  EventsOnce'
  <2>1. ~Calm'
    BY <1>13 DEF Release, Mishap, Calm, Excused
  <2>2. Dies(process) /\ process \in Workers \cup {NoWorker}
    BY <1>13, <1>a DEF Release, Kill, ClientTypes
  <2> QED BY <1>a, <2>1, <2>2, DiesEventsOnce
<1>14. ASSUME Shutdown
       PROVE  EventsOnce'
  <2>1. ~Calm'
    BY <1>14 DEF Shutdown, Calm, Excused
  <2>2. CASE process # NoWorker
    BY <1>14, <1>a, <2>1, <2>2, DiesEventsOnce DEF Shutdown, ClientTypes
  <2>3. CASE process = NoWorker
    BY <1>14, <2>1, <2>3 DEF Shutdown, EventsOnce
  <2> QED BY <2>2, <2>3
<1>15. ASSUME NEW w \in Workers, TakeStart(w)
       PROVE  EventsOnce'
  <2>1. running[w] = NoJob
    BY <1>15, TakesIdle DEF TakeStart
  <2> QED BY <1>15, <2>1, SameEventsOnce DEF TakeStart, RestUnchanged
<1>16. ASSUME NEW w \in Workers, TakeCancel(w) \/ WorkerIdle(w)
       PROVE  EventsOnce'
  BY <1>16, SameEventsOnce DEF TakeCancel, WorkerIdle, RestUnchanged
<1>17. ASSUME NEW w \in Workers, TakeShutdown(w)
       PROVE  EventsOnce'
  <2>1. 1 \in DOMAIN inbox[w] /\ inbox[w][1][1] = "shutdown"
    BY <1>17, <1>a DEF TakeShutdown, Reads, ClientTypes, WorkTypes
  <2>2. ~Calm'
    BY <2>1, CalmBefore DEF IInv, NoneEnds
  <2> QED BY <1>17, <1>a, <2>2, DiesEventsOnce DEF TakeShutdown
<1>18. ASSUME NEW w \in Workers, FlushTerminal(w)
       PROVE  EventsOnce'
  BY <1>18, FlushEventsOnce
<1>19. ASSUME NEW w \in Workers, NEW kind \in {"result", "error", "cancelled"}, JobEnds(w, kind)
       PROVE  EventsOnce'
  BY <1>19, EndEventsOnce
<1>20. ASSUME NEW w \in Workers, Crash(w)
       PROVE  EventsOnce'
  <2>1. ~Calm'
    BY <1>20 DEF Crash, Mishap, Calm, Excused
  <2> QED BY <1>20, <1>a, <2>1, DiesEventsOnce DEF Crash
<1>21. ASSUME NEW w \in Workers, Freeze(w)
       PROVE  EventsOnce'
  <2>1. \A v \in Workers : life'[v] = "dead" => life[v] = "dead"
    BY <1>21, <1>a DEF Freeze, ClientTypes, WorkTypes
  <2> QED BY <1>21, <2>1, SameEventsOnce DEF Freeze
<1>22. ASSUME UNCHANGED vars
       PROVE  EventsOnce'
  BY <1>22, SameEventsOnce DEF vars
<1> QED BY <1>1, <1>2, <1>3, <1>4, <1>5, <1>6, <1>7, <1>8, <1>9, <1>10, <1>11, <1>12, <1>13,
      <1>14, <1>15, <1>16, <1>17, <1>18, <1>19, <1>20, <1>21, <1>22
        DEF Next, CallStep, Reader, WorkerStep

(* What is put into the queue of the client's worker is there, beside what    *)
(* was.                                                                       *)
LEMMA PutStarts ==
    ASSUME ClientTypes, NEW c \in Command, Put(c), NEW w \in Workers, w = queues,
           life[w] # "dead", NEW j \in Jobs, Starts(w, j) \/ c = <<"start", j>>
    PROVE  Starts(w, j)'
<1>1. /\ DOMAIN inbox'[w] = 1..(Len(inbox[w]) + 1) /\ DOMAIN inbox[w] = 1..Len(inbox[w])
      /\ Len(inbox[w]) \in Nat
      /\ \A i \in 1..Len(inbox[w]) : inbox'[w][i] = inbox[w][i]
      /\ inbox'[w][Len(inbox[w]) + 1] = c
  BY PutFacts
<1>2. CASE Starts(w, j)
  <2>1. PICK i \in DOMAIN inbox[w] : inbox[w][i] = <<"start", j>>
    BY <1>2 DEF Starts
  <2>2. i \in DOMAIN inbox'[w] /\ inbox'[w][i] = <<"start", j>>
    BY <1>1, <2>1
  <2> QED BY <2>2 DEF Starts
<1>3. CASE c = <<"start", j>>
  <2>1. Len(inbox[w]) + 1 \in DOMAIN inbox'[w]
    BY <1>1
  <2> QED BY <1>1, <1>3, <2>1 DEF Starts
<1> QED BY <1>2, <1>3

(* The next job is the first command of a new worker.                         *)
LEMMA RespawnCarries ==
    ASSUME ClientTypes, ClientTypes', NEW kind, FailActive(kind, TRUE), active' # NoJob
    PROVE  Has(process, active)'
<1>1. Respawn(StartNext, TRUE) /\ active' = NextActive
  BY DEF FailActive
<1>2. Fresh \in Workers /\ process' = Fresh /\ inbox'[Fresh] = StartNext
  BY <1>1, RespawnFacts
<1>3. wait # <<>>
  BY <1>1, NextFacts DEF ClientTypes
<1>4. /\ Len(StartNext) = 1 /\ StartNext[1] = <<"start", active'>> /\ StartNext \in Seq(Command)
  BY <1>1, <1>3, NextFacts DEF ClientTypes
<1>5. 1 \in DOMAIN StartNext
  BY <1>4
<1> QED BY <1>2, <1>4, <1>5 DEF Has, Starts

LEMMA SameCarried ==
    ASSUME Carried, [Next]_vars, UNCHANGED <<process, active, fetched, ending, outbox, running, inbox>>
    PROVE  Carried'
  BY CalmBefore DEF Carried, Has, Starts

(* A worker that reads a command goes on with it.                             *)
LEMMA TakeCarries ==
    ASSUME IInv, HandsInv, [Next]_vars, NEW w \in Workers, TakeStart(w) \/ TakeCancel(w)
    PROVE  Carried'
<1> USE DEF jobVars, procVars, readerVars, workVars, callVars, envVars
<1> SUFFICES ASSUME Calm', active # NoJob, Has(process, active)
             PROVE  Has(process, active)'
  <2>1. UNCHANGED <<active, process, fetched, ending>>
    BY DEF TakeStart, TakeCancel, RestUnchanged
  <2>2. UNCHANGED outbox
    BY TakesIdle DEF TakeStart, TakeCancel
  <2> QED BY <2>1, <2>2, CalmBefore DEF HandsInv, Carried
<1>1. ClientTypes /\ Calm
  BY CalmBefore DEF IInv
<1>2. /\ w = process /\ process # NoWorker /\ active \in Jobs
      /\ \A j \in Jobs : Starts(process, j) => j = active
  <2>1. life[w] = "up"
    BY DEF TakeStart, TakeCancel, Reads
  <2> QED BY <1>1, <2>1, CalmServes DEF HandsInv
<1>3. UNCHANGED <<active, process>>
  BY DEF TakeStart, TakeCancel, RestUnchanged
<1>4. PICK kind \in {"start", "cancel"} : Reads(w, kind) /\ inbox' = [inbox EXCEPT ![w] = Tail(@)]
                /\ (TakeStart(w) => kind = "start") /\ (TakeCancel(w) => kind = "cancel")
  <2>1. CASE TakeStart(w)
    <3>1. Reads(w, "start") /\ inbox' = [inbox EXCEPT ![w] = Tail(@)]
      BY <2>1 DEF TakeStart
    <3>2. ~TakeCancel(w)
      BY <3>1 DEF TakeCancel, Reads
    <3> QED BY <3>1, <3>2
  <2>2. CASE ~TakeStart(w)
    BY <2>2 DEF TakeCancel
  <2> QED BY <2>1, <2>2
<1>5. /\ Head(inbox[w]) = inbox[w][1] /\ 1 \in DOMAIN inbox[w]
      /\ inbox[w][1][1] = kind /\ inbox[w][1] \in Command
  BY <1>1, <1>4, ReadFacts
<1>6. CASE TakeStart(w)
  <2>1. PICK j \in Jobs : inbox[w][1] = <<"start", j>>
    BY <1>4, <1>5, <1>6 DEF Command
  <2>2. j = active
    BY <1>2, <1>5, <2>1 DEF Starts
  <2>3. running'[w] = active
    BY <1>1, <1>5, <1>6, <2>1, <2>2, TakesIdle DEF TakeStart, ClientTypes, WorkTypes
  <2> QED BY <1>2, <1>3, <2>3 DEF Has
<1>7. CASE TakeCancel(w)
  <2>1. running' = running
    BY <1>7 DEF TakeCancel
  <2>2. ASSUME NEW i \in DOMAIN inbox[w], inbox[w][i] = <<"start", active>>
        PROVE  \E k \in DOMAIN inbox'[w] : inbox'[w][k] = <<"start", active>>
    <3>1. i # 1
      BY <1>4, <1>5, <1>7, <2>2
    <3>2. inbox[w] \in Seq(Command) /\ inbox'[w] = Tail(inbox[w])
      BY <1>1, <1>4 DEF ClientTypes, WorkTypes
    <3>3. i \in Nat /\ i >= 2 /\ i <= Len(inbox[w])
      BY <3>1, <3>2
    <3>4. i - 1 \in DOMAIN Tail(inbox[w]) /\ Tail(inbox[w])[i - 1] = inbox[w][i]
      BY <3>2, <3>3
    <3> QED BY <2>2, <3>2, <3>4
  <2> QED BY <1>2, <1>3, <2>1, <2>2 DEF Has, Starts
<1> QED BY <1>6, <1>7

(* Every step leaves the active job with a worker or its event on the way.    *)
LEMMA CarriedKept ==
    ASSUME IInv, IInv', HandsInv, ClientUp', [Next]_vars
    PROVE  Carried'
<1> USE DEF jobVars, procVars, readerVars, workVars, callVars, envVars
<1>a. ClientTypes /\ ClientTypes' /\ LineFits /\ ExpiryFits /\ NoneEnds
  BY Zenon DEF IInv
<1>b. Carried /\ ClientUp /\ EventsOnce
  BY DEF HandsInv
<1>1. ASSUME NEW j \in Jobs, EnsureStarted(j)
      PROVE  Carried'
  <2>1. CASE ~Satisfied
    <3>1. Calm' => active' = NoJob
      BY <1>1, <1>b, <2>1, CalmBefore, CalmServes DEF EnsureStarted
    <3> QED BY <3>1 DEF Carried
  <2>2. CASE UNCHANGED <<procVars, readerVars, life, workVars>>
    BY <1>1, <1>b, <2>2, SameCarried DEF EnsureStarted
  <2> QED BY <1>1, <2>1, <2>2 DEF EnsureStarted
<1>2. ASSUME NEW j \in Jobs, StartupReady(j) \/ StartupExpires(j)
      PROVE  Carried'
  BY <1>2, <1>b, SameCarried DEF StartupReady, StartupExpires
<1>3. ASSUME NEW j \in Jobs, StartupKills(j)
      PROVE  Carried'
  <2>1. "expiry" \in happened
    BY <1>3, <1>a DEF StartupKills, ExpiryFits
  <2>2. ~Calm'
    BY <2>1, CalmBefore DEF Quiet
  <2> QED BY <2>2 DEF Carried
<1>4. ASSUME NEW j \in Jobs, Submit(j)
      PROVE  Carried'
  <2>1. CASE active = NoJob
    <3>1. SUFFICES ASSUME Calm' PROVE Has(process, active)'
      BY DEF Carried
    <3>2. /\ Put(<<"start", j>>) /\ <<"start", j>> \in Command
          /\ active' = j /\ UNCHANGED <<process, queues>>
      BY <1>4, <2>1 DEF Submit, Command
    <3>3. process = queues /\ process \in Workers /\ life[process] # "dead"
      <4>1. pc[j] # "new"
        BY <1>4 DEF Submit
      <4>2. process # NoWorker
        BY <1>b, <3>1, <4>1, CalmBefore DEF ClientUp
      <4> QED BY <1>b, <3>1, <4>2, CalmBefore, CalmServes
    <3>4. PICK w \in Workers : w = process
      BY <3>3
    <3>5. Starts(w, j)'
      BY <1>a, <3>2, <3>3, <3>4, PutStarts
    <3> QED BY <3>2, <3>4, <3>5 DEF Has, Starts
  <2>2. CASE active # NoJob
    BY <1>4, <1>b, <2>2, SameCarried DEF Submit
  <2> QED BY <2>1, <2>2
<1>5. ASSUME NEW j \in Jobs, Cancel(j)
      PROVE  Carried'
  <2>1. CASE FailActive("cancelled", TRUE)
    BY <1>a, <2>1, RespawnCarries DEF Carried
  <2>2. CASE UNCHANGED <<active, procVars, readerVars, workVars>>
    BY <1>b, <2>2, SameCarried
  <2>3. CASE /\ Put(<<"cancel", j>>)
             /\ UNCHANGED <<active, process, queues, fetched, outbox, running, ending>>
    <3>1. SUFFICES ASSUME Calm', active # NoJob, Starts(process, active)
                   PROVE  Starts(process, active)'
      BY <1>b, <2>3, CalmBefore DEF Carried, Has
    <3>2. /\ process = queues /\ process \in Workers /\ life[process] # "dead" /\ active \in Jobs
      BY <1>b, <3>1, CalmBefore, CalmServes
    <3>3. PICK w \in Workers, h \in Jobs : w = process /\ h = active
      BY <3>2
    <3>4. <<"cancel", j>> \in Command
      BY DEF Command
    <3>5. Starts(w, h)'
      BY <1>a, <2>3, <3>1, <3>2, <3>3, <3>4, PutStarts
    <3> QED BY <2>3, <3>3, <3>5 DEF Starts
  <2> QED BY <1>5, <2>1, <2>2, <2>3 DEF Cancel
<1>6. ASSUME Fetch
      PROVE  Carried'
  <2>1. /\ reading \in Workers /\ outbox[reading] \in Seq(Event) /\ outbox[reading] # <<>>
    BY <1>6, <1>a DEF Fetch, ClientTypes, WorkTypes
  <2>2. /\ UNCHANGED <<process, active, ending, running, inbox>> /\ fetched = NoEvent
        /\ fetched' = outbox[reading][1]
        /\ \A w \in Workers : w # reading => outbox'[w] = outbox[w]
    BY <1>6, <1>a, <2>1, TailFacts DEF Fetch, ClientTypes, WorkTypes
  <2>3. SUFFICES ASSUME Calm', active # NoJob, outbox[process] # <<>>
                 PROVE  outbox'[process] # <<>> \/ fetched'[2] = active
    BY <1>b, <2>2, CalmBefore DEF Carried, Has, Starts, NoEvent
  <2>4. process \in Workers /\ OwnEvents(process)
    BY <1>b, <2>3, CalmBefore, CalmServes DEF EventsOnce
  <2> QED BY <2>2, <2>3, <2>4 DEF OwnEvents
<1>7. ASSUME DispatchAnswer
      PROVE  Carried'
  <2>1. SUFFICES ASSUME Calm', active' # NoJob PROVE Has(process, active)'
    BY DEF Carried
  <2>2. active # NoJob /\ active' = NextActive /\ UNCHANGED <<process, queues>>
    BY <1>7, <1>a, JobsAssumption DEF DispatchAnswer, ClientTypes, Event
  <2>3. wait # <<>> /\ active' = wait[1] /\ wait[1] \in Jobs
    BY <1>a, <2>1, <2>2, NextFacts DEF ClientTypes
  <2>4. Put(<<"start", wait[1]>>) /\ <<"start", wait[1]>> \in Command
    BY <1>a, <1>7, <2>3, DispatchPuts
  <2>5. process = queues /\ process \in Workers /\ life[process] # "dead"
    BY <1>b, <2>1, <2>2, CalmBefore, CalmServes
  <2>6. PICK w \in Workers, h \in Jobs : w = process /\ h = wait[1]
    BY <2>3, <2>5
  <2>7. Starts(w, h)'
    BY <1>a, <2>4, <2>5, <2>6, PutStarts
  <2> QED BY <2>2, <2>3, <2>6, <2>7 DEF Has, Starts
<1>8. ASSUME DispatchStrands
      PROVE  Carried'
  BY <1>8 DEF DispatchStrands, Carried
<1>9. ASSUME DispatchStale
      PROVE  Carried'
  <2>1. UNCHANGED <<process, active, ending, outbox, running, inbox>> /\ fetched[2] # active
    BY <1>9 DEF DispatchStale
  <2> QED BY <1>b, <2>1, CalmBefore DEF Carried, Has, Starts
<1>10. ASSUME ReaderFindsCrash
       PROVE  Carried'
  <2>1. ~Calm'
    BY <1>10, <1>b, CalmBefore, CalmServes DEF ReaderFindsCrash
  <2> QED BY <2>1 DEF Carried
<1>11. ASSUME ReaderLoops \/ Handshake \/ WatchdogExits \/ Toggle
       PROVE  Carried'
  BY <1>11, <1>b, SameCarried DEF ReaderLoops, Handshake, WatchdogExits, Toggle
<1>12. ASSUME WatchdogTimeout
       PROVE  Carried'
  BY <1>12, <1>a, RespawnCarries DEF WatchdogTimeout, Carried
<1>13. ASSUME Release
       PROVE  Carried'
  BY <1>13 DEF Release, Mishap, Calm, Excused, Carried
<1>14. ASSUME Shutdown
       PROVE  Carried'
  BY <1>14 DEF Shutdown, Carried
<1>15. ASSUME NEW w \in Workers, TakeStart(w) \/ TakeCancel(w)
       PROVE  Carried'
  BY <1>15, TakeCarries
<1>16. ASSUME NEW w \in Workers, TakeShutdown(w)
       PROVE  Carried'
  <2>1. 1 \in DOMAIN inbox[w] /\ inbox[w][1][1] = "shutdown"
    BY <1>16, <1>a DEF TakeShutdown, Reads, ClientTypes, WorkTypes
  <2>2. ~Calm'
    BY <1>a, <2>1, CalmBefore DEF NoneEnds
  <2> QED BY <2>2 DEF Carried
<1>17. ASSUME NEW w \in Workers, NEW kind \in {"result", "error", "cancelled"}, JobEnds(w, kind)
       PROVE  Carried'
  <2>1. /\ UNCHANGED <<process, active, fetched, outbox, running, inbox>> /\ ending[w] = NoEvent
        /\ \A v \in Workers : v # w => ending'[v] = ending[v]
    BY <1>17, <1>a DEF JobEnds, RestUnchanged, ClientTypes, WorkTypes
  <2>2. Calm' /\ active # NoJob => process \in Workers
    BY <1>b, CalmBefore, CalmServes
  <2> QED BY <1>b, <2>1, <2>2, CalmBefore DEF Carried, Has, Starts, NoEvent
<1>18. ASSUME NEW w \in Workers, WorkerIdle(w)
       PROVE  Carried'
  <2>1. /\ UNCHANGED <<process, active, fetched, outbox, ending, inbox>> /\ ending[w] # NoEvent
        /\ \A v \in Workers : v # w => running'[v] = running[v]
    BY <1>18, <1>a DEF WorkerIdle, RestUnchanged, ClientTypes, WorkTypes
  <2>2. Calm' /\ active # NoJob => process \in Workers /\ (process = w => ending[w][2] = active)
    BY <1>b, <2>1, CalmBefore, CalmServes DEF EventsOnce, OwnEvents
  <2> QED BY <1>b, <2>1, <2>2, CalmBefore DEF Carried, Has, Starts
<1>19. ASSUME NEW w \in Workers, FlushTerminal(w)
       PROVE  Carried'
  <2>1. /\ UNCHANGED <<process, active, fetched, running, inbox>> /\ ending[w] \in Event
        /\ outbox[w] \in Seq(Event) /\ outbox'[w] = Append(outbox[w], ending[w])
        /\ \A v \in Workers : v # w => outbox'[v] = outbox[v] /\ ending'[v] = ending[v]
    BY <1>19, <1>a DEF FlushTerminal, RestUnchanged, ClientTypes, WorkTypes
  <2>2. outbox'[w] # <<>>
    BY <2>1
  <2>3. Calm' /\ active # NoJob => process \in Workers
    BY <1>b, CalmBefore, CalmServes
  <2> QED BY <1>b, <2>1, <2>2, <2>3, CalmBefore DEF Carried, Has, Starts
<1>20. ASSUME NEW w \in Workers, Crash(w)
       PROVE  Carried'
  BY <1>20 DEF Crash, Mishap, Calm, Excused, Carried
<1>21. ASSUME NEW w \in Workers, Freeze(w)
       PROVE  Carried'
  BY <1>21, <1>b, SameCarried DEF Freeze
<1>22. ASSUME UNCHANGED vars
       PROVE  Carried'
  BY <1>22, <1>b, SameCarried DEF vars
<1> QED BY <1>1, <1>2, <1>3, <1>4, <1>5, <1>6, <1>7, <1>8, <1>9, <1>10, <1>11, <1>12, <1>13,
      <1>14, <1>15, <1>16, <1>17, <1>18, <1>19, <1>20, <1>21, <1>22
        DEF Next, CallStep, Reader, WorkerStep

LEMMA HandsHold == Spec => [](IInv /\ HandsInv)
<1>1. Init => HandsInv
  BY JobsAssumption DEF Init, HandsInv, ClientUp, EventsOnce, OwnEvents, Carried
<1>2. IInv /\ IInv' /\ HandsInv /\ [Next]_vars => HandsInv'
  BY ClientUpKept, EventsOnceKept, CarriedKept DEF HandsInv
<1> QED BY <1>1, <1>2, Inductive, PTL DEF Spec

-----------------------------------------------------------------------------
(* No job is answered twice, whatever races for it: its own event, cancel,    *)
(* the watchdog, the reader's crash check, shutdown (_emit_error, cancel,     *)
(* _dispatch, _watchdog_loop, shutdown).                                      *)
THEOREM OneAnswer == Spec => []AnsweredOnce
<1>1. IInv => AnsweredOnce
  BY DEF IInv, LineFits
<1> QED BY <1>1, Inductive, PTL

(* A result is of a job whose work a worker finished, a cancellation of one   *)
(* that somebody asked for, though workers are replaced while their events    *)
(* and commands are on the way (_dispatch, _run_worker_job).                  *)
THEOREM AnswersAreTrue == Spec => []AnswerIsOwn
<1>1. IInv => AnswerIsOwn
  BY DEF IInv
<1> QED BY <1>1, Inductive, PTL

(* As long as no worker dies by itself there are never two of them, whichever *)
(* thread replaces it (ensure_started, _kill_worker_unlocked).                *)
THEOREM NeverTwoWorkers == Spec => []OneWorkerUnlessCrash
<1>1. IInv => OneWorkerUnlessCrash
  <2> SUFFICES ASSUME OneAlive, "crash" \notin happened
               PROVE  Cardinality(Alive) <= 1
    BY DEF IInv, OneWorkerUnlessCrash, OneWorker
  <2>1. Alive \subseteq {process}
    BY DEF OneAlive, Alive
  <2>2. IsFiniteSet({process}) /\ Cardinality({process}) = 1
    BY FS_Singleton
  <2>3. Cardinality(Alive) <= Cardinality({process})
    BY <2>1, <2>2, FS_Subset
  <2> QED BY <2>2, <2>3
<1> QED BY <1>1, Inductive, PTL

(* No job is turned away by a worker that is still at another: the terminal   *)
(* event of a job leaves the worker after the job did (infer_worker_main).    *)
THEOREM WorkersNeverRefuse == Spec => []NeverRejected
<1>1. IInv => NeverRejected
  <2> SUFFICES ASSUME ClientTypes, OneAtATime, NEW w \in Workers, Reads(w, "start")
               PROVE  running[w] = NoJob
    BY DEF IInv, NeverRejected
  <2>1. inbox[w] \in Seq(Command) /\ inbox[w] # <<>> /\ Head(inbox[w])[1] = "start"
    BY DEF Reads, ClientTypes, WorkTypes
  <2>2. 1 \in DOMAIN inbox[w] /\ inbox[w][1][1] = "start"
    BY <2>1, TailFacts
  <2>3. Reached(w, 1)
    BY <2>2 DEF Reached
  <2> QED BY <2>2, <2>3 DEF OneAtATime
<1> QED BY <1>1, Inductive, PTL

(* Unless a crash, a changed setting or an expired handshake took the worker  *)
(* from under the line, a job that got an id is in it until it is answered;   *)
(* the active one is with the worker the client has, or its event on the way  *)
(* to a reader that listens, with the watchdog beside it (start_job,          *)
(* ensure_started, _flush_pending_unlocked, cancel, _reader_loop).            *)
THEOREM LineLosesNoJob == Spec => []NoJobLost
<1>1. ASSUME IInv, Quiet, NEW j \in Unanswered
      PROVE  active = j \/ (active # NoJob /\ Contains(wait, j))
  <2>1. (j = active \/ InWait(j)) /\ (active = NoJob => wait = <<>>)
    BY <1>1 DEF IInv, LineFull
  <2>2. ASSUME InWait(j)
        PROVE  active # NoJob
    <3>1. DOMAIN <<>> = {}
      OBVIOUS
    <3> QED BY <2>1, <2>2, <3>1 DEF InWait
  <2> QED BY <2>1, <2>2 DEF InWait, Contains
<1>2. ASSUME IInv, HandsInv, active # NoJob, Calm
      PROVE  /\ process = queues /\ Satisfied /\ Underway
             /\ readerUp /\ watchUp /\ ~stopping
  <2>1. ClientTypes /\ ClientUp /\ EventsOnce /\ Carried
    BY <1>2 DEF IInv, HandsInv
  <2>2. /\ active \in Jobs /\ process # NoWorker
        /\ process = queues /\ process \in Workers /\ Satisfied
    BY <1>2, <2>1, CalmServes
  <2>3. readerUp /\ watchUp /\ ~stopping
    BY <1>2, <2>1, <2>2 DEF ClientUp, Calm, Excused
  <2>4. ASSUME outbox[process] # <<>>
        PROVE  \E i \in DOMAIN outbox[process] : outbox[process][i][2] = active
    <3>1. OwnEvents(process)
      BY <1>2, <2>1, <2>2 DEF EventsOnce
    <3>2. 1 \in DOMAIN outbox[process]
      BY <2>1, <2>2, <2>4 DEF ClientTypes, WorkTypes
    <3> QED BY <2>4, <3>1, <3>2 DEF OwnEvents
  <2>5. Starts(process, active) => Contains(inbox[process], <<"start", active>>)
    <3>1. inbox[process] \in Seq(Command)
      BY <2>1, <2>2 DEF ClientTypes, WorkTypes
    <3>2. DOMAIN inbox[process] = 1..Len(inbox[process])
      BY <3>1
    <3> QED BY <3>2 DEF Starts, Contains
  <2> QED BY <1>2, <2>1, <2>2, <2>3, <2>4, <2>5 DEF Carried, Has, Underway
<1>3. IInv /\ HandsInv => NoJobLost
  BY <1>1, <1>2 DEF NoJobLost, Quiet, Calm
<1> QED BY <1>3, HandsHold, PTL

(* With the same exceptions the unanswered jobs, and those that run anywhere, *)
(* are of one type: no two tools share the device (start_job).                *)
THEOREM ToolsNeverMix == Spec => []OneTool
<1>1. IInv => OneTool
  <2> SUFFICES ASSUME IInv, Quiet
               PROVE  /\ \A i, j \in Unanswered : jobType[i] = jobType[j]
                      /\ \A v, w \in Alive : running[v] # NoJob /\ running[w] # NoJob =>
                            jobType[running[v]] = jobType[running[w]]
    BY DEF OneTool, Quiet
  <2>1. \A j \in Unanswered : jobType[j] = jobType[active]
    <3> SUFFICES ASSUME NEW j \in Unanswered
                 PROVE  jobType[j] = jobType[active]
      OBVIOUS
    <3>1. j = active \/ InWait(j)
      BY DEF IInv, LineFull
    <3> QED BY <3>1 DEF IInv, LineFull, InWait
  <2>2. \A v, w \in Alive : v = w
    BY DEF IInv, OneAlive, Alive, Quiet
  <2> QED BY <2>1, <2>2
<1> QED BY <1>1, Inductive, PTL

-----------------------------------------------------------------------------
(* The line is in the order of acceptance.                                    *)
LineOrder ==
    /\ accepted \in Seq(Jobs)
    /\ \A p \in DOMAIN accepted : pc[accepted[p]] = "accepted"
    /\ \A a, b \in DOMAIN wait : a < b =>
          \A p, q \in DOMAIN accepted : accepted[p] = wait[a] /\ accepted[q] = wait[b] => p < q

(* What a step does to the line: one joins at its end, or leaves it, or its   *)
(* head is taken out.                                                         *)
Admits(j) ==
    /\ pc[j] = "submitting" /\ pc'[j] = "accepted"
    /\ accepted' = Append(accepted, j)
    /\ \/ active = NoJob /\ active' = j /\ UNCHANGED wait
       \/ wait' = Append(wait, j) /\ UNCHANGED active
Shrinks ==
    /\ UNCHANGED accepted
    /\ \/ UNCHANGED <<active, wait>>
       \/ \E i \in DOMAIN wait : wait' = RemoveAt(wait, i) /\ UNCHANGED active
       \/ wait' = NextWait /\ active' \in {NextActive, NoJob}
       \/ wait' = <<>> /\ active' = NoJob
LineMoves == Shrinks \/ \E j \in Jobs : Admits(j)

(* No step does anything else.                                                *)
LEMMA StepMoves ==
    ASSUME ClientTypes, [Next]_vars
    PROVE  LineMoves
<1> USE DEF jobVars, procVars, readerVars, workVars, callVars, envVars
<1>1. ASSUME NEW j \in Jobs, EnsureStarted(j) \/ StartupReady(j) \/ StartupExpires(j) \/ StartupKills(j)
      PROVE  LineMoves
  BY <1>1 DEF EnsureStarted, StartupReady, StartupExpires, StartupKills, LineMoves, Shrinks
<1>2. ASSUME NEW j \in Jobs, Submit(j)
      PROVE  LineMoves
  <2>1. CASE accepted' = Append(accepted, j)
    <3>1. pc[j] = "submitting" /\ pc'[j] = "accepted"
      BY <1>2, <2>1 DEF Submit, ClientTypes
    <3>2. \/ active = NoJob /\ active' = j /\ UNCHANGED wait
          \/ wait' = Append(wait, j) /\ UNCHANGED active
          \/ UNCHANGED <<active, wait, accepted>>
      BY <1>2 DEF Submit
    <3> QED BY <2>1, <3>1, <3>2 DEF LineMoves, Admits, Shrinks
  <2>2. CASE UNCHANGED <<active, wait, accepted>>
    BY <2>2 DEF LineMoves, Shrinks
  <2> QED BY <1>2, <2>1, <2>2 DEF Submit
<1>3. ASSUME NEW j \in Jobs, Cancel(j)
      PROVE  LineMoves
  <2>1. UNCHANGED accepted
    BY <1>3 DEF Cancel
  <2>2. \/ UNCHANGED <<active, wait>>
        \/ \E i \in DOMAIN wait : wait' = RemoveAt(wait, i) /\ UNCHANGED active
        \/ wait' = NextWait /\ active' = NextActive
    BY <1>3 DEF Cancel, FailActive
  <2> QED BY <2>1, <2>2 DEF LineMoves, Shrinks
<1>4. ASSUME DispatchAnswer \/ ReaderFindsCrash \/ WatchdogTimeout
      PROVE  LineMoves
  BY <1>4 DEF DispatchAnswer, ReaderFindsCrash, WatchdogTimeout, FailActive, LineMoves, Shrinks
<1>5. ASSUME DispatchStrands
      PROVE  LineMoves
  BY <1>5 DEF DispatchStrands, NextWait, LineMoves, Shrinks
<1>6. ASSUME Fetch \/ DispatchStale \/ ReaderLoops \/ Handshake \/ WatchdogExits \/ Release \/ Toggle
      PROVE  LineMoves
  BY <1>6 DEF Fetch, DispatchStale, ReaderLoops, Handshake, WatchdogExits, Release, Toggle,
              LineMoves, Shrinks
<1>7. ASSUME Shutdown
      PROVE  LineMoves
  BY <1>7 DEF Shutdown, LineMoves, Shrinks
<1>8. ASSUME NEW w \in Workers, TakeStart(w) \/ TakeCancel(w) \/ TakeShutdown(w)
                                 \/ WorkerIdle(w) \/ FlushTerminal(w)
      PROVE  LineMoves
  BY <1>8 DEF TakeStart, TakeCancel, TakeShutdown, WorkerIdle, FlushTerminal, RestUnchanged,
              LineMoves, Shrinks
<1>9. ASSUME NEW w \in Workers, NEW kind \in {"result", "error", "cancelled"}, JobEnds(w, kind)
      PROVE  LineMoves
  BY <1>9 DEF JobEnds, RestUnchanged, LineMoves, Shrinks
<1>10. ASSUME NEW w \in Workers, Crash(w) \/ Freeze(w)
       PROVE  LineMoves
  BY <1>10 DEF Crash, Freeze, LineMoves, Shrinks
<1>11. ASSUME UNCHANGED vars
       PROVE  LineMoves
  BY <1>11 DEF vars, LineMoves, Shrinks
<1> QED BY <1>1, <1>2, <1>3, <1>4, <1>5, <1>6, <1>7, <1>8, <1>9, <1>10, <1>11
        DEF Next, CallStep, Reader, WorkerStep

(* A line that shrinks keeps its order.                                       *)
LEMMA ShrinkKeepsOrder ==
    ASSUME ClientTypes, Shrinks
    PROVE  \A a, b \in DOMAIN wait' : a < b =>
              \E c, d \in DOMAIN wait : c < d /\ wait[c] = wait'[a] /\ wait[d] = wait'[b]
<1>0. DOMAIN wait \subseteq Nat /\ DOMAIN <<>> = {}
  BY DEF ClientTypes
<1>1. CASE UNCHANGED wait
  BY <1>1
<1>2. ASSUME NEW i \in DOMAIN wait, wait' = RemoveAt(wait, i)
      PROVE  \A a, b \in DOMAIN wait' : a < b =>
                \E c, d \in DOMAIN wait : c < d /\ wait[c] = wait'[a] /\ wait[d] = wait'[b]
  <2> SUFFICES ASSUME NEW a \in DOMAIN wait', NEW b \in DOMAIN wait', a < b
               PROVE  \E c, d \in DOMAIN wait : c < d /\ wait[c] = wait'[a] /\ wait[d] = wait'[b]
    OBVIOUS
  <2>1. PICK c \in DOMAIN wait : wait'[a] = wait[c] /\ a \in Nat /\ c = (IF a < i THEN a ELSE a + 1)
    BY <1>2, RemoveFacts DEF ClientTypes
  <2>2. PICK d \in DOMAIN wait : wait'[b] = wait[d] /\ b \in Nat /\ d = (IF b < i THEN b ELSE b + 1)
    BY <1>2, RemoveFacts DEF ClientTypes
  <2>3. c < d
    BY <1>0, <2>1, <2>2
  <2> QED BY <2>1, <2>2, <2>3
<1>3. CASE wait' = NextWait
  <2> SUFFICES ASSUME NEW a \in DOMAIN wait', NEW b \in DOMAIN wait', a < b
               PROVE  \E c, d \in DOMAIN wait : c < d /\ wait[c] = wait'[a] /\ wait[d] = wait'[b]
    OBVIOUS
  <2>1. a \in Nat /\ a + 1 \in DOMAIN wait /\ wait'[a] = wait[a + 1]
    BY <1>3, NextFacts DEF ClientTypes
  <2>2. b \in Nat /\ b + 1 \in DOMAIN wait /\ wait'[b] = wait[b + 1]
    BY <1>3, NextFacts DEF ClientTypes
  <2>3. a + 1 < b + 1
    BY <2>1, <2>2
  <2> QED BY <2>1, <2>2, <2>3
<1>4. CASE wait' = <<>>
  BY <1>0, <1>4
<1> QED BY <1>1, <1>2, <1>3, <1>4 DEF Shrinks

(* The job that is admitted is behind all the others, in both lists.          *)
LEMMA AdmitKeepsOrder ==
    ASSUME ClientTypes, LineFits, LineStep, LineOrder, NEW j \in Jobs, Admits(j)
    PROVE  LineOrder'
<1>0. \A c \in DOMAIN wait : wait[c] # j /\ c \in Nat
  <2> SUFFICES ASSUME NEW c \in DOMAIN wait
               PROVE  wait[c] # j /\ c \in Nat
    OBVIOUS
  <2>1. c \in Nat
    BY DEF ClientTypes
  <2>2. ASSUME wait[c] = j PROVE FALSE
    <3>1. InWait(j)
      BY <2>2 DEF InWait
    <3>2. pc[j] = "accepted"
      BY <3>1 DEF LineFits
    <3>3. pc[j] = "submitting"
      BY DEF Admits
    <3> QED BY <3>2, <3>3
  <2> QED BY <2>1, <2>2
<1>1. /\ accepted' \in Seq(Jobs)
      /\ DOMAIN accepted' = 1..(Len(accepted) + 1) /\ DOMAIN accepted = 1..Len(accepted)
      /\ Len(accepted) \in Nat
      /\ \A p \in 1..Len(accepted) : accepted'[p] = accepted[p]
      /\ accepted'[Len(accepted) + 1] = j
  BY AppendFacts DEF LineOrder, Admits
<1>2. ASSUME NEW p \in DOMAIN accepted'
      PROVE  \/ p = Len(accepted) + 1 /\ accepted'[p] = j
             \/ p \in DOMAIN accepted /\ accepted'[p] = accepted[p] /\ accepted[p] # j
                /\ p < Len(accepted) + 1 /\ accepted[p] \in Jobs
  BY <1>1 DEF LineOrder, Admits
<1>3. \A p \in DOMAIN accepted' : pc'[accepted'[p]] = "accepted"
  BY <1>2 DEF LineOrder, LineStep, Admits
<1>4. ASSUME NEW a \in DOMAIN wait', NEW b \in DOMAIN wait', a < b,
             NEW p \in DOMAIN accepted', NEW q \in DOMAIN accepted',
             accepted'[p] = wait'[a], accepted'[q] = wait'[b]
      PROVE  p < q
  <2>1. \A c \in DOMAIN wait : wait[c] # j /\ c \in Nat
    BY <1>0
  <2>2. /\ a \in DOMAIN wait /\ wait'[a] = wait[a]
        /\ \/ b \in DOMAIN wait /\ wait'[b] = wait[b]
           \/ wait'[b] = j
    <3>1. CASE UNCHANGED wait
      BY <3>1
    <3>2. CASE wait' = Append(wait, j)
      <4>1. /\ DOMAIN wait' = 1..(Len(wait) + 1) /\ DOMAIN wait = 1..Len(wait) /\ Len(wait) \in Nat
            /\ \A i \in 1..Len(wait) : wait'[i] = wait[i]
            /\ wait'[Len(wait) + 1] = j
        BY <3>2, AppendFacts DEF ClientTypes
      <4>2. a \in 1..Len(wait) /\ (b \in 1..Len(wait) \/ b = Len(wait) + 1)
        BY <1>4, <4>1
      <4> QED BY <4>1, <4>2
    <3> QED BY <3>1, <3>2 DEF Admits
  <2>3. p \in DOMAIN accepted /\ accepted[p] = wait[a] /\ p < Len(accepted) + 1
    BY <1>2, <1>4, <2>1, <2>2
  <2>4. CASE wait'[b] = j
    BY <1>2, <1>4, <2>3, <2>4
  <2>5. CASE b \in DOMAIN wait /\ wait'[b] = wait[b]
    <3>1. q \in DOMAIN accepted /\ accepted[q] = wait[b]
      BY <1>2, <1>4, <2>1, <2>5
    <3>2. \A c, d \in DOMAIN wait : c < d =>
             \A k, l \in DOMAIN accepted : accepted[k] = wait[c] /\ accepted[l] = wait[d] => k < l
      BY DEF LineOrder
    <3>3. a \in DOMAIN wait /\ b \in DOMAIN wait /\ a < b
      BY <1>4, <2>2, <2>5
    <3> QED BY <2>3, <3>1, <3>2, <3>3, Zenon
  <2> QED BY <2>2, <2>4, <2>5
<1> QED BY <1>1, <1>3, <1>4 DEF LineOrder

(* Every step keeps the order.                                                *)
LEMMA LineOrderKept == IInv /\ LineOrder /\ [Next]_vars => LineOrder'
<1> SUFFICES ASSUME IInv, LineOrder, [Next]_vars
             PROVE  LineOrder'
  OBVIOUS
<1>1. ClientTypes /\ LineFits /\ LineStep /\ LineMoves
  BY StepLine, StepMoves DEF IInv
<1>2. CASE Shrinks
  <2>1. accepted' = accepted /\ accepted \in Seq(Jobs)
    BY <1>2 DEF Shrinks, LineOrder
  <2>2. \A p \in DOMAIN accepted : pc'[accepted[p]] = "accepted"
    <3>1. \A p \in DOMAIN accepted : accepted[p] \in Jobs
      BY <2>1
    <3> QED BY <1>1, <3>1 DEF LineStep, LineOrder
  <2>3. ASSUME NEW a \in DOMAIN wait', NEW b \in DOMAIN wait', a < b,
               NEW p \in DOMAIN accepted, NEW q \in DOMAIN accepted,
               accepted[p] = wait'[a], accepted[q] = wait'[b]
        PROVE  p < q
    <3>1. PICK c \in DOMAIN wait, d \in DOMAIN wait : c < d /\ wait[c] = wait'[a] /\ wait[d] = wait'[b]
      BY <1>1, <1>2, <2>3, ShrinkKeepsOrder
    <3> QED BY <2>3, <3>1 DEF LineOrder
  <2> QED BY <2>1, <2>2, <2>3 DEF LineOrder
<1>3. ASSUME NEW j \in Jobs, Admits(j)
      PROVE  LineOrder'
  BY <1>1, <1>3, AdmitKeepsOrder
<1> QED BY <1>1, <1>2, <1>3 DEF LineMoves

(* Jobs become active in the order in which start_job accepted them, unless a *)
(* worker was taken from under the line (_flush_pending_unlocked, cancel).    *)
THEOREM FirstInFirstOut == Spec => Fifo
<1>1. Init => LineOrder
  BY DEF Init, LineOrder
<1>2. Spec => []LineOrder
  BY <1>1, LineOrderKept, Inductive, PTL DEF Spec
<1>3. ASSUME IInv, LineOrder, [Next]_vars, Quiet', active' \notin {active, NoJob},
             NEW p \in DOMAIN accepted', NEW q \in DOMAIN accepted',
             accepted'[p] = active', accepted'[q] \in Range(wait')
      PROVE  p < q
  <2>1. ClientTypes /\ LineFull /\ LineMoves /\ Quiet
    BY <1>3, StepMoves, QuietBefore DEF IInv
  <2>2. PICK b \in DOMAIN wait' : wait'[b] = accepted'[q]
    BY <1>3 DEF Range
  <2>3. CASE wait' = NextWait /\ active' = NextActive /\ UNCHANGED accepted
    <3>1. b \in Nat /\ b + 1 \in DOMAIN wait /\ b + 1 # 1 /\ wait'[b] = wait[b + 1]
      BY <2>1, <2>2, <2>3, NextFacts DEF ClientTypes
    <3>2. NextActive = wait[1] /\ 1 \in DOMAIN wait
      <4>1. wait # <<>>
        BY <1>3, <2>1, <2>3, NextFacts DEF ClientTypes
      <4> QED BY <2>1, <4>1, NextFacts DEF ClientTypes
    <3>3. 1 < b + 1
      BY <3>1
    <3> QED BY <1>3, <2>2, <2>3, <3>1, <3>2, <3>3 DEF LineOrder
  <2>4. CASE active = NoJob /\ UNCHANGED wait
    <3>1. DOMAIN <<>> = {}
      OBVIOUS
    <3> QED BY <2>1, <2>2, <2>4, <3>1 DEF LineFull
  <2> QED BY <1>3, <2>1, <2>3, <2>4 DEF LineMoves, Shrinks, Admits
<1>4. IInv /\ LineOrder /\ [Next]_vars =>
         [Quiet' /\ active' \notin {active, NoJob} =>
             \A p, q \in DOMAIN accepted' :
                 accepted'[p] = active' /\ accepted'[q] \in Range(wait') => p < q]_vars
  BY <1>3
<1>5. Quiet' <=> happened' \cap {"crash", "toggle", "expiry"} = {}
  BY DEF Quiet
<1> QED BY <1>2, <1>4, <1>5, Inductive, PTL DEF Spec, Fifo

-----------------------------------------------------------------------------
(* After a crash: a worker besides the client's.                              *)

Other(w) == life[w] # "dead" /\ w # process
OneOther ==
    /\ \A v, w \in Workers : Other(v) /\ Other(w) => v = w
    /\ (\E w \in Workers : Other(w)) => process = NoWorker \/ life[process] # "dead"
    /\ process # NoWorker => Sound(process)

(* A new worker is the client's, or the only other one.                       *)
LEMMA RespawnLeavesOne ==
    ASSUME ClientTypes, OneOther, NEW first, NEW held \in BOOLEAN, Respawn(first, held),
           \A i \in DOMAIN first : first[i][1] # "shutdown",
           held \/ (process # NoWorker /\ life[process] = "dead")
    PROVE  OneOther'
<1>1. /\ Fresh \in Workers /\ Fresh # process /\ Fresh # NoWorker
      /\ process' = IF held THEN Fresh ELSE NoWorker
      /\ \A v \in Workers :
            life'[v] = IF v = Fresh THEN "up" ELSE IF v = process THEN "dead" ELSE life[v]
      /\ inbox'[Fresh] = first
  BY RespawnFacts
<1>2. CASE held
  <2>1. \A v \in Workers : Other(v)' => Other(v)
    BY <1>1, <1>2 DEF Other
  <2>2. process' # NoWorker /\ life'[process'] # "dead" /\ SoundNext(process')
    BY <1>1, <1>2 DEF SoundNext
  <2> QED BY <2>1, <2>2 DEF OneOther, Sound, SoundNext
<1>3. CASE ~held
  <2>1. \A v \in Workers : ~Other(v)
    BY <1>3 DEF OneOther
  <2>2. \A v \in Workers : Other(v)' => v = Fresh
    BY <1>1, <2>1 DEF Other
  <2> QED BY <1>1, <1>3, <2>2 DEF OneOther
<1> QED BY <1>2, <1>3

(* The client's worker ends: it has none.                                     *)
LEMMA KillLeavesOne ==
    ASSUME ClientTypes, OneOther, Dies(process), process' = NoWorker
    PROVE  OneOther'
<1>1. \A v \in Workers : life'[v] = IF v = process THEN "dead" ELSE life[v]
  BY DiesFacts DEF ClientTypes
<1>2. \A v \in Workers : Other(v)' => Other(v)
  BY <1>1 DEF Other
<1> QED BY <1>2 DEF OneOther

(* The client's worker is never told to end.                                  *)
LEMMA StaysSound ==
    ASSUME ClientTypes, WorkersFit, LineFits, OneOther, [Next]_vars, process # NoWorker
    PROVE  SoundNext(process)
<1>1. process \in Workers /\ Sound(process)
  BY DEF ClientTypes, OneOther
<1>2. ASSUME NEW i \in DOMAIN inbox'[process]
      PROVE  inbox'[process][i][1] # "shutdown"
  <2>1. \/ \E k \in DOMAIN inbox[process] : inbox[process][k] = inbox'[process][i]
        \/ NewCommand(process, inbox'[process][i])
    BY <1>1, <1>2, StepCommands
  <2> QED BY <1>1, <2>1 DEF NewCommand, NewStart, Sound
<1> QED BY <1>2 DEF SoundNext

(* A step that leaves the client its worker leaves the others as they are.    *)
LEMMA SameLeavesOne ==
    ASSUME ClientTypes, WorkersFit, LineFits, OneOther, [Next]_vars, process' = process,
           \A v \in Workers : life'[v] = "dead" <=> life[v] = "dead"
    PROVE  OneOther'
<1>1. \A v \in Workers : Other(v)' <=> Other(v)
  BY DEF Other
<1>2. process # NoWorker => SoundNext(process)
  BY StaysSound
<1>3. process # NoWorker => (life'[process] = "dead" <=> life[process] = "dead")
  BY DEF ClientTypes
<1> QED BY <1>1, <1>2, <1>3 DEF OneOther, Sound, SoundNext

LEMMA OneOtherKept ==
    ASSUME ClientTypes, WorkersFit, LineFits, OneAlive, OneOther, [Next]_vars
    PROVE  OneOther'
<1> USE DEF jobVars, procVars, readerVars, workVars, callVars, envVars
<1>1. \A i \in DOMAIN StartNext : StartNext[i][1] # "shutdown"
  BY StartNextFacts
<1>2. \A i \in DOMAIN <<>> : <<>>[i][1] # "shutdown"
  OBVIOUS
<1>3. CASE UNCHANGED <<process, life>>
  BY <1>3, SameLeavesOne
<1>4. ASSUME NEW j \in Jobs, EnsureStarted(j)
      PROVE  OneOther'
  BY <1>2, <1>3, <1>4, RespawnLeavesOne DEF EnsureStarted
<1>5. ASSUME NEW j \in Jobs, Cancel(j)
      PROVE  OneOther'
  <2>1. FailActive("cancelled", TRUE) \/ UNCHANGED <<process, life>>
    BY <1>5 DEF Cancel
  <2> QED BY <1>1, <1>3, <2>1, RespawnLeavesOne DEF FailActive
<1>6. CASE WatchdogTimeout
  BY <1>1, <1>6, RespawnLeavesOne DEF WatchdogTimeout, FailActive
<1>7. CASE ReaderFindsCrash
  BY <1>1, <1>7, RespawnLeavesOne DEF ReaderFindsCrash, FailActive
<1>8. CASE (\E j \in Jobs : StartupKills(j)) \/ DispatchStrands \/ Release
  BY <1>8, KillLeavesOne DEF StartupKills, DispatchStrands, Release, Kill
<1>9. CASE Shutdown
  <2>1. CASE process # NoWorker
    BY <1>9, <2>1, KillLeavesOne DEF Shutdown
  <2>2. CASE process = NoWorker
    BY <1>3, <1>9, <2>2 DEF Shutdown
  <2> QED BY <2>1, <2>2
<1>10. ASSUME NEW w \in Workers, TakeShutdown(w)
       PROVE  OneOther'
  <2>1. inbox[w] \in Seq(Command) /\ inbox[w] # <<>> /\ Head(inbox[w])[1] = "shutdown"
    BY <1>10 DEF TakeShutdown, Reads, ClientTypes, WorkTypes
  <2>2. 1 \in DOMAIN inbox[w] /\ inbox[w][1][1] = "shutdown"
    BY <2>1, TailFacts
  <2>3. w # process /\ process' = process
    BY <1>10, <2>2, WorkersAssumption DEF TakeShutdown, RestUnchanged, OneOther, Sound, Workers, NoWorker
  <2>4. \A v \in Workers : /\ life'[v] = IF v = w THEN "dead" ELSE life[v]
                           /\ inbox'[v] = IF v = w THEN <<>> ELSE inbox[v]
    BY <1>10, DiesFacts DEF TakeShutdown
  <2>5. \A v \in Workers : Other(v)' => Other(v)
    BY <2>3, <2>4 DEF Other
  <2>6. process # NoWorker => life'[process] = life[process] /\ Sound(process)'
    BY <2>3, <2>4 DEF OneOther, Sound, ClientTypes
  <2> QED BY <2>3, <2>5, <2>6 DEF OneOther
<1>11. ASSUME NEW w \in Workers, Crash(w)
       PROVE  OneOther'
  <2>1. "crash" \notin happened /\ Dies(w) /\ process' = process
    BY <1>11 DEF Crash, Mishap
  <2>2. \A v \in Workers : ~Other(v)
    BY <2>1 DEF OneAlive, Other
  <2>3. \A v \in Workers : life'[v] = IF v = w THEN "dead" ELSE life[v]
    BY <2>1, DiesFacts
  <2>4. \A v \in Workers : ~Other(v)'
    BY <2>1, <2>2, <2>3 DEF Other
  <2>5. process # NoWorker => SoundNext(process)
    BY StaysSound
  <2> QED BY <2>1, <2>4, <2>5 DEF OneOther, Sound, SoundNext
<1>12. ASSUME NEW w \in Workers, Freeze(w)
       PROVE  OneOther'
  <2>1. \A v \in Workers : life'[v] = "dead" <=> life[v] = "dead"
    BY <1>12 DEF Freeze, ClientTypes, WorkTypes
  <2> QED BY <1>12, <2>1, SameLeavesOne DEF Freeze
<1>13. Fetch \/ DispatchAnswer \/ DispatchStale \/ ReaderLoops \/ Handshake \/ WatchdogExits \/ Toggle
           \/ UNCHANGED vars => UNCHANGED <<process, life>>
  BY DEF Fetch, DispatchAnswer, DispatchStale, ReaderLoops, Handshake, WatchdogExits, Toggle, vars
<1>14. ASSUME NEW j \in Jobs, StartupReady(j) \/ StartupExpires(j) \/ Submit(j)
       PROVE  UNCHANGED <<process, life>>
  BY <1>14 DEF StartupReady, StartupExpires, Submit
<1>15. ASSUME NEW w \in Workers, TakeStart(w) \/ TakeCancel(w) \/ WorkerIdle(w) \/ FlushTerminal(w)
                                  \/ \E kind \in {"result", "error", "cancelled"} : JobEnds(w, kind)
       PROVE  UNCHANGED <<process, life>>
  BY <1>15 DEF TakeStart, TakeCancel, WorkerIdle, FlushTerminal, JobEnds, RestUnchanged
<1> QED BY <1>3, <1>4, <1>5, <1>6, <1>7, <1>8, <1>9, <1>10, <1>11, <1>12, <1>13, <1>14, <1>15
        DEF Next, CallStep, Reader, WorkerStep

LEMMA OneOtherHolds == Spec => []OneOther
<1>1. Init => OneOther
  BY DEF Init, OneOther, Other
<1>2. IInv /\ OneOther /\ [Next]_vars => OneOther'
  BY OneOtherKept DEF IInv
<1> QED BY <1>1, <1>2, Inductive, PTL DEF Spec

(* "never two on the same device": where it fails, after a crash, there are   *)
(* two, and not a third: _read_events forgets a worker only when it found the *)
(* client's dead, and by then there is no other.                              *)
THEOREM NeverThreeWorkers == Spec => []TwoWorkers
<1>1. ClientTypes /\ OneOther => TwoWorkers
  <2> SUFFICES ASSUME ClientTypes, OneOther PROVE Cardinality(Alive) <= 2
    BY DEF TwoWorkers
  <2>1. PICK o : \A w \in Workers : Other(w) => w = o
    BY DEF OneOther
  <2>2. Alive \subseteq {o, process}
    BY <2>1 DEF Alive, Other
  <2>3. IsFiniteSet({o, process}) /\ Cardinality({o, process}) <= 2
    <3>1. IsFiniteSet({o}) /\ Cardinality({o}) = 1
      BY FS_Singleton
    <3>2. {o, process} = {o} \cup {process}
      OBVIOUS
    <3>3. /\ IsFiniteSet({o} \cup {process})
          /\ Cardinality({o} \cup {process}) = IF process \in {o} THEN Cardinality({o})
                                                                  ELSE Cardinality({o}) + 1
      BY <3>1, FS_AddElement
    <3> QED BY <3>1, <3>2, <3>3
  <2>4. Cardinality(Alive) <= Cardinality({o, process}) /\ IsFiniteSet(Alive)
    BY <2>2, <2>3, FS_Subset
  <2>5. Cardinality(Alive) \in Nat /\ Cardinality({o, process}) \in Nat
    BY <2>3, <2>4, FS_CardinalityType
  <2> QED BY <2>3, <2>4, <2>5
<1>2. IInv => ClientTypes
  BY DEF IInv
<1> QED BY <1>1, <1>2, Inductive, OneOtherHolds, PTL

(* So four names are enough for the workers of any behaviour: reusing them    *)
(* never blocks _spawn_unlocked.                                              *)
THEOREM NamesNeverRunOut == Spec => []NamesSuffice
<1>1. ClientTypes /\ WorkersFit /\ OneOther => NamesSuffice
  <2> SUFFICES ASSUME ClientTypes, WorkersFit, OneOther, NumWorkers >= 4, Spare = {}
               PROVE  FALSE
    BY DEF NamesSuffice
  <2>1. PICK o : \A w \in Workers : Other(w) => w = o
    BY DEF OneOther
  <2>2. \A w \in Workers : w \in {o, queues, reading}
    <3>1. \A w \in Workers : life[w] # "dead" \/ w \in {process, queues, reading}
      BY DEF Spare
    <3>2. \A w \in Workers : w = process => w = queues
      BY WorkersAssumption DEF WorkersFit, Workers, NoWorker
    <3> QED BY <2>1, <3>1, <3>2 DEF Other
  <2>3. {1, 2, 3, 4} \subseteq Workers
    BY WorkersAssumption DEF Workers
  <2> QED BY <2>2, <2>3
<1>2. IInv => ClientTypes /\ WorkersFit
  BY DEF IInv
<1> QED BY <1>1, <1>2, Inductive, OneOtherHolds, PTL

-----------------------------------------------------------------------------
(* The types that the arguments above do not need.                            *)

SwitchTypes ==
    /\ ready \in BOOLEAN /\ hw \in BOOLEAN /\ hwAccel \in BOOLEAN /\ stopping \in BOOLEAN
    /\ shutdownDone \in BOOLEAN /\ readerUp \in BOOLEAN /\ watchUp \in BOOLEAN
SetTypes == asked \subseteq Jobs /\ completed \subseteq Jobs /\ happened \subseteq Mishaps

LEMMA SwitchTypesKept ==
    ASSUME SwitchTypes, [Next]_vars
    PROVE  SwitchTypes'
<1> USE DEF jobVars, procVars, readerVars, workVars, callVars, envVars
<1>1. ASSUME NEW first, NEW held, Respawn(first, held), UNCHANGED <<hw, shutdownDone>>
      PROVE  SwitchTypes'
  BY <1>1 DEF Respawn, SwitchTypes
<1>2. ASSUME Kill, UNCHANGED <<hw, shutdownDone, readerUp, watchUp>>
      PROVE  SwitchTypes'
  BY <1>2 DEF Kill, SwitchTypes
<1>3. ASSUME UNCHANGED <<procVars, hw, shutdownDone, readerUp, watchUp>>
      PROVE  SwitchTypes'
  BY <1>3 DEF SwitchTypes
<1>4. ASSUME NEW j \in Jobs, EnsureStarted(j)
      PROVE  SwitchTypes'
  BY <1>1, <1>3, <1>4 DEF EnsureStarted
<1>5. ASSUME NEW j \in Jobs, Cancel(j)
      PROVE  SwitchTypes'
  BY <1>1, <1>3, <1>5 DEF Cancel, FailActive
<1>6. CASE WatchdogTimeout \/ ReaderFindsCrash
  BY <1>1, <1>6 DEF WatchdogTimeout, ReaderFindsCrash, FailActive
<1>7. CASE (\E j \in Jobs : StartupKills(j)) \/ Release
  BY <1>2, <1>7 DEF StartupKills, Release
<1>8. CASE DispatchStrands \/ Shutdown
  BY <1>8 DEF DispatchStrands, Shutdown, SwitchTypes
<1>9. CASE ReaderLoops \/ Handshake \/ WatchdogExits \/ Toggle
  BY <1>9 DEF ReaderLoops, Handshake, WatchdogExits, Toggle, SwitchTypes
<1>10. CASE Fetch \/ DispatchAnswer \/ DispatchStale \/ UNCHANGED vars
  BY <1>3, <1>10 DEF Fetch, DispatchAnswer, DispatchStale, vars
<1>11. ASSUME NEW j \in Jobs, StartupReady(j) \/ StartupExpires(j) \/ Submit(j)
       PROVE  SwitchTypes'
  BY <1>3, <1>11 DEF StartupReady, StartupExpires, Submit
<1>12. ASSUME NEW w \in Workers, WorkerStep(w) \/ Crash(w) \/ Freeze(w)
       PROVE  SwitchTypes'
  BY <1>3, <1>12 DEF WorkerStep, TakeStart, TakeCancel, TakeShutdown, WorkerIdle, FlushTerminal, JobEnds,
         RestUnchanged, Crash, Freeze
<1> QED BY <1>4, <1>5, <1>6, <1>7, <1>8, <1>9, <1>10, <1>11, <1>12
        DEF Next, CallStep, Reader

LEMMA SetTypesKept ==
    ASSUME ClientTypes, SetTypes, [Next]_vars
    PROVE  SetTypes'
<1> USE DEF jobVars, procVars, readerVars, workVars, callVars, envVars
<1>1. ASSUME NEW j \in Jobs, Cancel(j)
      PROVE  SetTypes'
  <2>1. asked' = asked \cup {j} /\ UNCHANGED <<completed, happened>>
    BY <1>1 DEF Cancel, FailActive, Respawn
  <2> QED BY <2>1 DEF SetTypes
<1>2. ASSUME NEW w \in Workers, NEW kind \in {"result", "error", "cancelled"}, JobEnds(w, kind)
      PROVE  SetTypes'
  <2>1. running[w] \in Jobs
    BY <1>2 DEF JobEnds, ClientTypes, WorkTypes
  <2> QED BY <1>2, <2>1 DEF JobEnds, RestUnchanged, SetTypes
<1>3. ASSUME UNCHANGED <<asked, completed>>, happened' = happened \/ \E kind \in Kinds : Mishap(kind)
      PROVE  SetTypes'
  BY <1>3 DEF Mishap, SetTypes
<1>4. ASSUME NEW j \in Jobs, CallStep(j)
      PROVE  SetTypes'
  BY <1>3, <1>4 DEF CallStep, EnsureStarted, Respawn, StartupReady, StartupExpires, StartupKills, Kill, Dies,
         Submit, Kinds
<1>5. CASE Reader \/ Handshake \/ WatchdogTimeout \/ WatchdogExits
  BY <1>3, <1>5 DEF Reader, Fetch, DispatchAnswer, DispatchStrands, Dies, DispatchStale, ReaderFindsCrash,
         FailActive, Respawn, ReaderLoops, Handshake, WatchdogTimeout, WatchdogExits, Kinds
<1>6. CASE Release \/ Shutdown \/ Toggle \/ UNCHANGED vars
  BY <1>3, <1>6 DEF Release, Kill, Dies, Shutdown, Toggle, vars, Kinds
<1>7. ASSUME NEW w \in Workers, TakeStart(w) \/ TakeCancel(w) \/ TakeShutdown(w) \/ WorkerIdle(w)
                                 \/ FlushTerminal(w) \/ Crash(w) \/ Freeze(w)
      PROVE  SetTypes'
  BY <1>3, <1>7 DEF TakeStart, TakeCancel, TakeShutdown, Dies, WorkerIdle, FlushTerminal, RestUnchanged,
         Crash, Freeze, Kinds
<1> QED BY <1>1, <1>2, <1>4, <1>5, <1>6, <1>7 DEF Next, WorkerStep

(* Every variable of the client and its workers has its type, for any jobs    *)
(* and workers, and no job is in the line twice.                              *)
THEOREM TypeCorrect == Spec => []TypeOK
<1>1. Init => SwitchTypes /\ SetTypes /\ LineOrder
  <2>1. Init => SwitchTypes
    BY DEF Init, SwitchTypes
  <2>2. Init => SetTypes
    BY DEF Init, SetTypes
  <2>3. <<>> \in Seq(Jobs) /\ DOMAIN <<>> = {}
    OBVIOUS
  <2>4. Init => LineOrder
    BY <2>3 DEF Init, LineOrder
  <2> QED BY <2>1, <2>2, <2>4
<1>2. SwitchTypes /\ SetTypes /\ LineOrder /\ IInv /\ [Next]_vars => SwitchTypes' /\ SetTypes' /\ LineOrder'
  BY SwitchTypesKept, SetTypesKept, LineOrderKept DEF IInv
<1>3. IInv /\ SwitchTypes /\ SetTypes /\ LineOrder => TypeOK
  <2> SUFFICES ASSUME ClientTypes, LineFits, SwitchTypes, SetTypes, LineOrder
               PROVE  TypeOK
    BY DEF IInv
  <2>1. IsInjective(<<active>> \o wait)
    <3> DEFINE S == Jobs \cup {NoJob}
               line == <<active>> \o wait
    <3>1. <<active>> \in Seq(S) /\ wait \in Seq(S) /\ Len(<<active>>) = 1 /\ <<active>>[1] = active
      BY DEF ClientTypes
    <3>2. /\ line \in Seq(S) /\ Len(line) = 1 + Len(wait)
          /\ \A i \in 1..(1 + Len(wait)) : line[i] = IF i <= 1 THEN <<active>>[i] ELSE wait[i - 1]
      BY <3>1, ConcatProperties, Zenon
    <3>3. DOMAIN line = 1..(1 + Len(wait)) /\ DOMAIN wait = 1..Len(wait) /\ Len(wait) \in Nat
      BY <3>1, <3>2
    <3>4. line[1] = active /\ \A i \in DOMAIN line \ {1} : i - 1 \in DOMAIN wait /\ line[i] = wait[i - 1]
      BY <3>1, <3>2, <3>3
    <3> HIDE DEF line
    <3>5. \A a, b \in DOMAIN line : line[a] = line[b] => a = b
      <4> SUFFICES ASSUME NEW a \in DOMAIN line, NEW b \in DOMAIN line, line[a] = line[b], a # b
                   PROVE  FALSE
        OBVIOUS
      <4>1. a # 1 /\ b # 1
        BY <3>4 DEF LineFits
      <4>2. a - 1 = b - 1
        BY <3>4, <4>1 DEF LineFits
      <4> QED BY <3>3, <4>2
    <3> QED BY <3>5 DEF IsInjective, line
  <2>2. /\ Event \subseteq Events /\ NoEvent \in Events
        /\ Command \subseteq {"start", "cancel", "shutdown"} \X (Jobs \cup {NoJob})
    BY DEF Event, Events, NoEvent, Command
  <2>3. /\ inbox \in [Workers -> Seq({"start", "cancel", "shutdown"} \X (Jobs \cup {NoJob}))]
        /\ outbox \in [Workers -> Seq(Events)] /\ ending \in [Workers -> Events] /\ fetched \in Events
    <3>1. \A S, T : S \subseteq T => Seq(S) \subseteq Seq(T)
      OBVIOUS
    <3>2. /\ inbox \in [Workers -> Seq(Command)] /\ outbox \in [Workers -> Seq(Event)]
          /\ ending \in [Workers -> Event \cup {NoEvent}] /\ fetched \in Event \cup {NoEvent}
      BY DEF ClientTypes, WorkTypes
    <3>3. /\ Seq(Command) \subseteq Seq({"start", "cancel", "shutdown"} \X (Jobs \cup {NoJob}))
          /\ Seq(Event) \subseteq Seq(Events)
      BY <2>2, <3>1
    <3> HIDE DEF Event, Events, Command
    <3> QED BY <2>2, <3>2, <3>3
  <2>4. {ready, hw, hwAccel, stopping, shutdownDone, readerUp, watchUp} \subseteq BOOLEAN
    BY DEF SwitchTypes
  <2>5. /\ active \in Jobs \cup {NoJob} /\ wait \in Seq(Jobs)
        /\ {process, queues, reading} \subseteq Workers \cup {NoWorker}
    BY DEF ClientTypes
  <2>6. /\ life \in [Workers -> {"up", "frozen", "dead"}]
        /\ running \in [Workers -> Jobs \cup {NoJob}] /\ flag \in [Workers -> BOOLEAN]
        /\ pc \in [Jobs -> {"new", "starting", "expired", "submitting", "accepted", "refused"}]
        /\ jobType \in [Jobs -> Types \cup {"none"}]
        /\ answers \in [Jobs -> Seq({"result", "error", "cancelled", "timeout", "crash"})]
    BY DEF ClientTypes, WorkTypes, Answers
  <2>7. accepted \in Seq(Jobs) /\ asked \subseteq Jobs /\ completed \subseteq Jobs /\ happened \subseteq Mishaps
    BY DEF LineOrder, SetTypes
  <2> QED BY <2>1, <2>3, <2>4, <2>5, <2>6, <2>7, Zenon DEF TypeOK
<1> QED BY <1>1, <1>2, <1>3, Inductive, PTL DEF Spec
=============================================================================
