----------------------------- MODULE Jobs_proofs -----------------------------
(***************************************************************************)
(* Theorems about the two services whose answers come from processes and   *)
(* from the I/O pool: child_process and cluster, and the file operations.  *)
(***************************************************************************)
EXTENDS Services_proofs, FunctionTheorems

-----------------------------------------------------------------------------
(* child_process and cluster                                               *)

\* What the script has seen and will see of the child and the workers.
ProcTold == shown \o procQueue

\* The chunks of a stream whose event was posted: those taken from the pipe, but
\* for the one in the hands of the reader.
Posted(s) == written[s] - Len(pipe[s]) - (IF reader[s] = "emit" THEN 1 ELSE 0)

\* w shows the chunks 1 to n of stream s, in order.
Shows(w, s, n) ==
    /\ \A i \in DOMAIN w : w[i].kind = s => w[i].item \in 1..n
    /\ \A i, j \in DOMAIN w :
            i < j /\ w[i].kind = s /\ w[j].kind = s => w[i].item < w[j].item
    /\ \A m \in 1..n : \E i \in DOMAIN w : w[i].kind = s /\ w[i].item = m

\* A pipe holds the last chunks written, the reader the one before them.
ProcPipes ==
    \A s \in Stream :
        /\ Len(pipe[s]) <= written[s]
        /\ \A i \in DOMAIN pipe[s] : pipe[s][i] = (written[s] - Len(pipe[s])) + i
        /\ reader[s] = "emit" => /\ holding[s] = written[s] - Len(pipe[s])
                                 /\ holding[s] >= 1

ProcOutput == \A s \in Stream : Shows(ProcTold, s, Posted(s))

\* The exit event is posted once, when the waiting thread has reaped the child
\* and reset the flag; before spawn() there is no thread.
ProcExit ==
    /\ \A i \in DOMAIN ProcTold : ProcTold[i].kind = "exit" => waiter = "ended"
    /\ \A i, j \in DOMAIN ProcTold :
            ProcTold[i].kind = "exit" /\ ProcTold[j].kind = "exit" => i = j
    /\ waiter \in {"flag", "post", "ended"} => child.process = "reaped"
    /\ waiter \in {"post", "ended"} => ~child.spawned
    /\ child.data = "none" => waiter = "none" /\ \A s \in Stream : reader[s] = "none"

\* A channel that is open was never closed.
ProcWorkers ==
    \A w \in DOMAIN workers :
        workers[w].forked => /\ workers[w].closes <= 1
                             /\ workers[w].end => workers[w].closes = 0

ProcInv == P!TypeOK /\ ProcPipes /\ ProcOutput /\ ProcExit /\ ProcWorkers

LEMMA ProcStart == ASSUME P!Start, procFate \in {"alive", "gone"}
                   PROVE  ProcInv
<1>1. shown = << >> /\ procQueue = << >> /\ workers = << >>
  BY DEF P!Start
<1>2. P!TypeOK
  <2>1. child \in P!ChildProcessData
    BY DEF P!Start, P!ChildProcessData
  <2>2. /\ reader \in [Stream -> {"none", "test", "read", "emit", "ended"}]
        /\ pipe \in [Stream -> Seq(1..MaxChunks)]
    BY DEF P!Start
  <2>3. written \in [Stream -> 0..MaxChunks] /\ holding \in [Stream -> 0..MaxChunks]
    BY BoundAssumption DEF P!Start
  <2>4. workers \in Seq(P!WorkerData) /\ procQueue \in Seq(P!Event) /\ shown \in Seq(P!Event)
    BY <1>1
  <2>5. procMain = "js" /\ waiter = "none"
    BY DEF P!Start
  <2> QED  BY <2>1, <2>2, <2>3, <2>4, <2>5 DEF P!TypeOK
<1>3. /\ \A s \in Stream : pipe[s] = << >> /\ reader[s] = "none"
      /\ \A s \in Stream : written[s] = 0
      /\ child.process = "none" /\ waiter = "none"
  BY DEF P!Start
<1>4. Len(<< >>) = 0 /\ DOMAIN << >> = 1..0 /\ << >> \o << >> = << >>
  BY LenProperties
<1>5. ProcPipes
  BY <1>3, <1>4 DEF ProcPipes
<1>6. DOMAIN ProcTold = 1..0
  BY <1>1, <1>4 DEF ProcTold
<1>7. \A s \in Stream : Posted(s) = 0
  BY <1>3, <1>4 DEF Posted
<1>8. ProcOutput
  BY <1>6, <1>7 DEF ProcOutput, Shows
<1>9. ProcExit
  BY <1>3, <1>6 DEF ProcExit
<1>10. ProcWorkers
  BY <1>1, <1>4 DEF ProcWorkers
<1> QED  BY <1>2, <1>5, <1>8, <1>9, <1>10 DEF ProcInv

LEMMA ProcStutter == ASSUME ProcInv, UNCHANGED procVars
                     PROVE  ProcInv'
<1>1. P!TypeOK'
  BY DEF ProcInv, P!TypeOK, procVars
<1>2. UNCHANGED <<child, waiter, reader, pipe, written, holding, workers, procQueue, shown>>
  BY DEF procVars
<1>3. ProcTold' = ProcTold /\ \A s : Posted(s)' = Posted(s)
  BY <1>2 DEF ProcTold, Posted
<1>4. ProcPipes'
  BY <1>2 DEF ProcInv, ProcPipes
<1>5. ProcOutput'
  BY <1>3 DEF ProcInv, ProcOutput
<1>6. ProcExit'
  BY <1>2, <1>3 DEF ProcInv, ProcExit
<1>7. ProcWorkers'
  BY <1>2 DEF ProcInv, ProcWorkers
<1> QED  BY <1>1, <1>4, <1>5, <1>6, <1>7 DEF ProcInv

-----------------------------------------------------------------------------
(* One more event                                                          *)

LEMMA Appended ==
  ASSUME NEW S, NEW w \in Seq(S), NEW e \in S
  PROVE  /\ Append(w, e) \in Seq(S) /\ Len(w) \in Nat /\ DOMAIN w = 1..Len(w)
         /\ DOMAIN Append(w, e) = 1..Len(w) + 1
         /\ \A i \in DOMAIN w : Append(w, e)[i] = w[i] /\ i < Len(w) + 1
         /\ Append(w, e)[Len(w) + 1] = e
         /\ \A i \in DOMAIN Append(w, e) : i \in DOMAIN w \/ i = Len(w) + 1
         /\ \A i \in DOMAIN w : i \in DOMAIN Append(w, e)
         /\ Len(w) + 1 \in DOMAIN Append(w, e)
<1>1. /\ Append(w, e) \in Seq(S) /\ Len(w) \in Nat /\ DOMAIN w = 1..Len(w)
      /\ DOMAIN Append(w, e) = 1..Len(w) + 1
      /\ Append(w, e)[Len(w) + 1] = e
  BY AppendProperties, LenProperties
<1>2. \A i \in DOMAIN w : Append(w, e)[i] = w[i]
  BY <1>1, AppendProperties
<1> QED  BY <1>1, <1>2

LEMMA ShowsNext ==
  ASSUME NEW S, NEW w \in Seq(S), NEW e \in S, NEW s, NEW n \in Nat,
         Shows(w, s, n), e.kind = s, e.item = n + 1
  PROVE  Shows(Append(w, e), s, n + 1)
<1> DEFINE v == Append(w, e)
           l == Len(w) + 1
<1>1. /\ \A i \in DOMAIN w : v[i] = w[i] /\ i < l /\ i \in Nat
      /\ v[l] = e /\ l \in DOMAIN v /\ l \in Nat
      /\ \A i \in DOMAIN v : i \in DOMAIN w \/ i = l
      /\ \A i \in DOMAIN w : i \in DOMAIN v
  BY Appended
<1> HIDE DEF v, l
<1>2. ASSUME NEW i \in DOMAIN v, v[i].kind = s PROVE v[i].item \in 1..n + 1
  BY <1>1, <1>2 DEF Shows
<1>3. ASSUME NEW i \in DOMAIN v, NEW j \in DOMAIN v, i < j, v[i].kind = s, v[j].kind = s
      PROVE  v[i].item < v[j].item
  <2>1. i \in DOMAIN w
    BY <1>1, <1>3
  <2>2. CASE j \in DOMAIN w
    BY <1>1, <1>3, <2>1, <2>2 DEF Shows
  <2>3. CASE j = l
    <3>1. v[i].item \in 1..n /\ v[j].item = n + 1
      BY <1>1, <1>3, <2>1, <2>3 DEF Shows
    <3> QED  BY <3>1
  <2> QED  BY <1>1, <1>3, <2>2, <2>3
<1>4. ASSUME NEW m \in 1..n + 1
      PROVE  \E i \in DOMAIN v : v[i].kind = s /\ v[i].item = m
  <2>1. CASE m \in 1..n
    BY <1>1, <2>1 DEF Shows
  <2>2. CASE m = n + 1
    BY <1>1, <2>2
  <2> QED  BY <1>4, <2>1, <2>2
<1> QED  BY <1>2, <1>3, <1>4 DEF Shows, v

LEMMA ShowsOther ==
  ASSUME NEW S, NEW w \in Seq(S), NEW e \in S, NEW s, NEW n,
         Shows(w, s, n), e.kind # s
  PROVE  Shows(Append(w, e), s, n)
<1> DEFINE v == Append(w, e)
           l == Len(w) + 1
<1>1. /\ \A i \in DOMAIN w : v[i] = w[i]
      /\ v[l] = e
      /\ \A i \in DOMAIN v : i \in DOMAIN w \/ i = l
      /\ \A i \in DOMAIN w : i \in DOMAIN v
  BY Appended
<1> HIDE DEF v, l
<1>2. Shows(v, s, n)
  BY <1>1 DEF Shows
<1> QED  BY <1>2 DEF v

-----------------------------------------------------------------------------
(* The steps                                                               *)

LEMMA ProcFacts ==
  ASSUME P!TypeOK
  PROVE  /\ child \in P!ChildProcessData
         /\ \A s \in Stream :
                /\ pipe[s] \in Seq(1..MaxChunks)
                /\ Len(pipe[s]) \in Nat /\ DOMAIN pipe[s] = 1..Len(pipe[s])
                /\ written[s] \in Nat /\ written[s] \in 0..MaxChunks
                /\ holding[s] \in Nat /\ holding[s] \in 0..MaxChunks
         /\ ProcTold \in Seq(P!Event)
<1>1. child \in P!ChildProcessData /\ ProcTold \in Seq(P!Event)
  BY ConcatProperties DEF P!TypeOK, ProcTold
<1>2. ASSUME NEW s \in Stream
      PROVE  /\ pipe[s] \in Seq(1..MaxChunks)
             /\ written[s] \in 0..MaxChunks /\ holding[s] \in 0..MaxChunks
  BY <1>2 DEF P!TypeOK
<1>3. ASSUME NEW s \in Stream
      PROVE  /\ Len(pipe[s]) \in Nat /\ DOMAIN pipe[s] = 1..Len(pipe[s])
             /\ written[s] \in Nat /\ holding[s] \in Nat
  BY <1>2, <1>3, Elements, BoundAssumption
<1> QED  BY <1>1, <1>2, <1>3

LEMMA ProcTypes == ASSUME ProcInv, P!Next
                   PROVE  P!TypeOK'
<1>0. P!TypeOK /\ ProcPipes
  BY DEF ProcInv
<1>1. CASE P!spawnProcess
  <2>1. child' \in P!ChildProcessData
    BY <1>0, <1>1 DEF P!TypeOK, P!spawnProcess, P!ChildProcessData
  <2> QED
    BY <1>0, <1>1, <2>1 DEF P!TypeOK, P!spawnProcess, P!Defined, P!Undefined
<1>2. CASE P!spawnFails
  <2>1. child' \in P!ChildProcessData
    BY <1>0, <1>2 DEF P!TypeOK, P!spawnFails, P!ChildProcessData
  <2> QED
    BY <1>0, <1>2, <2>1 DEF P!TypeOK, P!spawnFails, P!Defined, P!Undefined
<1>3. CASE P!childKill
  <2>1. child' \in P!ChildProcessData
    BY <1>0, <1>3 DEF P!TypeOK, P!childKill, P!ChildProcessData
  <2> QED
    BY <1>0, <1>3, <2>1 DEF P!TypeOK, P!childKill, P!Defined, P!Undefined
<1>4. CASE P!waitForExit
  <2>1. child' \in P!ChildProcessData
    BY <1>0, <1>4 DEF P!TypeOK, P!waitForExit, P!ChildProcessData
  <2>2. procQueue' \in Seq(P!Event)
    <3>1. [kind |-> "exit", item |-> 0] \in P!Event
      BY DEF P!Event
    <3>2. procQueue \in Seq(P!Event)
      BY <1>0 DEF P!TypeOK
    <3>3. Append(procQueue, [kind |-> "exit", item |-> 0]) \in Seq(P!Event)
      BY <3>1, <3>2, AppendProperties
    <3> QED  BY <1>4, <3>2, <3>3 DEF P!waitForExit, P!Post
  <2> QED
    BY <1>0, <1>4, <2>1, <2>2 DEF P!TypeOK, P!waitForExit, P!Defined, P!Undefined
<1>5. CASE P!ChildRuns
  <2>1. child' \in P!ChildProcessData
    BY <1>0, <1>5 DEF P!TypeOK, P!ChildRuns, P!ChildProcessData
  <2>2. written' \in [Stream -> 0..MaxChunks] /\ pipe' \in [Stream -> Seq(1..MaxChunks)]
    <3>1. CASE UNCHANGED <<pipe, written>>
      BY <1>0, <3>1 DEF P!TypeOK
    <3>2. ASSUME NEW s \in Stream, written[s] < MaxChunks,
                 written' = [written EXCEPT ![s] = @ + 1],
                 pipe' = [pipe EXCEPT ![s] = Append(@, written'[s])]
          PROVE  written' \in [Stream -> 0..MaxChunks] /\ pipe' \in [Stream -> Seq(1..MaxChunks)]
      <4>1. written[s] + 1 \in 1..MaxChunks /\ written[s] + 1 \in 0..MaxChunks
        BY <1>0, <3>2, ProcFacts, BoundAssumption
      <4>2. written' \in [Stream -> 0..MaxChunks] /\ written'[s] = written[s] + 1
        BY <1>0, <3>2, <4>1 DEF P!TypeOK
      <4>3. Append(pipe[s], written[s] + 1) \in Seq(1..MaxChunks)
        BY <1>0, <4>1, ProcFacts, AppendProperties
      <4> QED  BY <1>0, <3>2, <4>2, <4>3 DEF P!TypeOK
    <3> QED  BY <1>5, <3>1, <3>2 DEF P!ChildRuns
  <2> QED
    BY <1>0, <1>5, <2>1, <2>2 DEF P!TypeOK, P!ChildRuns, P!Defined, P!Undefined
<1>6. CASE \E s \in Stream : P!readOutput(s)
  <2>1. PICK s \in Stream : P!readOutput(s)
    BY <1>6
  <2>2. pipe' \in [Stream -> Seq(1..MaxChunks)] /\ holding' \in [Stream -> 0..MaxChunks]
    <3>1. CASE UNCHANGED <<pipe, holding>>
      BY <1>0, <3>1 DEF P!TypeOK
    <3>2. CASE /\ pipe[s] # << >>
               /\ holding' = [holding EXCEPT ![s] = Head(pipe[s])]
               /\ pipe' = [pipe EXCEPT ![s] = Tail(@)]
      <4>1. Head(pipe[s]) \in 1..MaxChunks /\ Tail(pipe[s]) \in Seq(1..MaxChunks)
        BY <1>0, <3>2, ProcFacts, HeadTailProperties
      <4>2. Head(pipe[s]) \in 0..MaxChunks
        BY <4>1, BoundAssumption
      <4> QED  BY <1>0, <3>2, <4>1, <4>2 DEF P!TypeOK
    <3> QED  BY <2>1, <3>1, <3>2 DEF P!readOutput, P!SourceOf
  <2>3. reader' \in [Stream -> {"none", "test", "read", "emit", "ended"}]
    BY <1>0, <2>1 DEF P!TypeOK, P!readOutput
  <2> QED
    BY <1>0, <2>1, <2>2, <2>3 DEF P!TypeOK, P!readOutput, P!Defined, P!Undefined
<1>7. CASE \E s \in Stream : P!emitOutput(s)
  <2>1. PICK s \in Stream : P!emitOutput(s)
    BY <1>7
  <2>2. [kind |-> s, item |-> holding[s]] \in P!Event
    BY <1>0, ProcFacts DEF P!Event
  <2>3. procQueue' \in Seq(P!Event)
    BY <1>0, <2>1, <2>2, AppendProperties DEF P!TypeOK, P!emitOutput, P!Post
  <2>4. reader' \in [Stream -> {"none", "test", "read", "emit", "ended"}]
    BY <1>0, <2>1 DEF P!TypeOK, P!emitOutput
  <2>5. holding' \in [Stream -> 0..MaxChunks]
    BY <1>0, <2>1, BoundAssumption DEF P!TypeOK, P!emitOutput
  <2> QED
    BY <1>0, <2>1, <2>3, <2>4, <2>5 DEF P!TypeOK, P!emitOutput, P!Undefined
<1>8. CASE P!clusterFork
  <2>1. PICK ok \in BOOLEAN :
        /\ workers' = Append(workers, [end |-> ok, disconnected |-> FALSE,
               killed |-> FALSE, forked |-> ok, closes |-> IF ok THEN 0 ELSE 2])
        /\ IF ok THEN P!Post("online", Len(workers')) ELSE UNCHANGED procQueue
    BY <1>8 DEF P!clusterFork
  <2>2. [end |-> ok, disconnected |-> FALSE, killed |-> FALSE, forked |-> ok,
         closes |-> IF ok THEN 0 ELSE 2] \in P!WorkerData
    BY DEF P!WorkerData
  <2>3. workers' \in Seq(P!WorkerData) /\ Len(workers') \in Nat
    BY <1>0, <2>1, <2>2, AppendProperties, LenProperties DEF P!TypeOK
  <2>4. [kind |-> "online", item |-> Len(workers')] \in P!Event
    BY <2>3 DEF P!Event
  <2>5. procQueue' \in Seq(P!Event)
    <3>1. \/ procQueue' = procQueue
          \/ procQueue' = Append(procQueue, [kind |-> "online", item |-> Len(workers')])
      BY <2>1 DEF P!Post
    <3>2. procQueue \in Seq(P!Event)
      BY <1>0 DEF P!TypeOK
    <3> QED  BY <2>4, <3>1, <3>2, AppendProperties
  <2> QED
    BY <1>0, <1>8, <2>3, <2>5 DEF P!TypeOK, P!clusterFork, P!childVars, P!Defined, P!Undefined
<1>9. CASE \E w \in DOMAIN workers : P!workerSend(w) \/ P!workerDisconnect(w) \/ P!workerKill(w)
  <2>1. PICK w \in DOMAIN workers : P!workerSend(w) \/ P!workerDisconnect(w) \/ P!workerKill(w)
    BY <1>9
  <2>2. workers' \in Seq(P!WorkerData)
    <3>1. workers \in Seq(P!WorkerData) /\ w \in 1..Len(workers) /\ workers[w] \in P!WorkerData
      BY <1>0, <2>1, Elements DEF P!TypeOK
    <3>2. CASE P!workerSend(w)
      BY <3>1, <3>2 DEF P!workerSend
    <3>3. CASE P!workerDisconnect(w)
      <4>1. P!workerDisconnect(w) => \E e \in P!WorkerData : workers' = [workers EXCEPT ![w] = e]
        <5> DEFINE n == workers[w].closes + (IF workers[w].end THEN 1 ELSE 0)
                   e == [workers[w] EXCEPT !.disconnected = TRUE, !.end = FALSE,
                                           !.closes = n]
        <5>1. workers[w].forked => workers[w].closes \in 0..1
          BY <2>1, <3>1 DEF ProcInv, ProcWorkers, P!WorkerData
        <5>2. workers[w].forked => e \in P!WorkerData
          <6>1. workers[w].forked => n \in 0..3
            BY <5>1
          <6> HIDE DEF n
          <6> QED  BY <3>1, <6>1 DEF P!WorkerData
        <5> HIDE DEF e
        <5>3. P!workerDisconnect(w) => workers' = [workers EXCEPT ![w] = e] /\ workers[w].forked
          BY DEF P!workerDisconnect, e, n
        <5> QED  BY <5>2, <5>3
      <4> QED  BY <3>1, <3>3, <4>1, ExceptSeq
    <3>4. CASE P!workerKill(w)
      <4>1. [workers[w] EXCEPT !.killed = TRUE] \in P!WorkerData
        BY <3>1 DEF P!WorkerData
      <4>2. workers' = [workers EXCEPT ![w] = [workers[w] EXCEPT !.killed = TRUE]]
        BY <3>1, <3>4 DEF P!workerKill
      <4> QED  BY <3>1, <4>1, <4>2, ExceptSeq
    <3> QED  BY <2>1, <3>2, <3>3, <3>4
  <2> QED
    BY <1>0, <2>1, <2>2 DEF P!TypeOK, P!workerSend, P!workerDisconnect, P!workerKill,
       P!childVars, P!Defined, P!Undefined
<1>10. CASE P!Deliver
  <2>1. Head(procQueue) \in P!Event /\ Tail(procQueue) \in Seq(P!Event)
    BY <1>0, <1>10, HeadTailProperties DEF P!TypeOK, P!Deliver
  <2>2. shown' \in Seq(P!Event) /\ procQueue' \in Seq(P!Event)
    BY <1>0, <1>10, <2>1, AppendProperties DEF P!TypeOK, P!Deliver
  <2> QED
    BY <1>0, <1>10, <2>2 DEF P!TypeOK, P!Deliver, P!childVars, P!Defined, P!Undefined
<1>11. CASE P!MainLoop
  BY <1>0, <1>11 DEF P!TypeOK, P!MainLoop, P!childVars, P!Defined, P!Undefined
<1> QED
  BY <1>1, <1>2, <1>3, <1>4, <1>5, <1>6, <1>7, <1>8, <1>9, <1>10, <1>11 DEF P!Next

\* Steps that neither write to a pipe nor read from one.
LEMMA PipesUntouched ==
  ASSUME P!TypeOK, UNCHANGED <<pipe, written>>,
         \A s \in Stream : (reader'[s] = "emit") = (reader[s] = "emit"),
         \A s \in Stream : reader[s] = "emit" => holding'[s] = holding[s]
  PROVE  /\ ProcPipes => ProcPipes'
         /\ \A s \in Stream : Posted(s)' = Posted(s)
BY DEF ProcPipes, Posted

\* What each step does to the pipes and to the number of chunks posted.
LEMMA ProcPipesKept ==
  ASSUME ProcInv, P!Next
  PROVE  /\ ProcPipes'
         /\ (\A s \in Stream : Posted(s)' = Posted(s))
            \/ \E s \in Stream :
                /\ P!emitOutput(s)
                /\ Posted(s) \in Nat /\ Posted(s) + 1 = holding[s]
                /\ Posted(s)' = Posted(s) + 1
                /\ \A t \in Stream : t # s => Posted(t)' = Posted(t)
<1>0. P!TypeOK /\ ProcPipes /\ ProcExit
  BY DEF ProcInv
<1>t. reader \in [Stream -> {"none", "test", "read", "emit", "ended"}]
      /\ pipe \in [Stream -> Seq(1..MaxChunks)]
      /\ written \in [Stream -> 0..MaxChunks] /\ holding \in [Stream -> 0..MaxChunks]
  BY <1>0 DEF P!TypeOK
<1>1. CASE UNCHANGED <<pipe, written, reader, holding>>
  BY <1>0, <1>1, PipesUntouched
<1>2. CASE P!spawnProcess
  <2>1. \A s \in Stream : reader[s] = "none" /\ reader'[s] = "test"
    BY <1>0, <1>2 DEF P!spawnProcess, ProcExit
  <2> QED
    BY <1>0, <1>2, <2>1, PipesUntouched DEF P!spawnProcess
<1>3. CASE P!ChildRuns
  <2>1. CASE UNCHANGED <<pipe, written>>
    BY <1>1, <1>3, <2>1 DEF P!ChildRuns
  <2>2. ASSUME NEW s \in Stream,
               written' = [written EXCEPT ![s] = @ + 1],
               pipe' = [pipe EXCEPT ![s] = Append(@, written'[s])]
        PROVE  ProcPipes' /\ \A t \in Stream : Posted(t)' = Posted(t)
    <3> DEFINE l == Len(pipe[s])
               n == written[s]
               q == pipe[s]
    <3>1. l \in Nat /\ n \in Nat /\ l <= n /\ DOMAIN q = 1..l /\ n \in 0..MaxChunks
      BY <1>0, ProcFacts DEF ProcPipes
    <3>2. written'[s] = n + 1 /\ pipe'[s] = Append(q, n + 1)
      BY <1>t, <2>2
    <3>3. \A t \in Stream : t # s => pipe'[t] = pipe[t] /\ written'[t] = written[t]
      BY <1>t, <2>2
    <3>4. UNCHANGED <<reader, holding>>
      BY <1>3 DEF P!ChildRuns
    <3>5. q \in Seq(Nat) /\ n + 1 \in Nat
      <4>1. q \in Seq(1..MaxChunks)
        BY <1>t
      <4>2. 1..MaxChunks \subseteq Nat
        BY BoundAssumption
      <4>3. n + 1 \in Nat
        BY <3>1
      <4>4. q \in Seq(Nat)
        BY <4>1, <4>2, SeqMonotonic
      <4> QED  BY <4>3, <4>4
    <3>6. \A i \in 1..l : q[i] = (n - l) + i
      BY <1>0, <3>1 DEF ProcPipes
    <3> HIDE DEF q, l, n
    <3>d. l = Len(q)
      BY DEF l, q
    <3>7. /\ Len(Append(q, n + 1)) = l + 1 /\ DOMAIN Append(q, n + 1) = 1..l + 1
          /\ Append(q, n + 1)[l + 1] = n + 1
          /\ \A i \in 1..l : Append(q, n + 1)[i] = q[i]
      BY <3>5, <3>d, AppendProperties, LenProperties
    <3>8. \A i \in 1..l + 1 : Append(q, n + 1)[i] = ((n + 1) - (l + 1)) + i
      <4> TAKE i \in 1..l + 1
      <4>1. CASE i \in 1..l
        BY <3>1, <3>6, <3>7, <4>1
      <4>2. CASE i = l + 1
        BY <3>1, <3>7, <4>2
      <4>3. i \in 1..l \/ i = l + 1
        BY <3>1
      <4> QED  BY <4>1, <4>2, <4>3
    <3>9. (n + 1) - (l + 1) = n - l /\ l + 1 <= n + 1
      BY <3>1
    <3>10. ProcPipes'
      <4> SUFFICES ASSUME NEW t \in Stream
                   PROVE  /\ Len(pipe'[t]) <= written'[t]
                          /\ \A i \in DOMAIN pipe'[t] :
                                pipe'[t][i] = (written'[t] - Len(pipe'[t])) + i
                          /\ reader'[t] = "emit" => /\ holding'[t] = written'[t] - Len(pipe'[t])
                                                   /\ holding'[t] >= 1
        BY DEF ProcPipes
      <4>1. CASE t = s
        <5>1. reader[s] = "emit" => holding[s] = n - l /\ holding[s] >= 1
          BY <1>0 DEF ProcPipes, n, l
        <5> QED
          BY <3>2, <3>4, <3>7, <3>8, <3>9, <4>1, <5>1
      <4>2. CASE t # s
        BY <1>0, <3>3, <3>4, <4>2 DEF ProcPipes
      <4> QED  BY <4>1, <4>2
    <3>11. ASSUME NEW t \in Stream PROVE Posted(t)' = Posted(t)
      <4>1. CASE t = s
        <5>1. written'[s] - Len(pipe'[s]) = written[s] - Len(pipe[s])
          BY <3>2, <3>7, <3>9 DEF n, l
        <5> QED  BY <3>4, <4>1, <5>1 DEF Posted
      <4>2. CASE t # s
        BY <3>3, <3>4, <4>2 DEF Posted
      <4> QED  BY <4>1, <4>2
    <3> QED  BY <3>10, <3>11
  <2> QED
    BY <1>3, <2>1, <2>2 DEF P!ChildRuns
<1>4. CASE \E s \in Stream : P!readOutput(s)
  <2>1. PICK s \in Stream : P!readOutput(s)
    BY <1>4
  <2>2. CASE UNCHANGED <<pipe, holding>>
    <3>1. \A t \in Stream : (reader'[t] = "emit") = (reader[t] = "emit")
      BY <1>t, <2>1, <2>2 DEF P!readOutput, P!SourceOf
    <3> QED
      BY <1>0, <2>1, <2>2, <3>1, PipesUntouched DEF P!readOutput
  <2>3. CASE /\ reader[s] = "read" /\ pipe[s] # << >>
             /\ holding' = [holding EXCEPT ![s] = Head(pipe[s])]
             /\ pipe' = [pipe EXCEPT ![s] = Tail(@)]
             /\ reader' = [reader EXCEPT ![s] = "emit"]
    <3> DEFINE q == pipe[s]
               l == Len(pipe[s])
               n == written[s]
    <3>1. l \in Nat /\ n \in Nat /\ l <= n /\ DOMAIN q = 1..l
      BY <1>0, ProcFacts DEF ProcPipes
    <3>2. /\ holding'[s] = Head(q) /\ pipe'[s] = Tail(q) /\ reader'[s] = "emit"
          /\ \A t \in Stream : t # s =>
                /\ pipe'[t] = pipe[t] /\ holding'[t] = holding[t]
                /\ reader'[t] = reader[t]
      BY <1>t, <2>3
    <3>3. written' = written
      BY <2>1 DEF P!readOutput
    <3>4. \A i \in 1..l : q[i] = (n - l) + i
      BY <1>0, <3>1 DEF ProcPipes
    <3>5. q \in Seq(1..MaxChunks) /\ q # << >>
      BY <1>t, <2>3
    <3>r. reader[s] # "emit"
      BY <2>3
    <3> HIDE DEF q, l, n
    <3>d. l = Len(q)
      BY DEF l, q
    <3>6. /\ Head(q) = q[1] /\ Len(Tail(q)) = l - 1 /\ DOMAIN Tail(q) = 1..l - 1
          /\ \A i \in 1..l - 1 : Tail(q)[i] = q[i + 1]
      BY <3>5, <3>d, HeadTailProperties, LenProperties
    <3>e. l # 0
      BY <3>5, <3>d, EmptySeq
    <3>7. Head(q) = n - (l - 1) /\ n - (l - 1) >= 1 /\ l - 1 <= n
      BY <3>1, <3>4, <3>6, <3>e
    <3>8. \A i \in 1..l - 1 : Tail(q)[i] = (n - (l - 1)) + i
      <4> TAKE i \in 1..l - 1
      <4>1. i + 1 \in 1..l /\ (n - l) + (i + 1) = (n - (l - 1)) + i
        BY <3>1
      <4> QED  BY <3>4, <3>6, <4>1
    <3>9. ProcPipes'
      <4> SUFFICES ASSUME NEW t \in Stream
                   PROVE  /\ Len(pipe'[t]) <= written'[t]
                          /\ \A i \in DOMAIN pipe'[t] :
                                pipe'[t][i] = (written'[t] - Len(pipe'[t])) + i
                          /\ reader'[t] = "emit" => /\ holding'[t] = written'[t] - Len(pipe'[t])
                                                   /\ holding'[t] >= 1
        BY DEF ProcPipes
      <4>1. CASE t = s
        <5>1. written'[s] = n
          BY <3>3 DEF n
        <5> QED
          BY <3>2, <3>6, <3>7, <3>8, <4>1, <5>1
      <4>2. CASE t # s
        BY <1>0, <3>2, <3>3, <4>2 DEF ProcPipes
      <4> QED  BY <4>1, <4>2
    <3>10. ASSUME NEW t \in Stream PROVE Posted(t)' = Posted(t)
      <4>1. CASE t = s
        <5>1. Posted(s)' = n - (l - 1) - 1
          BY <3>2, <3>3, <3>6 DEF Posted, n
        <5>2. Posted(s) = n - l - 0
          BY <3>r DEF Posted, n, l
        <5> QED  BY <3>1, <4>1, <5>1, <5>2
      <4>2. CASE t # s
        BY <3>2, <3>3, <4>2 DEF Posted
      <4> QED  BY <4>1, <4>2
    <3> QED  BY <3>9, <3>10
  <2> QED
    BY <2>1, <2>2, <2>3 DEF P!readOutput, P!SourceOf
<1>5. CASE \E s \in Stream : P!emitOutput(s)
  <2>1. PICK s \in Stream : P!emitOutput(s)
    BY <1>5
  <2>2. /\ UNCHANGED <<pipe, written>> /\ reader[s] = "emit" /\ reader'[s] = "test"
        /\ \A t \in Stream : t # s => reader'[t] = reader[t] /\ holding'[t] = holding[t]
    BY <1>t, <2>1 DEF P!emitOutput
  <2>3. ProcPipes'
    BY <1>0, <2>2 DEF ProcPipes
  <2>4. holding[s] = written[s] - Len(pipe[s]) /\ holding[s] >= 1 /\ holding[s] \in Nat
    BY <1>0, <2>2, ProcFacts DEF ProcPipes
  <2>5. Posted(s) = holding[s] - 1 /\ Posted(s)' = holding[s] - 0
    BY <2>2, <2>4 DEF Posted
  <2>6. \A t \in Stream : t # s => Posted(t)' = Posted(t)
    BY <2>2 DEF Posted
  <2>7. Posted(s) \in Nat /\ Posted(s) + 1 = holding[s] /\ Posted(s)' = Posted(s) + 1
    BY <2>4, <2>5
  <2> QED
    BY <2>1, <2>3, <2>6, <2>7
<1> QED
  BY <1>1, <1>2, <1>3, <1>4, <1>5 DEF P!Next, P!spawnFails, P!childKill, P!waitForExit,
     P!clusterFork, P!workerSend, P!workerDisconnect, P!workerKill, P!Deliver, P!MainLoop,
     P!childVars

\* What each step adds to the events.
LEMMA ProcTells ==
  ASSUME ProcInv, P!Next
  PROVE  \/ ProcTold' = ProcTold /\ ~(\E s \in Stream : P!emitOutput(s))
         \/ \E e \in P!Event :
              /\ ProcTold' = Append(ProcTold, e)
              /\ \/ /\ e.kind = "online" /\ P!clusterFork
                    /\ ~(\E s \in Stream : P!emitOutput(s))
                 \/ /\ e.kind = "exit" /\ P!waitForExit /\ waiter = "post"
                    /\ ~(\E s \in Stream : P!emitOutput(s))
                 \/ \E s \in Stream : P!emitOutput(s) /\ e.kind = s /\ e.item = holding[s]
<1>0. P!TypeOK
  BY DEF ProcInv
<1>t. shown \in Seq(P!Event) /\ procQueue \in Seq(P!Event)
  BY <1>0 DEF P!TypeOK
<1>r. reader \in [Stream -> {"none", "test", "read", "emit", "ended"}]
  BY <1>0 DEF P!TypeOK
<1>a. ASSUME NEW e \in P!Event, procQueue' = Append(procQueue, e), shown' = shown
      PROVE  ProcTold' = Append(ProcTold, e)
  BY <1>t, <1>a, ToldAppend DEF ProcTold
<1>e. ASSUME NEW s \in Stream, P!emitOutput(s)
      PROVE  reader' # reader /\ procQueue' # procQueue
  <2>1. reader[s] = "emit" /\ reader'[s] = "test"
    BY <1>r, <1>e DEF P!emitOutput
  <2>2. procQueue' = Append(procQueue, [kind |-> s, item |-> holding[s]])
    BY <1>e DEF P!emitOutput, P!Post
  <2>3. [kind |-> s, item |-> holding[s]] \in P!Event
    BY <1>0, <1>e, ProcFacts DEF P!Event
  <2>4. Len(procQueue') = Len(procQueue) + 1 /\ Len(procQueue) \in Nat
    BY <1>t, <2>2, <2>3, AppendProperties, LenProperties
  <2> QED  BY <2>1, <2>4
<1>1. CASE \E s \in Stream : P!emitOutput(s)
  <2>1. PICK s \in Stream : P!emitOutput(s)
    BY <1>1
  <2> DEFINE e == [kind |-> s, item |-> holding[s]]
  <2>2. e \in P!Event /\ e.kind = s /\ e.item = holding[s]
    BY <1>0, <2>1, ProcFacts DEF P!Event
  <2>3. procQueue' = Append(procQueue, e) /\ shown' = shown
    BY <2>1 DEF P!emitOutput, P!Post
  <2> HIDE DEF e
  <2>4. ProcTold' = Append(ProcTold, e)
    BY <1>a, <2>2, <2>3
  <2> QED  BY <2>1, <2>2, <2>4
<1>2. CASE UNCHANGED <<procQueue, shown>>
  <2>1. ProcTold' = ProcTold
    BY <1>2 DEF ProcTold
  <2> QED  BY <1>2, <1>e, <2>1
<1>3. CASE P!clusterFork
  <2>1. reader' = reader /\ shown' = shown
    BY <1>3 DEF P!clusterFork, P!childVars
  <2>2. CASE procQueue' = procQueue
    BY <1>2, <2>1, <2>2
  <2>3. CASE procQueue' = Append(procQueue, [kind |-> "online", item |-> Len(workers')])
    <3> DEFINE e == [kind |-> "online", item |-> Len(workers')]
    <3>1. workers' \in Seq(P!WorkerData)
      BY ProcTypes DEF P!TypeOK
    <3>2. e \in P!Event /\ e.kind = "online"
      BY <3>1, LenProperties DEF P!Event
    <3> HIDE DEF e
    <3>3. ProcTold' = Append(ProcTold, e)
      BY <1>a, <2>1, <2>3, <3>2 DEF e
    <3> QED  BY <1>3, <1>e, <2>1, <3>2, <3>3
  <2> QED
    BY <1>3, <2>2, <2>3 DEF P!clusterFork, P!Post
<1>4. CASE P!waitForExit
  <2>1. reader' = reader /\ shown' = shown
    BY <1>4 DEF P!waitForExit
  <2>2. CASE procQueue' = procQueue
    BY <1>2, <2>1, <2>2
  <2>3. CASE waiter = "post" /\ procQueue' = Append(procQueue, [kind |-> "exit", item |-> 0])
    <3> DEFINE e == [kind |-> "exit", item |-> 0]
    <3>2. e \in P!Event /\ e.kind = "exit"
      BY DEF P!Event
    <3> HIDE DEF e
    <3>3. ProcTold' = Append(ProcTold, e)
      BY <1>a, <2>1, <2>3, <3>2 DEF e
    <3> QED  BY <1>4, <1>e, <2>1, <2>3, <3>2, <3>3
  <2> QED
    BY <1>4, <2>2, <2>3 DEF P!waitForExit, P!Post
<1>5. CASE P!Deliver
  <2>1. /\ procQueue # << >> /\ shown' = Append(shown, Head(procQueue))
        /\ procQueue' = Tail(procQueue) /\ reader' = reader
    BY <1>5 DEF P!Deliver, P!childVars
  <2>2. ProcTold' = ProcTold
    BY <1>t, <2>1, ToldMoves DEF ProcTold
  <2> QED  BY <1>e, <2>1, <2>2
<1> QED
  BY <1>1, <1>2, <1>3, <1>4, <1>5 DEF P!Next, P!spawnProcess, P!spawnFails, P!childKill,
     P!ChildRuns, P!readOutput, P!workerSend, P!workerDisconnect, P!workerKill, P!MainLoop

LEMMA ProcOutputKept == ASSUME ProcInv, P!Next
                        PROVE  ProcOutput'
<1>0. P!TypeOK /\ ProcOutput
  BY DEF ProcInv
<1>t. ProcTold \in Seq(P!Event)
  BY <1>0, ProcFacts
<1>r. reader \in [Stream -> {"none", "test", "read", "emit", "ended"}]
  BY <1>0 DEF P!TypeOK
<1>e. \A s \in Stream : s # "exit" /\ s # "online"
  BY BoundAssumption
<1>1. CASE \E s \in Stream : P!emitOutput(s)
  <2>1. ASSUME NEW s \in Stream, NEW t \in Stream, P!emitOutput(s), P!emitOutput(t)
        PROVE  s = t
    BY <1>r, <2>1 DEF P!emitOutput
  <2>2. PICK s \in Stream :
          /\ P!emitOutput(s) /\ Posted(s) \in Nat /\ Posted(s) + 1 = holding[s]
          /\ Posted(s)' = Posted(s) + 1
          /\ \A t \in Stream : t # s => Posted(t)' = Posted(t)
    <3>1. ~\A t \in Stream : Posted(t)' = Posted(t)
      <4>1. PICK s \in Stream : P!emitOutput(s)
        BY <1>1
      <4>2. /\ UNCHANGED <<pipe, written>> /\ reader[s] = "emit" /\ reader'[s] = "test"
        BY <1>r, <4>1 DEF P!emitOutput
      <4>3. written[s] \in Nat /\ Len(pipe[s]) \in Nat
        BY <1>0, ProcFacts
      <4>4. Posted(s) = written[s] - Len(pipe[s]) - 1 /\ Posted(s)' = written[s] - Len(pipe[s]) - 0
        BY <4>2 DEF Posted
      <4> QED  BY <4>3, <4>4
    <3> QED  BY <3>1, ProcPipesKept
  <2>3. PICK e \in P!Event : /\ ProcTold' = Append(ProcTold, e)
                             /\ e.kind = s /\ e.item = holding[s]
    BY <2>1, <2>2, ProcTells
  <2>4. ASSUME NEW t \in Stream PROVE Shows(ProcTold, t, Posted(t))'
    <3>0. Shows(ProcTold, t, Posted(t))
      BY <1>0 DEF ProcOutput
    <3>1. CASE t = s
      <4>1. Shows(Append(ProcTold, e), s, Posted(s) + 1)
        BY <1>t, <2>2, <2>3, <3>0, <3>1, ShowsNext
      <4>2. Shows(ProcTold', s, Posted(s)')
        BY <2>2, <2>3, <4>1
      <4> QED  BY <3>1, <4>2 DEF Shows
    <3>2. CASE t # s
      <4>1. Shows(Append(ProcTold, e), t, Posted(t))
        BY <1>t, <2>3, <3>0, <3>2, ShowsOther
      <4>2. Shows(ProcTold', t, Posted(t)')
        BY <2>2, <2>3, <3>2, <4>1
      <4> QED  BY <4>2 DEF Shows
    <3> QED  BY <3>1, <3>2
  <2> QED  BY <2>4 DEF ProcOutput
<1>2. CASE ~\E s \in Stream : P!emitOutput(s)
  <2>1. \A t \in Stream : Posted(t)' = Posted(t)
    BY <1>2, ProcPipesKept
  <2>2. ASSUME NEW t \in Stream PROVE Shows(ProcTold, t, Posted(t))'
    <3>0. Shows(ProcTold, t, Posted(t))
      BY <1>0 DEF ProcOutput
    <3>1. CASE ProcTold' = ProcTold
      <4>1. Shows(ProcTold', t, Posted(t)')
        BY <2>1, <3>0, <3>1
      <4> QED  BY <4>1 DEF Shows
    <3>2. CASE \E e \in P!Event : /\ ProcTold' = Append(ProcTold, e)
                                  /\ e.kind = "online" \/ e.kind = "exit"
      <4>1. PICK e \in P!Event : /\ ProcTold' = Append(ProcTold, e)
                                 /\ e.kind = "online" \/ e.kind = "exit"
        BY <3>2
      <4>2. Shows(Append(ProcTold, e), t, Posted(t))
        BY <1>e, <1>t, <3>0, <4>1, ShowsOther
      <4>3. Shows(ProcTold', t, Posted(t)')
        BY <2>1, <4>1, <4>2
      <4> QED  BY <4>3 DEF Shows
    <3> QED  BY <1>2, <3>1, <3>2, ProcTells
  <2> QED  BY <2>2 DEF ProcOutput
<1> QED  BY <1>1, <1>2

LEMMA ProcExitKept == ASSUME ProcInv, P!Next
                      PROVE  ProcExit'
<1>0. P!TypeOK /\ ProcExit
  BY DEF ProcInv
<1>t. ProcTold \in Seq(P!Event) /\ child \in P!ChildProcessData
  BY <1>0, ProcFacts
<1>r. reader \in [Stream -> {"none", "test", "read", "emit", "ended"}]
  BY <1>0 DEF P!TypeOK
<1>e. \A s \in Stream : s # "exit"
  BY BoundAssumption
\* The events.
<1>1. waiter = "ended" => waiter' = "ended"
  BY <1>0 DEF P!Next, P!spawnProcess, P!spawnFails, P!childKill, P!waitForExit, P!ChildRuns,
     P!readOutput, P!emitOutput, P!clusterFork, P!workerSend, P!workerDisconnect,
     P!workerKill, P!Deliver, P!MainLoop, P!childVars, ProcExit
<1>2. /\ \A i \in DOMAIN ProcTold' : ProcTold'[i].kind = "exit" => waiter' = "ended"
      /\ \A i, j \in DOMAIN ProcTold' :
            ProcTold'[i].kind = "exit" /\ ProcTold'[j].kind = "exit" => i = j
  <2>1. CASE ProcTold' = ProcTold
    BY <1>0, <1>1, <2>1 DEF ProcExit
  <2>2. ASSUME NEW e \in P!Event, ProcTold' = Append(ProcTold, e),
               e.kind = "exit" => waiter # "ended" /\ waiter' = "ended"
        PROVE  /\ \A i \in DOMAIN ProcTold' : ProcTold'[i].kind = "exit" => waiter' = "ended"
               /\ \A i, j \in DOMAIN ProcTold' :
                     ProcTold'[i].kind = "exit" /\ ProcTold'[j].kind = "exit" => i = j
    <3> DEFINE l == Len(ProcTold) + 1
    <3>1. /\ \A i \in DOMAIN ProcTold : ProcTold'[i] = ProcTold[i]
          /\ ProcTold'[l] = e
          /\ \A i \in DOMAIN ProcTold' : i \in DOMAIN ProcTold \/ i = l
      BY <1>t, <2>2, Appended
    <3> HIDE DEF l
    <3> QED  BY <1>0, <1>1, <2>2, <3>1 DEF ProcExit
  <2>3. P!waitForExit /\ waiter = "post" => waiter' = "ended"
    BY DEF P!waitForExit
  <2> QED  BY <1>e, <2>1, <2>2, <2>3, ProcTells
\* The threads.
<1>3. /\ waiter' \in {"flag", "post", "ended"} => child'.process = "reaped"
      /\ waiter' \in {"post", "ended"} => ~child'.spawned
  <2>1. CASE UNCHANGED <<child, waiter>>
    BY <1>0, <2>1 DEF ProcExit
  <2>2. CASE P!spawnProcess \/ P!spawnFails
    BY <1>0, <1>t, <2>2 DEF ProcExit, P!spawnProcess, P!spawnFails, P!ChildProcessData
  <2>3. CASE P!childKill
    BY <1>0, <1>t, <2>3 DEF ProcExit, P!childKill, P!ChildProcessData
  <2>4. CASE P!waitForExit
    BY <1>0, <1>t, <2>4 DEF ProcExit, P!waitForExit, P!ChildProcessData
  <2>5. CASE P!ChildRuns
    BY <1>0, <1>t, <2>5 DEF ProcExit, P!ChildRuns, P!ChildProcessData
  <2> QED
    BY <2>1, <2>2, <2>3, <2>4, <2>5 DEF P!Next, P!readOutput, P!emitOutput, P!clusterFork,
       P!workerSend, P!workerDisconnect, P!workerKill, P!Deliver, P!MainLoop, P!childVars
<1>4. child'.data = "none" => waiter' = "none" /\ \A s \in Stream : reader'[s] = "none"
  <2>1. CASE UNCHANGED <<child, waiter, reader>>
    BY <1>0, <2>1 DEF ProcExit
  <2>2. CASE P!spawnProcess \/ P!spawnFails
    BY <1>0, <1>t, <2>2 DEF P!spawnProcess, P!spawnFails, P!ChildProcessData
  <2>3. CASE P!childKill
    BY <1>0, <1>t, <2>3 DEF ProcExit, P!childKill, P!ChildProcessData
  <2>4. CASE P!waitForExit
    BY <1>0, <1>t, <2>4 DEF ProcExit, P!waitForExit, P!ChildProcessData
  <2>5. CASE P!ChildRuns
    BY <1>0, <1>t, <2>5 DEF ProcExit, P!ChildRuns, P!ChildProcessData
  <2>6. CASE \E s \in Stream : P!readOutput(s) \/ P!emitOutput(s)
    BY <1>0, <1>r, <2>6 DEF ProcExit, P!readOutput, P!emitOutput
  <2> QED
    BY <2>1, <2>2, <2>3, <2>4, <2>5, <2>6 DEF P!Next, P!clusterFork,
       P!workerSend, P!workerDisconnect, P!workerKill, P!Deliver, P!MainLoop, P!childVars
<1> QED  BY <1>2, <1>3, <1>4 DEF ProcExit

LEMMA ProcWorkersKept == ASSUME ProcInv, P!Next
                         PROVE  ProcWorkers'
<1>0. P!TypeOK /\ ProcWorkers
  BY DEF ProcInv
<1>t. workers \in Seq(P!WorkerData)
  BY <1>0 DEF P!TypeOK
<1>1. CASE workers' = workers
  BY <1>0, <1>1 DEF ProcWorkers
<1>2. CASE P!clusterFork
  <2>1. PICK ok \in BOOLEAN :
           workers' = Append(workers, [end |-> ok, disconnected |-> FALSE,
               killed |-> FALSE, forked |-> ok, closes |-> IF ok THEN 0 ELSE 2])
    BY <1>2 DEF P!clusterFork
  <2> DEFINE e == [end |-> ok, disconnected |-> FALSE, killed |-> FALSE,
                   forked |-> ok, closes |-> IF ok THEN 0 ELSE 2]
             l == Len(workers) + 1
  <2>2. e \in P!WorkerData /\ (e.forked => e.closes = 0)
    BY DEF P!WorkerData
  <2>3. workers' = Append(workers, e)
    BY <2>1
  <2> HIDE DEF e
  <2>4. /\ \A w \in DOMAIN workers : workers'[w] = workers[w]
        /\ workers'[l] = e
        /\ \A w \in DOMAIN workers' : w \in DOMAIN workers \/ w = l
    BY <1>t, <2>2, <2>3, Appended
  <2> HIDE DEF l
  <2> QED  BY <1>0, <2>2, <2>4 DEF ProcWorkers
<1>3. CASE \E w \in DOMAIN workers : P!workerDisconnect(w) \/ P!workerKill(w)
  <2>1. PICK w \in DOMAIN workers : P!workerDisconnect(w) \/ P!workerKill(w)
    BY <1>3
  <2>2. DOMAIN workers' = DOMAIN workers /\ \A v \in DOMAIN workers : v # w => workers'[v] = workers[v]
    BY <2>1 DEF P!workerDisconnect, P!workerKill
  <2>3. workers[w] \in P!WorkerData
    BY <1>t, <2>1, Elements
  <2>4. /\ workers[w].forked => workers[w].closes <= 1
        /\ workers[w].forked /\ workers[w].end => workers[w].closes = 0
        /\ workers[w].closes \in 0..3
    BY <1>0, <2>1, <2>3 DEF ProcWorkers, P!WorkerData
  <2>5. CASE P!workerKill(w)
    <3>1. workers'[w] = [workers[w] EXCEPT !.killed = TRUE]
      BY <1>t, <2>1, <2>5 DEF P!workerKill
    <3>2. /\ workers'[w].forked = workers[w].forked /\ workers'[w].closes = workers[w].closes
          /\ workers'[w].end = workers[w].end
      BY <2>3, <3>1 DEF P!WorkerData
    <3> QED  BY <1>0, <2>2, <2>4, <3>2 DEF ProcWorkers
  <2>6. CASE P!workerDisconnect(w)
    <3> DEFINE n == workers[w].closes + (IF workers[w].end THEN 1 ELSE 0)
    <3>1. workers[w].forked /\ n <= 1
      BY <2>4, <2>6 DEF P!workerDisconnect
    <3>2. workers' = [workers EXCEPT ![w] = [workers[w] EXCEPT !.disconnected = TRUE,
                                                   !.end = FALSE, !.closes = n]]
      BY <2>6 DEF P!workerDisconnect
    <3> HIDE DEF n
    <3>3. workers'[w] = [workers[w] EXCEPT !.disconnected = TRUE, !.end = FALSE, !.closes = n]
      BY <2>1, <3>2
    <3>4. workers'[w].closes = n /\ workers'[w].end = FALSE
      BY <2>3, <3>3 DEF P!WorkerData
    <3> QED  BY <1>0, <2>2, <3>1, <3>4 DEF ProcWorkers
  <2> QED  BY <2>1, <2>5, <2>6
<1> QED
  BY <1>1, <1>2, <1>3 DEF P!Next, P!spawnProcess, P!spawnFails, P!childKill, P!waitForExit,
     P!ChildRuns, P!readOutput, P!emitOutput, P!workerSend, P!Deliver, P!MainLoop

LEMMA ProcInvariant == Spec => []ProcInv
<1>1. Init => ProcInv
  BY ProcStart DEF Init, In
<1>2. ProcInv /\ [Next]_vars => ProcInv'
  <2> SUFFICES ASSUME ProcInv, [Next]_vars
               PROVE  ProcInv'
    OBVIOUS
  <2>1. CASE P!Next
    BY <2>1, ProcTypes, ProcPipesKept, ProcOutputKept, ProcExitKept, ProcWorkersKept
    DEF ProcInv
  <2>2. CASE UNCHANGED procVars
    BY <2>2, ProcStutter
  <2> QED
    BY <2>1, <2>2 DEF Next, vars
<1> QED
  BY <1>1, <1>2, PTL DEF Spec

LEMMA ProcInvSafe == ASSUME ProcInv PROVE P!Safety
<1>0. P!TypeOK /\ ProcPipes /\ ProcOutput /\ ProcExit /\ ProcWorkers
  BY DEF ProcInv
<1>1. ASSUME NEW s \in Stream
      PROVE  Posted(s) \in Int /\ Posted(s) <= written[s] /\ written[s] \in Nat
  BY <1>0, <1>1, ProcFacts DEF Posted
<1>t. ProcTold \in Seq(P!Event)
  BY <1>0, ProcFacts
<1>i. \A i, j \in DOMAIN ProcTold : i \in Nat /\ j \in Nat
  BY <1>t, Elements
<1>2. ASSUME NEW s \in Stream, NEW i \in DOMAIN ProcTold, ProcTold[i].kind = s
      PROVE  /\ ProcTold[i].item \in 1..written[s]
             /\ \A j \in DOMAIN ProcTold :
                    ProcTold[j].kind = s /\ j < i => ProcTold[j].item < ProcTold[i].item
             /\ \A n \in 1..ProcTold[i].item : \E j \in DOMAIN ProcTold :
                    ProcTold[j].kind = s /\ ProcTold[j].item = n
  <2>0. Shows(ProcTold, s, Posted(s))
    BY <1>0 DEF ProcOutput
  <2>1. ProcTold[i].item \in 1..Posted(s)
    BY <1>2, <2>0 DEF Shows
  <2>2. ProcTold[i].item \in 1..written[s] /\ 1..ProcTold[i].item \subseteq 1..Posted(s)
    BY <1>1, <2>1
  <2> QED  BY <1>2, <2>0, <2>2 DEF Shows
<1>3. P!OutputIsPrefix
  BY <1>0, <1>2 DEF P!OutputIsPrefix, ProcTold, ProcExit
<1>4. P!ClosedOnce
  BY <1>0 DEF P!ClosedOnce, ProcWorkers
<1> QED  BY <1>3, <1>4 DEF P!Safety

\* child_process and cluster: for any streams and any amount of output, and
\* wherever kill() or the end of the process stops the readers, the script sees
\* of each stream a prefix of what the child wrote, in order and without gaps;
\* exit is reported at most once, of a child that was reaped; and a worker's
\* channel is closed at most once unless its fork failed (spawnProcess,
\* childKill, workerDisconnect, workerKill).
THEOREM OutputSeenInOrder == Spec => []ProcessSafety
<1>1. ProcInv => ProcessSafety
  BY ProcInvSafe DEF ProcessSafety
<1> QED
  BY <1>1, ProcInvariant, PTL

-----------------------------------------------------------------------------
(* io, fs and dns                                                          *)

Jobs  == {"queued", "taken", "opened", "done", "failed"}
Kinds == {"read", "write", "other", "lookup"}

\* The operations whose callback ran or is queued, in order.
IoTold == called \o ioQueue

\* The job of operation i is not done.
Open(i) == op[i].job \notin {"done", "failed"}

\* Only lookup() makes a lookup job.
IoKinds == /\ Len(op) <= MaxOps
           /\ \A i \in DOMAIN op : (op[i].api = "lookup") = (op[i].kind = "lookup")

\* The jobs in the pool's queue are waiting, each once, in order.
IoPool ==
    /\ \A k \in DOMAIN poolQueue :
            poolQueue[k] \in DOMAIN op /\ op[poolQueue[k]].job = "queued"
    /\ \A j, k \in DOMAIN poolQueue : j < k => poolQueue[j] < poolQueue[k]

\* Every callback is of an operation of its own, those of promises in the order
\* of the calls, that of a lookup after its job, and none of io.readFile or
\* io.writeFile.
IoOrder ==
    /\ \A k \in DOMAIN IoTold :
            /\ IoTold[k] \in DOMAIN op /\ op[IoTold[k]].api # "wait"
            /\ op[IoTold[k]].api = "lookup" => ~Open(IoTold[k])
    /\ \A j, k \in DOMAIN IoTold :
            /\ IoTold[j] = IoTold[k] => j = k
            /\ j < k /\ op[IoTold[j]].api = "promise" /\ op[IoTold[k]].api = "promise"
                  => IoTold[j] < IoTold[k]

\* A callback ran after its job.
IoCalled == \A k \in DOMAIN called : called[k] \in DOMAIN op /\ ~Open(called[k])

\* The script stands still while a job it waits for is not done.
IoWaits == \A i \in DOMAIN op :
                op[i].api = "wait" /\ Open(i) => ioMain = [at |-> "wait", for |-> i]

\* Until a read is disturbed its file holds what the read expects, and nobody
\* is writing that file; when it has ended it has got that.
IoReads ==
    \A i \in DOMAIN op :
        op[i].kind = "read" /\ op[i].expect # A!Any =>
            /\ ~Open(i) => op[i].got = op[i].expect
            /\ Open(i) => /\ disk[op[i].path] = op[i].expect
                          /\ \A j \in DOMAIN op :
                                ~(op[j].kind = "write" /\ op[j].path = op[i].path /\ Open(j))

IoInv == /\ A!TypeOK /\ IoKinds /\ IoPool /\ IoOrder /\ IoCalled /\ IoWaits /\ IoReads

\* main() leaves its loop, calls processCallbacks() once more, returns.
MainLeaves == A!Leave \/ A!LastCallbacks \/ A!Exit

LEMMA IoStart == ASSUME A!Start, ioFate \in {"alive", "gone"}
                 PROVE  IoInv
<1>1. op = << >> /\ poolQueue = << >> /\ ioQueue = << >> /\ called = << >>
  BY DEF A!Start
<1>2. Len(<< >>) = 0 /\ DOMAIN << >> = 1..0 /\ << >> \o << >> = << >>
  BY LenProperties
<1>3. A!TypeOK
  <2>1. disk \in [Path -> A!Content]
    BY BoundAssumption DEF A!Start, A!Content, A!Absent
  <2>2. ioMain = [at |-> "js", for |-> 0] /\ ioLast = -1
    BY DEF A!Start, A!At
  <2>3. /\ ioMain \in [at : {"js", "idle", "wait", "leave", "exit"}, for : 0..MaxOps]
        /\ ioLast \in -1..MaxOps
    BY <2>2, BoundAssumption
  <2>4. /\ op \in Seq(A!Operation) /\ poolQueue \in Seq(A!Id)
        /\ ioQueue \in Seq(A!Id) /\ called \in Seq(A!Id)
    BY <1>1
  <2> QED  BY <2>1, <2>3, <2>4 DEF A!TypeOK
<1>4. IoTold = << >>
  BY <1>1, <1>2 DEF IoTold
<1>5. IoKinds /\ IoPool /\ IoOrder /\ IoCalled /\ IoWaits /\ IoReads
  BY <1>1, <1>2, <1>4, BoundAssumption DEF IoKinds, IoPool, IoOrder, IoCalled, IoWaits, IoReads
<1> QED  BY <1>3, <1>5 DEF IoInv

LEMMA IoStutter == ASSUME IoInv, UNCHANGED ioVars
                   PROVE  IoInv'
<1>1. A!TypeOK'
  BY DEF IoInv, A!TypeOK, ioVars
<1>2. UNCHANGED <<op, poolQueue, ioQueue, called, disk, ioMain>>
  BY DEF ioVars
<1>3. IoTold' = IoTold /\ \A i : Open(i)' = Open(i)
  BY <1>2 DEF IoTold, Open
<1>4. IoKinds' /\ IoPool' /\ IoOrder' /\ IoCalled' /\ IoWaits' /\ IoReads'
  BY <1>2, <1>3 DEF IoInv, IoKinds, IoPool, IoOrder, IoCalled, IoWaits, IoReads
<1> QED  BY <1>1, <1>4 DEF IoInv

-----------------------------------------------------------------------------
(* What a step does to the operations                                      *)

\* The steps of the service, with the calls that differ in their names only
\* taken together.
LEMMA IoNext ==
  ASSUME A!Next
  PROVE  \/ \E p \in Path, a \in A!Api, k \in Kinds :
                (a = "lookup") = (k = "lookup") /\ A!Submit(a, k, p)
         \/ \E p \in Path, c \in {A!Other, A!Absent} : A!Changes(p, c)
         \/ A!TakeJob
         \/ \E i \in DOMAIN op :
                A!readJob(i) \/ A!writeJob(i) \/ A!otherJob(i) \/ A!lookupJob(i)
         \/ A!RunCallback
         \/ A!WaitEnds \/ A!Return \/ MainLeaves \/ A!Gone
<1>1. ASSUME NEW p \in Path,
             \/ A!readFile(p) \/ A!writeFile(p)
             \/ A!promisesReadFile(p) \/ A!promisesWriteFile(p)
             \/ A!promisesReaddir(p) \/ A!promisesMkdir(p) \/ A!promisesStat(p)
      PROVE  \E a \in A!Api, k \in Kinds :
                (a = "lookup") = (k = "lookup") /\ A!Submit(a, k, p)
  BY <1>1 DEF A!readFile, A!writeFile, A!promisesReadFile, A!promisesWriteFile,
     A!promisesReaddir, A!promisesMkdir, A!promisesStat, A!Api, Kinds
<1>2. A!lookup => \E p \in Path, a \in A!Api, k \in Kinds :
                      (a = "lookup") = (k = "lookup") /\ A!Submit(a, k, p)
  BY DEF A!lookup, A!Api, Kinds
<1>3. ASSUME NEW p \in Path,
             A!writeFileSync(p) \/ A!unlinkSync(p) \/ A!copyFileSync(p) \/ A!renameSync(p)
      PROVE  \E c \in {A!Other, A!Absent} : A!Changes(p, c)
  BY <1>3 DEF A!writeFileSync, A!unlinkSync, A!copyFileSync, A!renameSync
<1> QED  BY <1>1, <1>2, <1>3, Zenon DEF A!Next, A!PoolStep, MainLeaves

LEMMA IoFields ==
  ASSUME NEW r \in A!Operation
  PROVE  /\ r.api \in A!Api /\ r.kind \in Kinds /\ r.path \in Path /\ r.job \in Jobs
         /\ r.got \in A!Any..MaxOps /\ r.expect \in A!Any..MaxOps
         /\ \A x \in Jobs : /\ [r EXCEPT !.job = x] \in A!Operation
                            /\ [r EXCEPT !.job = x].job = x
                            /\ [r EXCEPT !.job = x].api = r.api
                            /\ [r EXCEPT !.job = x].kind = r.kind
                            /\ [r EXCEPT !.job = x].path = r.path
                            /\ [r EXCEPT !.job = x].got = r.got
                            /\ [r EXCEPT !.job = x].expect = r.expect
<1>1. A!Api = {"wait", "promise", "lookup"}
  BY DEF A!Api
<1> QED  BY DEF A!Operation, Jobs, Kinds

LEMMA SetExpect ==
  ASSUME NEW r \in A!Operation
  PROVE  LET d == [r EXCEPT !.expect = A!Any]
         IN  /\ d \in A!Operation /\ d.expect = A!Any
             /\ d.api = r.api /\ d.kind = r.kind /\ d.path = r.path
             /\ d.job = r.job /\ d.got = r.got
<1>1. A!Any \in A!Any..MaxOps
  BY BoundAssumption DEF A!Any
<1> HIDE DEF A!Any
<1> QED  BY <1>1 DEF A!Operation

LEMMA IoFacts ==
  ASSUME A!TypeOK
  PROVE  /\ op \in Seq(A!Operation) /\ Len(op) \in Nat /\ DOMAIN op = 1..Len(op)
         /\ \A i \in DOMAIN op : op[i] \in A!Operation
         /\ IoTold \in Seq(A!Id)
         /\ disk \in [Path -> A!Content] /\ A!Content \subseteq A!Any..MaxOps
<1>1. op \in Seq(A!Operation)
  BY DEF A!TypeOK
<1>2. IoTold \in Seq(A!Id)
  BY ConcatProperties DEF A!TypeOK, IoTold
<1>3. A!Content \subseteq A!Any..MaxOps
  BY BoundAssumption DEF A!Content, A!Any, A!Absent
<1> QED  BY <1>1, <1>2, <1>3, Elements DEF A!TypeOK

\* Operation i is what it was, but for its job; what it got changes with the
\* job only, and what it expects only to Any.
Moved(i) ==
    /\ op'[i].api = op[i].api /\ op'[i].kind = op[i].kind /\ op'[i].path = op[i].path
    /\ op'[i].expect \in {op[i].expect, A!Any}
    /\ ~Open(i) => op'[i].job = op[i].job /\ op'[i].got = op[i].got

LEMMA IoSet ==
  ASSUME A!TypeOK, NEW i \in DOMAIN op, NEW r \in A!Operation,
         op' = [op EXCEPT ![i] = r]
  PROVE  /\ op' \in Seq(A!Operation) /\ Len(op') = Len(op) /\ DOMAIN op' = DOMAIN op
         /\ op'[i] = r /\ \A j \in DOMAIN op : j # i => op'[j] = op[j]
<1>1. op \in Seq(A!Operation) /\ i \in 1..Len(op)
  BY IoFacts
<1>2. op' \in Seq(A!Operation) /\ Len(op') = Len(op)
  BY <1>1, ExceptSeq
<1> QED  BY <1>2

\* A job gets on.
LEMMA IoJob ==
  ASSUME A!TypeOK, NEW i \in DOMAIN op, NEW x \in Jobs, Open(i),
         op' = [op EXCEPT ![i].job = x]
  PROVE  /\ op' \in Seq(A!Operation) /\ Len(op') = Len(op) /\ DOMAIN op' = DOMAIN op
         /\ \A j \in DOMAIN op : j # i => op'[j] = op[j]
         /\ op'[i].job = x /\ op'[i].expect = op[i].expect
         /\ \A j \in DOMAIN op : Moved(j)
<1>1. op[i] \in A!Operation
  BY IoFacts
<1> DEFINE r == [op[i] EXCEPT !.job = x]
<1>2. /\ r \in A!Operation /\ r.job = x /\ r.api = op[i].api /\ r.kind = op[i].kind
      /\ r.path = op[i].path /\ r.got = op[i].got /\ r.expect = op[i].expect
  BY <1>1, IoFields
<1>3. op' = [op EXCEPT ![i] = r]
  OBVIOUS
<1> HIDE DEF r
<1>4. /\ op' \in Seq(A!Operation) /\ Len(op') = Len(op) /\ DOMAIN op' = DOMAIN op
      /\ op'[i] = r /\ \A j \in DOMAIN op : j # i => op'[j] = op[j]
  BY <1>2, <1>3, IoSet
<1>5. \A j \in DOMAIN op : Moved(j)
  BY <1>2, <1>4 DEF Moved
<1> QED  BY <1>2, <1>4, <1>5

\* The job of a read gets on.
LEMMA IoReadJob ==
  ASSUME A!TypeOK, NEW i \in DOMAIN op, A!readJob(i)
  PROVE  /\ op' \in Seq(A!Operation) /\ Len(op') = Len(op) /\ DOMAIN op' = DOMAIN op
         /\ \A j \in DOMAIN op : j # i => op'[j] = op[j]
         /\ op'[i].job \in {"done", "failed"} /\ op'[i].got = disk[op[i].path]
         /\ op'[i].expect = op[i].expect
         /\ \A j \in DOMAIN op : Moved(j)
<1>1. op[i] \in A!Operation /\ op[i].path \in Path /\ disk \in [Path -> A!Content]
      /\ A!Content \subseteq A!Any..MaxOps
  BY IoFacts, IoFields
<1> DEFINE c == disk[op[i].path]
           x == IF disk[op[i].path] = A!Absent THEN "failed" ELSE "done"
           r == [op[i] EXCEPT !.got = c, !.job = x]
<1>2. c \in A!Any..MaxOps /\ x \in Jobs /\ x \in {"done", "failed"}
  BY <1>1 DEF Jobs
<1>3. op' = [op EXCEPT ![i] = r] /\ Open(i)
  BY DEF A!readJob, Open
<1> HIDE DEF c, x
<1>d. r = [op[i] EXCEPT !.got = c, !.job = x]
  OBVIOUS
<1> HIDE DEF r
<1>4. /\ r \in A!Operation /\ r.job = x /\ r.api = op[i].api /\ r.kind = op[i].kind
      /\ r.path = op[i].path /\ r.got = c /\ r.expect = op[i].expect
  BY <1>1, <1>2, <1>d DEF A!Operation, Jobs
<1>5. /\ op' \in Seq(A!Operation) /\ Len(op') = Len(op) /\ DOMAIN op' = DOMAIN op
      /\ op'[i] = r /\ \A j \in DOMAIN op : j # i => op'[j] = op[j]
  BY <1>3, <1>4, IoSet
<1>6. \A j \in DOMAIN op : Moved(j)
  BY <1>3, <1>4, <1>5 DEF Moved
<1> QED  BY <1>2, <1>4, <1>5, <1>6 DEF c

\* The reads of p that are under way expect nothing any more.
LEMMA IoDisturb ==
  ASSUME A!TypeOK, NEW p
  PROVE  LET d == A!Disturb(op, p)
         IN  /\ d \in Seq(A!Operation) /\ Len(d) = Len(op) /\ DOMAIN d = DOMAIN op
             /\ \A i \in DOMAIN op :
                  /\ d[i].api = op[i].api /\ d[i].kind = op[i].kind /\ d[i].path = op[i].path
                  /\ d[i].job = op[i].job /\ d[i].got = op[i].got
                  /\ d[i].expect \in {op[i].expect, A!Any}
                  /\ op[i].kind = "read" /\ op[i].path = p /\ Open(i) => d[i].expect = A!Any
<1> DEFINE d == A!Disturb(op, p)
           n == Len(op)
           f(i) == IF op[i].kind = "read" /\ op[i].path = p /\ op[i].job # "done"
                   THEN [op[i] EXCEPT !.expect = A!Any] ELSE op[i]
<1>1. n \in Nat /\ DOMAIN op = 1..n /\ \A i \in DOMAIN op : op[i] \in A!Operation
  BY IoFacts
<1>2. ASSUME NEW i \in DOMAIN op
      PROVE  /\ f(i) \in A!Operation
             /\ f(i).api = op[i].api /\ f(i).kind = op[i].kind /\ f(i).path = op[i].path
             /\ f(i).job = op[i].job /\ f(i).got = op[i].got
             /\ f(i).expect \in {op[i].expect, A!Any}
             /\ op[i].kind = "read" /\ op[i].path = p /\ Open(i) => f(i).expect = A!Any
  BY <1>1, <1>2, SetExpect DEF Open
<1>3. d = [i \in 1..n |-> f(i)]
  BY <1>1 DEF A!Disturb
<1> HIDE DEF f, d, n
<1>4. d \in [1..n -> A!Operation]
  BY <1>1, <1>2, <1>3
<1>5. d \in Seq(A!Operation) /\ Len(d) = n /\ DOMAIN d = 1..n
  BY <1>1, <1>4
<1>6. \A i \in DOMAIN op : d[i] = f(i)
  BY <1>1, <1>3
<1> QED  BY <1>1, <1>2, <1>5, <1>6 DEF d, n

LEMMA IoChange ==
  ASSUME A!TypeOK, NEW p, op' = A!Disturb(op, p)
  PROVE  /\ op' \in Seq(A!Operation) /\ Len(op') = Len(op) /\ DOMAIN op' = DOMAIN op
         /\ \A i \in DOMAIN op : Moved(i) /\ op'[i].job = op[i].job
         /\ \A i \in DOMAIN op : op[i].kind = "read" /\ op[i].path = p /\ Open(i)
                                    => op'[i].expect = A!Any
BY IoDisturb DEF Moved

\* One more operation.
LEMMA IoSubmit ==
  ASSUME IoInv, NEW a \in A!Api, NEW k \in Kinds, NEW p \in Path, A!Submit(a, k, p)
  PROVE  LET n == Len(op) + 1
         IN  /\ op' \in Seq(A!Operation) /\ Len(op') = n /\ n \in A!Id /\ n <= MaxOps
             /\ n \in DOMAIN op' /\ n \notin DOMAIN op
             /\ \A i \in DOMAIN op' : i \in DOMAIN op \/ i = n
             /\ \A i \in DOMAIN op : i < n /\ i \in DOMAIN op'
             /\ op'[n].api = a /\ op'[n].kind = k /\ op'[n].path = p
             /\ op'[n].job = "queued"
             /\ op'[n].expect # A!Any => /\ k = "read" /\ A!Writing(p) = {}
                                         /\ op'[n].expect = disk[p]
             /\ \A i \in DOMAIN op : Moved(i) /\ op'[i].job = op[i].job
             /\ k = "write" => \A i \in DOMAIN op :
                    op[i].kind = "read" /\ op[i].path = p /\ Open(i) => op'[i].expect = A!Any
<1>0. A!TypeOK
  BY DEF IoInv
<1> DEFINE n == Len(op) + 1
           x == IF k = "read" /\ A!Writing(p) = {} THEN disk[p] ELSE A!Any
           new == [api |-> a, kind |-> k, path |-> p, job |-> "queued",
                   got |-> A!Any, inTime |-> ioLast = -1, expect |-> x]
           o == IF k = "write" THEN A!Disturb(op, p) ELSE op
<1>1. op' = Append(o, new) /\ n <= MaxOps
  BY DEF A!Submit
<1>2. x \in A!Any..MaxOps /\ A!Any \in A!Any..MaxOps
  <2>1. A!Any \in A!Any..MaxOps
    BY BoundAssumption DEF A!Any
  <2>2. disk[p] \in A!Any..MaxOps
    BY <1>0, IoFacts
  <2> QED  BY <2>1, <2>2
<1>3. x # A!Any => k = "read" /\ A!Writing(p) = {} /\ x = disk[p]
  OBVIOUS
<1> HIDE DEF x
<1>4. /\ new \in A!Operation /\ new.api = a /\ new.kind = k /\ new.path = p
      /\ new.job = "queued" /\ new.expect = x
  <2>1. a \in A!Api /\ k \in {"read", "write", "other", "lookup"}
    BY DEF Kinds
  <2>2. (ioLast = -1) \in BOOLEAN
    OBVIOUS
  <2> QED  BY <1>2, <2>1, <2>2 DEF A!Operation
<1>5. /\ o \in Seq(A!Operation) /\ Len(o) = Len(op) /\ DOMAIN o = DOMAIN op
      /\ \A i \in DOMAIN op :
           /\ o[i].api = op[i].api /\ o[i].kind = op[i].kind /\ o[i].path = op[i].path
           /\ o[i].job = op[i].job /\ o[i].got = op[i].got
           /\ o[i].expect \in {op[i].expect, A!Any}
           /\ k = "write" /\ op[i].kind = "read" /\ op[i].path = p /\ Open(i)
                => o[i].expect = A!Any
  BY <1>0, IoFacts, IoDisturb
<1> HIDE DEF o, new
<1>6. /\ Len(op) \in Nat /\ DOMAIN op = 1..Len(op)
  BY <1>0, IoFacts
<1>7. /\ op' \in Seq(A!Operation) /\ Len(op') = n /\ DOMAIN op' = 1..n
      /\ op'[n] = new /\ \A i \in DOMAIN op : op'[i] = o[i]
  BY <1>1, <1>4, <1>5, <1>6, AppendProperties, LenProperties
<1>8. /\ n \in A!Id /\ n \in 1..n /\ n \notin 1..Len(op)
      /\ \A i \in 1..n : i \in 1..Len(op) \/ i = n
      /\ \A i \in 1..Len(op) : i < n /\ i \in 1..n
  BY <1>1, <1>6, BoundAssumption DEF A!Id
<1>9. \A i \in DOMAIN op : Moved(i) /\ op'[i].job = op[i].job
  BY <1>5, <1>7 DEF Moved
<1>10. k = "write" => \A i \in DOMAIN op :
         op[i].kind = "read" /\ op[i].path = p /\ Open(i) => op'[i].expect = A!Any
  BY <1>5, <1>7
<1> HIDE DEF n
<1> QED  BY <1>1, <1>3, <1>4, <1>6, <1>7, <1>8, <1>9, <1>10 DEF n

\* The step of a job: operation i was not done and is not queued any more.
LEMMA IoJobStep ==
  ASSUME IoInv,
         \/ A!TakeJob
         \/ \E i \in DOMAIN op :
                A!readJob(i) \/ A!writeJob(i) \/ A!otherJob(i) \/ A!lookupJob(i)
  PROVE  \E i \in DOMAIN op :
           /\ op' \in Seq(A!Operation) /\ Len(op') = Len(op) /\ DOMAIN op' = DOMAIN op
           /\ Open(i) /\ \A j \in DOMAIN op : Moved(j)
           /\ \A j \in DOMAIN op : j # i => op'[j] = op[j]
           /\ \/ /\ A!TakeJob /\ i = Head(poolQueue)
                 /\ op'[i].job = "taken" /\ op'[i].expect = op[i].expect
              \/ /\ op[i].job # "queued" /\ poolQueue' = poolQueue
                 /\ A!readJob(i) \/ A!writeJob(i) \/ A!otherJob(i) \/ A!lookupJob(i)
<1>0. A!TypeOK /\ IoPool
  BY DEF IoInv
<1>1. CASE A!TakeJob
  <2> DEFINE i == Head(poolQueue)
  <2>1. i \in DOMAIN op /\ op[i].job = "queued"
    <3>1. poolQueue \in Seq(A!Id) /\ poolQueue # << >>
      BY <1>0, <1>1 DEF A!TypeOK, A!TakeJob
    <3>2. i = poolQueue[1] /\ 1 \in DOMAIN poolQueue
      BY <3>1, HeadTailProperties, LenProperties, EmptySeq
    <3> QED  BY <1>0, <3>2 DEF IoPool
  <2>2. Open(i) /\ "taken" \in Jobs /\ op' = [op EXCEPT ![i].job = "taken"]
    BY <1>1, <2>1 DEF Open, Jobs, A!TakeJob
  <2> HIDE DEF i
  <2>3. /\ op' \in Seq(A!Operation) /\ Len(op') = Len(op) /\ DOMAIN op' = DOMAIN op
        /\ \A j \in DOMAIN op : j # i => op'[j] = op[j]
        /\ op'[i].job = "taken" /\ op'[i].expect = op[i].expect
        /\ \A j \in DOMAIN op : Moved(j)
    BY <1>0, <2>1, <2>2, IoJob
  <2> QED  BY <1>1, <2>1, <2>2, <2>3 DEF i
<1>2. ASSUME NEW i \in DOMAIN op, A!readJob(i)
      PROVE  /\ op' \in Seq(A!Operation) /\ Len(op') = Len(op) /\ DOMAIN op' = DOMAIN op
             /\ Open(i) /\ \A j \in DOMAIN op : Moved(j)
             /\ \A j \in DOMAIN op : j # i => op'[j] = op[j]
             /\ op[i].job # "queued" /\ poolQueue' = poolQueue
  <2>1. Open(i) /\ op[i].job # "queued" /\ poolQueue' = poolQueue
    BY <1>2 DEF A!readJob, Open
  <2> QED  BY <1>0, <1>2, <2>1, IoReadJob
<1>3. ASSUME NEW i \in DOMAIN op, A!writeJob(i) \/ A!otherJob(i) \/ A!lookupJob(i)
      PROVE  /\ op' \in Seq(A!Operation) /\ Len(op') = Len(op) /\ DOMAIN op' = DOMAIN op
             /\ Open(i) /\ \A j \in DOMAIN op : Moved(j)
             /\ \A j \in DOMAIN op : j # i => op'[j] = op[j]
             /\ op[i].job # "queued" /\ poolQueue' = poolQueue
  <2>1. Open(i) /\ op[i].job # "queued" /\ poolQueue' = poolQueue
    BY <1>3 DEF A!writeJob, A!otherJob, A!lookupJob, Open
  <2>2. PICK x \in Jobs : op' = [op EXCEPT ![i].job = x]
    BY <1>3 DEF A!writeJob, A!otherJob, A!lookupJob, Jobs
  <2> QED  BY <1>0, <2>1, <2>2, IoJob
<1> QED  BY <1>1, <1>2, <1>3

LEMMA IoGrows ==
  ASSUME IoInv, A!Next
  PROVE  /\ op' \in Seq(A!Operation) /\ IoKinds'
         /\ \A i \in DOMAIN op : i \in DOMAIN op' /\ Moved(i)
<1>0. A!TypeOK /\ IoKinds
  BY DEF IoInv
<1>k. Len(op) <= MaxOps /\ \A i \in DOMAIN op : (op[i].api = "lookup") = (op[i].kind = "lookup")
  BY <1>0 DEF IoKinds
<1>s. ASSUME op' \in Seq(A!Operation), Len(op') = Len(op), DOMAIN op' = DOMAIN op,
             \A i \in DOMAIN op : Moved(i)
      PROVE  IoKinds'
  BY <1>k, <1>s DEF IoKinds, Moved
<1>1. ASSUME NEW p \in Path, NEW a \in A!Api, NEW k \in Kinds,
             (a = "lookup") = (k = "lookup"), A!Submit(a, k, p)
      PROVE  /\ op' \in Seq(A!Operation) /\ IoKinds'
             /\ \A i \in DOMAIN op : i \in DOMAIN op' /\ Moved(i)
  <2> DEFINE n == Len(op) + 1
  <2>1. /\ op' \in Seq(A!Operation) /\ Len(op') = n /\ n <= MaxOps
        /\ \A i \in DOMAIN op' : i \in DOMAIN op \/ i = n
        /\ \A i \in DOMAIN op : i \in DOMAIN op'
        /\ op'[n].api = a /\ op'[n].kind = k
        /\ \A i \in DOMAIN op : Moved(i)
    BY <1>1, IoSubmit
  <2> HIDE DEF n
  <2>2. IoKinds'
    BY <1>1, <1>k, <2>1 DEF IoKinds, Moved
  <2> QED  BY <2>1, <2>2
<1>2. ASSUME NEW p \in Path, op' = A!Disturb(op, p)
      PROVE  /\ op' \in Seq(A!Operation) /\ IoKinds'
             /\ \A i \in DOMAIN op : i \in DOMAIN op' /\ Moved(i)
  <2>1. /\ op' \in Seq(A!Operation) /\ Len(op') = Len(op) /\ DOMAIN op' = DOMAIN op
        /\ \A i \in DOMAIN op : Moved(i)
    BY <1>0, <1>2, IoChange
  <2> QED  BY <1>s, <2>1
<1>3. CASE \/ A!TakeJob
           \/ \E i \in DOMAIN op :
                A!readJob(i) \/ A!writeJob(i) \/ A!otherJob(i) \/ A!lookupJob(i)
  <2>1. /\ op' \in Seq(A!Operation) /\ Len(op') = Len(op) /\ DOMAIN op' = DOMAIN op
        /\ \A i \in DOMAIN op : Moved(i)
    BY <1>3, IoJobStep
  <2> QED  BY <1>s, <2>1
<1>4. CASE op' = op
  <2>1. /\ op' \in Seq(A!Operation) /\ \A i \in DOMAIN op : Moved(i)
    BY <1>0, <1>4 DEF Moved, A!TypeOK
  <2> QED  BY <1>4, <1>s, <2>1
<1>5. \A p, c : A!Changes(p, c) => op' = A!Disturb(op, p)
  BY DEF A!Changes
<1>6. A!RunCallback \/ A!WaitEnds \/ A!Return \/ MainLeaves \/ A!Gone => op' = op
  BY DEF A!RunCallback, A!WaitEnds, A!Return, MainLeaves, A!Leave, A!LastCallbacks,
     A!Exit, A!Gone
<1> QED  BY <1>1, <1>2, <1>3, <1>4, <1>5, <1>6, IoNext

\* What is done stays done.
LEMMA IoDone ==
  ASSUME IoInv, A!Next, NEW i \in DOMAIN op
  PROVE  /\ i \in DOMAIN op' /\ op'[i].api = op[i].api
         /\ ~Open(i) => ~Open(i)'
BY IoGrows DEF Moved, Open

LEMMA IoPoolKept == ASSUME IoInv, A!Next
                    PROVE  IoPool'
<1>0. A!TypeOK /\ IoPool
  BY DEF IoInv
<1>t. /\ poolQueue \in Seq(A!Id) /\ Len(op) \in Nat /\ DOMAIN op = 1..Len(op)
      /\ Len(poolQueue) \in Nat /\ DOMAIN poolQueue = 1..Len(poolQueue)
  BY <1>0, IoFacts, LenProperties DEF A!TypeOK
<1>q. /\ \A k \in DOMAIN poolQueue :
            poolQueue[k] \in DOMAIN op /\ op[poolQueue[k]].job = "queued"
      /\ \A j, k \in DOMAIN poolQueue : j < k => poolQueue[j] < poolQueue[k]
  BY <1>0 DEF IoPool
<1>s. ASSUME poolQueue' = poolQueue,
             \A i \in DOMAIN op : op[i].job = "queued" =>
                                     i \in DOMAIN op' /\ op'[i].job = "queued"
      PROVE  IoPool'
  BY <1>q, <1>s DEF IoPool
<1>1. ASSUME NEW p \in Path, NEW a \in A!Api, NEW k \in Kinds, A!Submit(a, k, p)
      PROVE  IoPool'
  <2> DEFINE n == Len(op) + 1
             l == Len(poolQueue) + 1
  <2>1. /\ n \in A!Id /\ n \in DOMAIN op' /\ op'[n].job = "queued"
        /\ \A i \in DOMAIN op : i < n /\ i \in DOMAIN op' /\ op'[i].job = op[i].job
    BY <1>1, IoSubmit
  <2>2. poolQueue' = Append(poolQueue, n)
    BY <1>1 DEF A!Submit
  <2>3. /\ \A j \in DOMAIN poolQueue : poolQueue'[j] = poolQueue[j] /\ j < l
        /\ poolQueue'[l] = n
        /\ \A j \in DOMAIN poolQueue' : j \in DOMAIN poolQueue \/ j = l
    BY <1>t, <2>1, <2>2, Appended
  <2>l. l \in Nat
    BY <1>t
  <2> HIDE DEF n, l
  <2>4. \A j \in DOMAIN poolQueue' :
            poolQueue'[j] \in DOMAIN op' /\ op'[poolQueue'[j]].job = "queued"
    BY <1>q, <2>1, <2>3
  <2>5. ASSUME NEW i \in DOMAIN poolQueue', NEW j \in DOMAIN poolQueue', i < j
        PROVE  poolQueue'[i] < poolQueue'[j]
    <3>1. i \in DOMAIN poolQueue
      BY <1>t, <2>3, <2>5, <2>l
    <3>2. CASE j \in DOMAIN poolQueue
      BY <1>q, <2>3, <2>5, <3>1, <3>2
    <3>3. CASE j = l
      BY <1>q, <2>1, <2>3, <3>1, <3>3
    <3> QED  BY <2>3, <3>2, <3>3
  <2> QED  BY <2>4, <2>5 DEF IoPool
<1>2. ASSUME NEW p \in Path, op' = A!Disturb(op, p), poolQueue' = poolQueue
      PROVE  IoPool'
  BY <1>0, <1>2, <1>s, IoChange
<1>3. CASE \/ A!TakeJob
           \/ \E i \in DOMAIN op :
                A!readJob(i) \/ A!writeJob(i) \/ A!otherJob(i) \/ A!lookupJob(i)
  <2>1. PICK i \in DOMAIN op :
           /\ DOMAIN op' = DOMAIN op
           /\ \A j \in DOMAIN op : j # i => op'[j] = op[j]
           /\ \/ A!TakeJob /\ i = Head(poolQueue)
              \/ op[i].job # "queued" /\ poolQueue' = poolQueue
    BY <1>3, IoJobStep
  <2>2. CASE op[i].job # "queued" /\ poolQueue' = poolQueue
    BY <1>s, <2>1, <2>2
  <2>3. CASE A!TakeJob /\ i = Head(poolQueue)
    <3>1. poolQueue # << >> /\ poolQueue' = Tail(poolQueue)
      BY <2>3 DEF A!TakeJob
    <3> DEFINE l == Len(poolQueue)
    <3>2. /\ i = poolQueue[1] /\ DOMAIN poolQueue' = 1..l - 1
          /\ \A k \in 1..l - 1 : poolQueue'[k] = poolQueue[k + 1]
      BY <1>t, <2>3, <3>1, HeadTailProperties, LenProperties
    <3>3. l \in Nat /\ DOMAIN poolQueue = 1..l
      BY <1>t
    <3> HIDE DEF l
    <3>4. ASSUME NEW k \in DOMAIN poolQueue'
          PROVE  /\ poolQueue'[k] = poolQueue[k + 1] /\ k + 1 \in DOMAIN poolQueue
                 /\ 1 \in DOMAIN poolQueue /\ 1 < k + 1 /\ k \in Nat
      BY <3>2, <3>3
    <3>5. ASSUME NEW k \in DOMAIN poolQueue'
          PROVE  poolQueue'[k] \in DOMAIN op' /\ op'[poolQueue'[k]].job = "queued"
      <4>1. poolQueue[k + 1] \in DOMAIN op /\ op[poolQueue[k + 1]].job = "queued"
        BY <1>q, <3>4
      <4>2. i < poolQueue[k + 1] /\ i \in Nat /\ poolQueue[k + 1] \in Nat
        BY <1>q, <1>t, <3>2, <3>4, <4>1
      <4>3. poolQueue[k + 1] # i
        BY <4>2
      <4> QED  BY <2>1, <3>4, <4>1, <4>3
    <3>6. ASSUME NEW j \in DOMAIN poolQueue', NEW k \in DOMAIN poolQueue', j < k
          PROVE  poolQueue'[j] < poolQueue'[k]
      <4>1. j + 1 < k + 1
        BY <3>4, <3>6
      <4> QED  BY <1>q, <3>4, <4>1
    <3> QED  BY <3>5, <3>6 DEF IoPool
  <2> QED  BY <2>1, <2>2, <2>3
<1>4. CASE UNCHANGED <<op, poolQueue>>
  BY <1>s, <1>4
<1>5. \A p, c : A!Changes(p, c) => op' = A!Disturb(op, p) /\ poolQueue' = poolQueue
  BY DEF A!Changes
<1>6. A!RunCallback \/ A!WaitEnds \/ A!Return \/ MainLeaves \/ A!Gone => UNCHANGED <<op, poolQueue>>
  BY DEF A!RunCallback, A!WaitEnds, A!Return, MainLeaves, A!Leave, A!LastCallbacks,
     A!Exit, A!Gone
<1> QED  BY <1>1, <1>2, <1>3, <1>4, <1>5, <1>6, IoNext

-----------------------------------------------------------------------------
(* The callbacks                                                           *)

\* What each step adds to the callbacks.
LEMMA IoTells ==
  ASSUME IoInv, A!Next
  PROVE  \/ IoTold' = IoTold
         \/ \E i \in A!Id : IoTold' = Append(IoTold, i) /\
              \/ \E p \in Path, k \in Kinds : A!Submit("promise", k, p) /\ i = Len(op) + 1
              \/ i \in DOMAIN op /\ A!lookupJob(i)
<1>0. A!TypeOK
  BY DEF IoInv
<1>t. called \in Seq(A!Id) /\ ioQueue \in Seq(A!Id)
  BY <1>0 DEF A!TypeOK
<1>a. ASSUME NEW i \in A!Id, ioQueue' = Append(ioQueue, i), called' = called
      PROVE  IoTold' = Append(IoTold, i)
  BY <1>t, <1>a, ToldAppend DEF IoTold
<1>1. CASE UNCHANGED <<ioQueue, called>>
  BY <1>1 DEF IoTold
<1>2. ASSUME NEW p \in Path, NEW a \in A!Api, NEW k \in Kinds, A!Submit(a, k, p)
      PROVE  \/ UNCHANGED <<ioQueue, called>>
             \/ \E i \in A!Id : IoTold' = Append(IoTold, i) /\
                  A!Submit("promise", k, p) /\ i = Len(op) + 1
  <2> DEFINE n == Len(op) + 1
  <2>1. n \in A!Id
    BY <1>2, IoSubmit
  <2>2. CASE a = "promise"
    <3>1. ioQueue' = Append(ioQueue, n) /\ called' = called
      BY <1>2, <2>2 DEF A!Submit, A!PostsAtOnce
    <3> HIDE DEF n
    <3>2. IoTold' = Append(IoTold, n)
      BY <1>a, <2>1, <3>1
    <3> QED  BY <1>2, <2>1, <2>2, <3>2 DEF n
  <2>3. CASE a # "promise"
    BY <1>2, <2>3 DEF A!Submit, A!PostsAtOnce
  <2> QED  BY <2>2, <2>3
<1>3. ASSUME NEW i \in DOMAIN op, A!lookupJob(i)
      PROVE  i \in A!Id /\ IoTold' = Append(IoTold, i)
  <2>1. i \in A!Id
    BY <1>0, IoFacts, BoundAssumption DEF IoInv, IoKinds, A!Id
  <2> QED  BY <1>a, <1>3, <2>1 DEF A!lookupJob
<1>4. CASE A!RunCallback
  <2>1. /\ ioQueue # << >> /\ called' = Append(called, Head(ioQueue))
        /\ ioQueue' = Tail(ioQueue)
    BY <1>4 DEF A!RunCallback
  <2> QED  BY <1>t, <2>1, ToldMoves DEF IoTold
<1>5. /\ \A p, c : A!Changes(p, c) => UNCHANGED <<ioQueue, called>>
      /\ A!WaitEnds \/ A!Return \/ MainLeaves \/ A!Gone \/ A!TakeJob
           => UNCHANGED <<ioQueue, called>>
      /\ \A i : A!readJob(i) \/ A!writeJob(i) \/ A!otherJob(i) => UNCHANGED <<ioQueue, called>>
  BY DEF A!Changes, A!WaitEnds, A!Return, MainLeaves, A!Leave, A!LastCallbacks, A!Exit,
     A!Gone, A!TakeJob, A!readJob,
     A!writeJob, A!otherJob
<1> QED  BY <1>1, <1>2, <1>3, <1>4, <1>5, IoNext

LEMMA IoOrderKept == ASSUME IoInv, A!Next
                     PROVE  IoOrder'
<1>0. A!TypeOK /\ IoOrder
  BY DEF IoInv
<1>t. IoTold \in Seq(A!Id)
  BY <1>0, IoFacts
<1>g. ASSUME NEW i \in DOMAIN op
      PROVE  /\ i \in DOMAIN op' /\ op'[i].api = op[i].api
             /\ ~Open(i) => ~Open(i)'
  BY <1>g, IoDone
<1>o. /\ \A k \in DOMAIN IoTold :
            /\ IoTold[k] \in DOMAIN op /\ op[IoTold[k]].api # "wait"
            /\ op[IoTold[k]].api = "lookup" => ~Open(IoTold[k])
      /\ \A j, k \in DOMAIN IoTold :
            /\ IoTold[j] = IoTold[k] => j = k
            /\ j < k /\ op[IoTold[j]].api = "promise" /\ op[IoTold[k]].api = "promise"
                  => IoTold[j] < IoTold[k]
  BY <1>0 DEF IoOrder
<1>d. \A i : Open(i)' = (op'[i].job \notin {"done", "failed"})
  BY DEF Open
<1>1. ASSUME NEW k \in DOMAIN IoTold
      PROVE  /\ IoTold[k] \in DOMAIN op' /\ op'[IoTold[k]].api # "wait"
             /\ op'[IoTold[k]].api = op[IoTold[k]].api
             /\ op'[IoTold[k]].api = "lookup" => op'[IoTold[k]].job \in {"done", "failed"}
  BY <1>1, <1>d, <1>g, <1>o
<1>2. CASE IoTold' = IoTold
  BY <1>1, <1>2, <1>o DEF IoOrder, Open
<1>3. ASSUME NEW i \in A!Id, IoTold' = Append(IoTold, i),
             i \in DOMAIN op', op'[i].api # "wait",
             op'[i].api = "lookup" => op'[i].job \in {"done", "failed"},
             \A k \in DOMAIN IoTold : /\ IoTold[k] # i
                                      /\ op'[i].api = "promise" => IoTold[k] < i
      PROVE  IoOrder'
  <2> DEFINE l == Len(IoTold) + 1
             w == IoTold'
  <2>1. /\ \A j \in DOMAIN IoTold : w[j] = IoTold[j] /\ j < l /\ j \in Nat
        /\ w[l] = i /\ l \in Nat
        /\ \A j \in DOMAIN w : j \in DOMAIN IoTold \/ j = l
    BY <1>t, <1>3, Appended
  <2> HIDE DEF l, w
  <2>2. ASSUME NEW k \in DOMAIN w
        PROVE  /\ w[k] \in DOMAIN op' /\ op'[w[k]].api # "wait"
               /\ op'[w[k]].api = "lookup" => op'[w[k]].job \in {"done", "failed"}
    BY <1>1, <1>3, <2>1
  <2>3. ASSUME NEW j \in DOMAIN w, NEW k \in DOMAIN w, w[j] = w[k]
        PROVE  j = k
    BY <1>3, <1>o, <2>1, <2>3
  <2>4. ASSUME NEW j \in DOMAIN w, NEW k \in DOMAIN w, j < k,
               op'[w[j]].api = "promise", op'[w[k]].api = "promise"
        PROVE  w[j] < w[k]
    <3>1. j \in DOMAIN IoTold
      BY <2>1, <2>4
    <3>2. CASE k \in DOMAIN IoTold
      BY <1>1, <1>o, <2>1, <2>4, <3>1, <3>2
    <3>3. CASE k = l
      BY <1>3, <2>1, <2>4, <3>1, <3>3
    <3> QED  BY <2>1, <3>2, <3>3
  <2> QED  BY <2>2, <2>3, <2>4 DEF IoOrder, Open, w
<1>4. ASSUME NEW p \in Path, NEW k \in Kinds, A!Submit("promise", k, p),
             NEW i \in A!Id, i = Len(op) + 1, IoTold' = Append(IoTold, i)
      PROVE  IoOrder'
  <2>1. "promise" \in A!Api
    BY DEF A!Api
  <2>2. /\ i \in DOMAIN op' /\ op'[i].api = "promise" /\ i \notin DOMAIN op
        /\ \A j \in DOMAIN op : j < i
    BY <1>4, <2>1, IoSubmit
  <2> QED  BY <1>3, <1>4, <1>o, <2>2
<1>5. ASSUME NEW i \in DOMAIN op, i \in A!Id, A!lookupJob(i), IoTold' = Append(IoTold, i)
      PROVE  IoOrder'
  <2>1. op[i].kind = "lookup" /\ op[i].job = "taken" /\ op' = [op EXCEPT ![i].job = "done"]
    BY <1>5 DEF A!lookupJob
  <2>2. op[i].api = "lookup" /\ Open(i) /\ "done" \in Jobs
    BY <2>1 DEF IoInv, IoKinds, Open, Jobs
  <2>3. op'[i].job = "done" /\ i \in DOMAIN op' /\ op'[i].api = "lookup"
    BY <1>0, <1>g, <2>1, <2>2, IoJob
  <2>4. \A k \in DOMAIN IoTold : IoTold[k] # i
    BY <1>o, <2>2
  <2> QED  BY <1>3, <1>5, <2>3, <2>4
<1> QED  BY <1>2, <1>4, <1>5, IoTells

LEMMA IoCalledKept == ASSUME IoInv, A!Next
                      PROVE  IoCalled'
<1>0. A!TypeOK /\ IoCalled /\ IoOrder
  BY DEF IoInv
<1>t. called \in Seq(A!Id) /\ ioQueue \in Seq(A!Id)
  BY <1>0 DEF A!TypeOK
<1>g. ASSUME NEW i \in DOMAIN op
      PROVE  i \in DOMAIN op' /\ (~Open(i) => ~Open(i)')
  BY <1>g, IoDone
<1>d. \A i : Open(i)' = (op'[i].job \notin {"done", "failed"})
  BY DEF Open
<1>1. ASSUME NEW k \in DOMAIN called
      PROVE  called[k] \in DOMAIN op' /\ op'[called[k]].job \in {"done", "failed"}
  BY <1>0, <1>1, <1>d, <1>g DEF IoCalled
<1>2. CASE called' = called
  BY <1>1, <1>2 DEF IoCalled, Open
<1>3. CASE A!RunCallback
  <2> DEFINE i == Head(ioQueue)
             l == Len(called) + 1
  <2>1. called' = Append(called, i) /\ A!Finished(i) /\ ioQueue # << >> /\ op' = op
    BY <1>3 DEF A!RunCallback
  <2>2. i \in A!Id /\ i \in DOMAIN op
    <3>1. i \in A!Id /\ i = ioQueue[1] /\ Len(ioQueue) \in Nat \ {0} /\ Len(called) \in Nat
      BY <1>t, <2>1, HeadTailProperties, LenProperties, EmptySeq
    <3>2. IoTold[l] = ioQueue[1] /\ l \in DOMAIN IoTold
      BY <1>t, <3>1, ConcatProperties, LenProperties DEF IoTold
    <3> QED  BY <1>0, <3>1, <3>2 DEF IoOrder
  <2>3. op'[i].job \in {"done", "failed"}
    BY <2>1 DEF A!Finished
  <2> HIDE DEF i
  <2>4. /\ \A k \in DOMAIN called : called'[k] = called[k]
        /\ called'[l] = i
        /\ \A k \in DOMAIN called' : k \in DOMAIN called \/ k = l
    BY <1>t, <2>1, <2>2, Appended
  <2> HIDE DEF l
  <2>5. ASSUME NEW k \in DOMAIN called'
        PROVE  called'[k] \in DOMAIN op' /\ op'[called'[k]].job \in {"done", "failed"}
    BY <1>1, <2>1, <2>2, <2>3, <2>4
  <2> QED  BY <2>5 DEF IoCalled, Open
<1>4. \/ called' = called
      \/ A!RunCallback
  BY IoNext DEF A!Submit, A!Changes, A!WaitEnds, A!Return, MainLeaves, A!Leave,
     A!LastCallbacks, A!Exit, A!Gone, A!TakeJob,
     A!readJob, A!writeJob, A!otherJob, A!lookupJob
<1> QED  BY <1>2, <1>3, <1>4

\* Nobody waits for a job while the main thread runs or idles.
LEMMA IoNoneWaited ==
  ASSUME IoInv, ioMain.at # "wait" \/ A!WaitEnds, NEW i \in DOMAIN op, op[i].api = "wait"
  PROVE  ~Open(i)
<1>1. SUFFICES ASSUME Open(i) PROVE FALSE
  OBVIOUS
<1>2. ioMain = [at |-> "wait", for |-> i]
  BY <1>1 DEF IoInv, IoWaits
<1>3. A!WaitEnds => ~Open(i)
  BY <1>2 DEF A!WaitEnds, A!Finished, Open
<1> QED  BY <1>1, <1>2, <1>3

LEMMA IoWaitsKept == ASSUME IoInv, A!Next
                     PROVE  IoWaits'
<1>0. A!TypeOK /\ IoWaits
  BY DEF IoInv
<1>d. \A i : Open(i)' = (op'[i].job \notin {"done", "failed"})
  BY DEF Open
<1>g. ASSUME NEW i \in DOMAIN op
      PROVE  /\ i \in DOMAIN op' /\ op'[i].api = op[i].api
             /\ ~Open(i) => op'[i].job \in {"done", "failed"}
  BY <1>d, <1>g, IoDone
<1>j. \A i : A!At("js") # [at |-> "wait", for |-> i]
  BY DEF A!At
<1>1. ASSUME NEW p \in Path, NEW a \in A!Api, NEW k \in Kinds, A!Submit(a, k, p)
      PROVE  IoWaits'
  <2> DEFINE n == Len(op) + 1
  <2>1. /\ \A i \in DOMAIN op' : i \in DOMAIN op \/ i = n
        /\ op'[n].api = a
    BY <1>1, IoSubmit
  <2>2. a = "wait" => ioMain' = [at |-> "wait", for |-> n]
    BY <1>1 DEF A!Submit, A!WaitsFor
  <2>3. ioMain = A!At("js")
    BY <1>1 DEF A!Submit
  <2>4. ioMain.at # "wait"
    BY <2>3 DEF A!At
  <2> HIDE DEF n
  <2>5. ASSUME NEW i \in DOMAIN op', op'[i].api = "wait", op'[i].job \notin {"done", "failed"}
        PROVE  ioMain' = [at |-> "wait", for |-> i]
    BY <1>g, <2>1, <2>2, <2>4, <2>5, IoNoneWaited
  <2> QED  BY <2>5 DEF IoWaits, Open
<1>2. ASSUME DOMAIN op' = DOMAIN op, ioMain.at # "wait" \/ A!WaitEnds
      PROVE  IoWaits'
  <2>1. ASSUME NEW i \in DOMAIN op', op'[i].api = "wait", op'[i].job \notin {"done", "failed"}
        PROVE  FALSE
    BY <1>2, <1>g, <2>1, IoNoneWaited
  <2> QED  BY <2>1 DEF IoWaits, Open
<1>3. ASSUME DOMAIN op' = DOMAIN op, ioMain' = ioMain
      PROVE  IoWaits'
  <2>1. ASSUME NEW i \in DOMAIN op', op'[i].api = "wait", op'[i].job \notin {"done", "failed"}
        PROVE  ioMain' = [at |-> "wait", for |-> i]
    BY <1>0, <1>3, <1>g, <2>1 DEF IoWaits
  <2> QED  BY <2>1 DEF IoWaits, Open
<1>4. ASSUME NEW p \in Path, NEW c, A!Changes(p, c)
      PROVE  DOMAIN op' = DOMAIN op /\ ioMain' = ioMain
  BY <1>0, <1>4, IoChange DEF A!Changes
<1>5. ASSUME \/ A!TakeJob
             \/ \E i \in DOMAIN op :
                  A!readJob(i) \/ A!writeJob(i) \/ A!otherJob(i) \/ A!lookupJob(i)
      PROVE  DOMAIN op' = DOMAIN op /\ ioMain' = ioMain
  <2>1. DOMAIN op' = DOMAIN op
    BY <1>5, IoJobStep
  <2>2. ioMain' = ioMain
    BY <1>5 DEF A!TakeJob, A!readJob, A!writeJob, A!otherJob, A!lookupJob
  <2> QED  BY <2>1, <2>2
<1>6. A!RunCallback \/ A!WaitEnds \/ A!Return \/ MainLeaves \/ A!Gone
        => op' = op /\ (ioMain.at # "wait" \/ A!WaitEnds)
  BY DEF A!RunCallback, A!Return, MainLeaves, A!Leave, A!LastCallbacks, A!Exit, A!Gone,
     A!At, A!WaitEnds
<1> QED  BY <1>1, <1>2, <1>3, <1>4, <1>5, <1>6, IoNext

-----------------------------------------------------------------------------
(* The files                                                               *)

LEMMA IoReadsKept == ASSUME IoInv, A!Next
                     PROVE  IoReads'
<1>0. A!TypeOK /\ IoReads /\ IoKinds
  BY DEF IoInv
<1>d. \A i : /\ Open(i) = (op[i].job \notin {"done", "failed"})
             /\ Open(i)' = (op'[i].job \notin {"done", "failed"})
  BY DEF Open
<1>p. \A i \in DOMAIN op : op[i].path \in Path
  BY <1>0, IoFacts, IoFields
<1>k. disk \in [Path -> A!Content]
  BY <1>0, IoFacts
<1>r. ASSUME NEW i \in DOMAIN op, op[i].kind = "read", op[i].expect # A!Any
      PROVE  /\ ~Open(i) => op[i].got = op[i].expect
             /\ Open(i) => /\ disk[op[i].path] = op[i].expect
                           /\ \A j \in DOMAIN op :
                                ~(op[j].kind = "write" /\ op[j].path = op[i].path /\ Open(j))
  BY <1>0, <1>r DEF IoReads
<1>g. ASSUME NEW i \in DOMAIN op
      PROVE  /\ i \in DOMAIN op' /\ op'[i].kind = op[i].kind /\ op'[i].path = op[i].path
             /\ op'[i].expect \in {op[i].expect, A!Any}
             /\ ~Open(i) => op'[i].job = op[i].job /\ op'[i].got = op[i].got
  BY <1>g, IoGrows DEF Moved
\* It is enough to look at a read that still expects something.
<1>s. ASSUME \A i \in DOMAIN op' :
               op'[i].kind = "read" /\ op'[i].expect # A!Any =>
                 /\ op'[i].job \in {"done", "failed"} => op'[i].got = op'[i].expect
                 /\ op'[i].job \notin {"done", "failed"} =>
                      /\ disk'[op'[i].path] = op'[i].expect
                      /\ \A j \in DOMAIN op' :
                            ~(/\ op'[j].kind = "write" /\ op'[j].path = op'[i].path
                              /\ op'[j].job \notin {"done", "failed"})
      PROVE  IoReads'
  BY <1>s DEF IoReads, Open, A!Any
\* A read that was done is what it was.
<1>o. ASSUME NEW i \in DOMAIN op, ~Open(i), op'[i].kind = "read", op'[i].expect # A!Any
      PROVE  /\ op'[i].job \in {"done", "failed"} /\ op'[i].got = op'[i].expect
  BY <1>d, <1>g, <1>o, <1>r
<1>1. ASSUME NEW p \in Path, NEW a \in A!Api, NEW k \in Kinds,
             (a = "lookup") = (k = "lookup"), A!Submit(a, k, p)
      PROVE  IoReads'
  <2> DEFINE n == Len(op) + 1
  <2>1. /\ \A i \in DOMAIN op' : i \in DOMAIN op \/ i = n
        /\ op'[n].kind = k /\ op'[n].path = p /\ op'[n].job = "queued"
        /\ op'[n].expect # A!Any => /\ k = "read" /\ A!Writing(p) = {}
                                    /\ op'[n].expect = disk[p]
        /\ \A i \in DOMAIN op : op'[i].job = op[i].job
        /\ k = "write" => \A i \in DOMAIN op :
             op[i].kind = "read" /\ op[i].path = p /\ Open(i) => op'[i].expect = A!Any
    BY <1>1, IoSubmit
  <2>2. disk' = disk /\ ioMain.at # "wait"
    BY <1>1 DEF A!Submit, A!At
  <2> HIDE DEF n
  <2>3. ASSUME NEW i \in DOMAIN op, op'[i].kind = "read", op'[i].expect # A!Any, Open(i)
        PROVE  /\ disk'[op'[i].path] = op'[i].expect
               /\ \A j \in DOMAIN op' :
                     ~(/\ op'[j].kind = "write" /\ op'[j].path = op'[i].path
                       /\ op'[j].job \notin {"done", "failed"})
    <3>1. /\ op[i].kind = "read" /\ op[i].expect # A!Any /\ op'[i].expect = op[i].expect
          /\ op'[i].path = op[i].path
      BY <1>g, <2>3
    <3>2. ASSUME NEW j \in DOMAIN op'
          PROVE  ~(/\ op'[j].kind = "write" /\ op'[j].path = op[i].path
                   /\ op'[j].job \notin {"done", "failed"})
      <4>1. CASE j \in DOMAIN op
        BY ZenonT(30), <1>d, <1>g, <1>r, <2>1, <2>3, <3>1, <4>1
      <4>2. CASE j = n
        BY <2>1, <2>3, <3>1, <4>2
      <4> QED  BY <2>1, <4>1, <4>2
    <3> QED  BY <1>r, <2>2, <2>3, <3>1, <3>2
  <2>4. ASSUME op'[n].kind = "read", op'[n].expect # A!Any
        PROVE  /\ disk'[op'[n].path] = op'[n].expect
               /\ \A j \in DOMAIN op' :
                     ~(/\ op'[j].kind = "write" /\ op'[j].path = op'[n].path
                       /\ op'[j].job \notin {"done", "failed"})
    <3>1. ASSUME NEW j \in DOMAIN op, op[j].kind = "write", op[j].path = p, Open(j)
          PROVE  FALSE
      <4>1. op[j].api # "wait"
        BY <2>2, <3>1, IoNoneWaited
      <4>2. op[j].api # "lookup"
        BY <1>0, <3>1 DEF IoKinds
      <4>3. op[j].api \in {"wait", "promise", "lookup"}
        BY <1>0, <3>1, IoFacts, IoFields DEF A!Api
      <4>4. j \in A!Writing(p)
        BY <3>1, <4>1, <4>2, <4>3 DEF A!Writing, A!Finished, Open
      <4> QED  BY <2>1, <2>4, <4>4
    <3>2. ASSUME NEW j \in DOMAIN op'
          PROVE  ~(/\ op'[j].kind = "write" /\ op'[j].path = p
                   /\ op'[j].job \notin {"done", "failed"})
      <4>1. CASE j \in DOMAIN op
        BY <1>d, <1>g, <2>1, <3>1, <4>1
      <4>2. CASE j = n
        BY <2>4, <4>2
      <4> QED  BY <2>1, <4>1, <4>2
    <3> QED  BY <2>1, <2>2, <2>4, <3>2
  <2>5. ASSUME NEW i \in DOMAIN op', op'[i].kind = "read", op'[i].expect # A!Any
        PROVE  /\ op'[i].job \in {"done", "failed"} => op'[i].got = op'[i].expect
               /\ op'[i].job \notin {"done", "failed"} =>
                      /\ disk'[op'[i].path] = op'[i].expect
                      /\ \A j \in DOMAIN op' :
                            ~(/\ op'[j].kind = "write" /\ op'[j].path = op'[i].path
                              /\ op'[j].job \notin {"done", "failed"})
    <3>1. CASE i = n
      BY <2>1, <2>4, <2>5, <3>1
    <3>2. CASE i \in DOMAIN op /\ Open(i)
      BY <1>d, <2>1, <2>3, <2>5, <3>2
    <3>3. CASE i \in DOMAIN op /\ ~Open(i)
      BY <1>o, <2>5, <3>3
    <3> QED  BY <2>1, <3>1, <3>2, <3>3
  <2> QED  BY <1>s, <2>5
\* A step that submits nothing: reads and writes under way stay as they are, or
\* the read is disturbed, or the write is not of its file.
<1>2. ASSUME DOMAIN op' = DOMAIN op,
             \A i \in DOMAIN op :
               op[i].kind = "read" /\ Open(i) /\ op'[i].expect # A!Any =>
                 \/ op'[i].job \in {"done", "failed"} /\ op'[i].got = disk[op[i].path]
                 \/ /\ op'[i].job \notin {"done", "failed"}
                    /\ disk'[op[i].path] = disk[op[i].path]
      PROVE  IoReads'
  <2>1. ASSUME NEW i \in DOMAIN op, op'[i].kind = "read", op'[i].expect # A!Any
        PROVE  /\ op'[i].job \in {"done", "failed"} => op'[i].got = op'[i].expect
               /\ op'[i].job \notin {"done", "failed"} =>
                      /\ disk'[op'[i].path] = op'[i].expect
                      /\ \A j \in DOMAIN op' :
                            ~(/\ op'[j].kind = "write" /\ op'[j].path = op'[i].path
                              /\ op'[j].job \notin {"done", "failed"})
    <3>1. /\ op[i].kind = "read" /\ op[i].expect # A!Any /\ op'[i].expect = op[i].expect
          /\ op'[i].path = op[i].path
      BY <1>g, <2>1
    <3>2. CASE Open(i)
      <4>1. /\ disk[op[i].path] = op[i].expect
            /\ \A j \in DOMAIN op :
                 ~(op[j].kind = "write" /\ op[j].path = op[i].path /\ Open(j))
        BY <1>r, <3>1, <3>2
      <4>2. \A j \in DOMAIN op :
              ~(/\ op'[j].kind = "write" /\ op'[j].path = op[i].path
                /\ op'[j].job \notin {"done", "failed"})
        BY <1>d, <1>g, <4>1
      <4>3. \/ op'[i].job \in {"done", "failed"} /\ op'[i].got = disk[op[i].path]
            \/ /\ op'[i].job \notin {"done", "failed"}
               /\ disk'[op[i].path] = disk[op[i].path]
        BY <1>2, <2>1, <3>1, <3>2
      <4> QED  BY <1>2, <3>1, <4>1, <4>2, <4>3
    <3>3. CASE ~Open(i)
      BY <1>o, <2>1, <3>3
    <3> QED  BY <3>2, <3>3
  <2> QED  BY <1>2, <1>s, <2>1
<1>3. ASSUME NEW p \in Path, NEW c, A!Changes(p, c)
      PROVE  IoReads'
  <2>1. op' = A!Disturb(op, p) /\ disk' = [disk EXCEPT ![p] = c]
    BY <1>3 DEF A!Changes
  <2>2. /\ DOMAIN op' = DOMAIN op /\ \A i \in DOMAIN op : op'[i].job = op[i].job
        /\ \A i \in DOMAIN op : op[i].kind = "read" /\ op[i].path = p /\ Open(i)
                                    => op'[i].expect = A!Any
    BY <1>0, <2>1, IoChange
  <2>3. \A q \in Path : q # p => disk'[q] = disk[q]
    BY <1>k, <2>1
  <2> QED  BY <1>2, <1>d, <1>p, <2>2, <2>3
<1>4. CASE \/ A!TakeJob
           \/ \E i \in DOMAIN op :
                A!readJob(i) \/ A!writeJob(i) \/ A!otherJob(i) \/ A!lookupJob(i)
  <2>1. PICK i \in DOMAIN op :
           /\ DOMAIN op' = DOMAIN op /\ Open(i)
           /\ \A j \in DOMAIN op : j # i => op'[j] = op[j]
           /\ \/ A!TakeJob /\ op'[i].job = "taken"
              \/ A!readJob(i) \/ A!writeJob(i) \/ A!otherJob(i) \/ A!lookupJob(i)
    BY <1>4, IoJobStep
  <2>2. CASE A!TakeJob /\ op'[i].job = "taken"
    <3>1. disk' = disk
      BY <2>2 DEF A!TakeJob
    <3> QED  BY <1>2, <1>d, <2>1, <2>2, <3>1
  <2>3. CASE A!readJob(i)
    <3>1. disk' = disk
      BY <2>3 DEF A!readJob
    <3>2. op'[i].job \in {"done", "failed"} /\ op'[i].got = disk[op[i].path]
      BY <1>0, <2>3, IoReadJob
    <3> QED  BY <1>2, <1>d, <2>1, <3>1, <3>2
  <2>4. CASE A!otherJob(i) \/ A!lookupJob(i)
    <3>1. disk' = disk /\ op[i].kind # "read"
      BY <2>4 DEF A!otherJob, A!lookupJob
    <3> QED  BY <1>2, <1>d, <2>1, <3>1
  <2>5. CASE A!writeJob(i)
    <3>1. op[i].kind = "write"
      BY <2>5 DEF A!writeJob
    <3>2. \A q \in Path : q # op[i].path => disk'[q] = disk[q]
      BY <1>k, <2>5 DEF A!writeJob
    <3>3. ASSUME NEW j \in DOMAIN op, op[j].kind = "read", Open(j), op'[j].expect # A!Any
          PROVE  /\ op'[j].job \notin {"done", "failed"}
                 /\ disk'[op[j].path] = disk[op[j].path]
      <4>1. j # i /\ op'[j] = op[j]
        BY <2>1, <3>1, <3>3
      <4>2. op[j].path # op[i].path
        BY <1>r, <2>1, <3>1, <3>3, <4>1
      <4> QED  BY <1>d, <1>p, <3>2, <3>3, <4>1, <4>2
    <3> QED  BY <1>2, <2>1, <3>3
  <2> QED  BY <2>1, <2>2, <2>3, <2>4, <2>5
<1>5. CASE UNCHANGED <<op, disk>>
  BY <1>2, <1>5, <1>d
<1>6. A!RunCallback \/ A!WaitEnds \/ A!Return \/ MainLeaves \/ A!Gone => UNCHANGED <<op, disk>>
  BY DEF A!RunCallback, A!WaitEnds, A!Return, MainLeaves, A!Leave, A!LastCallbacks,
     A!Exit, A!Gone
<1> QED  BY <1>1, <1>3, <1>4, <1>5, <1>6, IoNext

-----------------------------------------------------------------------------
(* The invariant                                                           *)

\* No more callbacks are queued than operations were started.
LEMMA IoQueueShort == ASSUME IoInv PROVE Len(ioQueue) \in 0..MaxOps
<1>0. A!TypeOK /\ IoOrder
  BY DEF IoInv
<1>t. called \in Seq(A!Id) /\ ioQueue \in Seq(A!Id)
  BY <1>0 DEF A!TypeOK
<1> DEFINE c == Len(called)
           l == Len(ioQueue)
<1>1. /\ c \in Nat /\ l \in Nat /\ ioQueue \in [1..l -> 1..MaxOps]
      /\ \A k \in 1..l : c + k \in DOMAIN IoTold /\ IoTold[c + k] = ioQueue[k]
  <2>1. c \in Nat /\ l \in Nat /\ ioQueue \in [1..l -> 1..MaxOps]
    BY <1>t, LenProperties DEF A!Id
  <2>2. /\ Len(IoTold) = c + l /\ IoTold \in Seq(A!Id)
        /\ \A i \in 1..c + l : IoTold[i] = IF i <= c THEN called[i] ELSE ioQueue[i - c]
    BY <1>t, ConcatProperties DEF IoTold
  <2>3. DOMAIN IoTold = 1..c + l
    BY <2>2, LenProperties
  <2> HIDE DEF c, l
  <2>4. ASSUME NEW k \in 1..l
        PROVE  c + k \in 1..c + l /\ ~(c + k <= c) /\ (c + k) - c = k
    BY <2>1
  <2> QED  BY <2>1, <2>2, <2>3, <2>4
<1> HIDE DEF c, l
<1>2. ASSUME NEW j \in 1..l, NEW k \in 1..l, ioQueue[j] = ioQueue[k]
      PROVE  j = k
  <2>1. IoTold[c + j] = IoTold[c + k] /\ c + j \in DOMAIN IoTold /\ c + k \in DOMAIN IoTold
    BY <1>1, <1>2
  <2>2. c + j = c + k
    BY <1>0, <2>1 DEF IoOrder
  <2> QED  BY <1>1, <2>2
<1>3. ExistsInjection(1..l, 1..MaxOps)
  <2>1. IsInjective(ioQueue)
    BY <1>1, <1>2 DEF IsInjective
  <2> QED  BY <1>1, <2>1 DEF ExistsInjection, Injection
<1>4. l <= MaxOps
  BY <1>1, <1>3, Fun_NatInjLeq, BoundAssumption
<1> QED  BY <1>1, <1>4, BoundAssumption DEF l

LEMMA IoTypes == ASSUME IoInv, A!Next
                 PROVE  A!TypeOK'
<1>0. A!TypeOK /\ IoKinds
  BY DEF IoInv
<1>i. \A i \in DOMAIN op : i \in A!Id /\ i \in A!Content /\ op[i].path \in Path
  BY SMTT(30), <1>0, IoFacts, IoFields, BoundAssumption DEF IoKinds, A!Id, A!Content, A!Absent
<1>1. op' \in Seq(A!Operation)
  BY IoGrows
<1>2. poolQueue' \in Seq(A!Id)
  <2>1. poolQueue \in Seq(A!Id)
    BY <1>0 DEF A!TypeOK
  <2>2. CASE poolQueue' = poolQueue
    BY <2>1, <2>2
  <2>3. ASSUME NEW p \in Path, NEW a \in A!Api, NEW k \in Kinds, A!Submit(a, k, p)
        PROVE  poolQueue' \in Seq(A!Id)
    <3>1. Len(op) + 1 \in A!Id
      BY <2>3, IoSubmit
    <3>2. poolQueue' = Append(poolQueue, Len(op) + 1)
      BY <2>3 DEF A!Submit
    <3> QED  BY <2>1, <3>1, <3>2, AppendProperties
  <2>4. CASE A!TakeJob
    BY <2>1, <2>4, HeadTailProperties DEF A!TakeJob
  <2>5. /\ \A p, c : A!Changes(p, c) => poolQueue' = poolQueue
        /\ \A i : A!readJob(i) \/ A!writeJob(i) \/ A!otherJob(i) \/ A!lookupJob(i)
                    => poolQueue' = poolQueue
        /\ A!RunCallback \/ A!WaitEnds \/ A!Return \/ MainLeaves \/ A!Gone
             => poolQueue' = poolQueue
    BY DEF A!Changes, A!readJob, A!writeJob, A!otherJob, A!lookupJob, A!RunCallback,
       A!WaitEnds, A!Return, MainLeaves, A!Leave, A!LastCallbacks, A!Exit, A!Gone
  <2> QED  BY <2>2, <2>3, <2>4, <2>5, IoNext
<1>3. ioQueue' \in Seq(A!Id) /\ called' \in Seq(A!Id)
  <2>1. ioQueue \in Seq(A!Id) /\ called \in Seq(A!Id)
    BY <1>0 DEF A!TypeOK
  <2>2. CASE UNCHANGED <<ioQueue, called>>
    BY <2>1, <2>2
  <2>3. ASSUME NEW p \in Path, NEW a \in A!Api, NEW k \in Kinds, A!Submit(a, k, p)
        PROVE  ioQueue' \in Seq(A!Id) /\ called' \in Seq(A!Id)
    <3>1. Len(op) + 1 \in A!Id
      BY <2>3, IoSubmit
    <3>2. /\ ioQueue' \in {ioQueue, Append(ioQueue, Len(op) + 1)} /\ called' = called
      BY <2>3 DEF A!Submit
    <3> QED  BY <2>1, <3>1, <3>2, AppendProperties
  <2>4. ASSUME NEW i \in DOMAIN op, A!lookupJob(i)
        PROVE  ioQueue' \in Seq(A!Id) /\ called' \in Seq(A!Id)
    <3>1. i \in A!Id /\ ioQueue' = Append(ioQueue, i) /\ called' = called
      BY <1>i, <2>4 DEF A!lookupJob
    <3> QED  BY <2>1, <3>1, AppendProperties
  <2>5. CASE A!RunCallback
    <3>1. /\ ioQueue # << >> /\ ioQueue' = Tail(ioQueue)
          /\ called' = Append(called, Head(ioQueue))
      BY <2>5 DEF A!RunCallback
    <3>2. Head(ioQueue) \in A!Id /\ Tail(ioQueue) \in Seq(A!Id)
      BY <2>1, <3>1, HeadTailProperties
    <3> QED  BY <2>1, <3>1, <3>2, AppendProperties
  <2>6. /\ \A p, c : A!Changes(p, c) => UNCHANGED <<ioQueue, called>>
        /\ \A i : A!readJob(i) \/ A!writeJob(i) \/ A!otherJob(i)
                    => UNCHANGED <<ioQueue, called>>
        /\ A!TakeJob \/ A!WaitEnds \/ A!Return \/ MainLeaves \/ A!Gone
             => UNCHANGED <<ioQueue, called>>
    BY DEF A!Changes, A!readJob, A!writeJob, A!otherJob, A!TakeJob,
       A!WaitEnds, A!Return, MainLeaves, A!Leave, A!LastCallbacks, A!Exit, A!Gone
  <2> QED  BY <2>2, <2>3, <2>4, <2>5, <2>6, IoNext
<1>4. disk' \in [Path -> A!Content]
  <2>1. disk \in [Path -> A!Content] /\ A!Other \in A!Content /\ A!Absent \in A!Content
    BY <1>0, BoundAssumption DEF A!TypeOK, A!Content, A!Absent, A!Other
  <2>2. CASE disk' = disk
    BY <2>1, <2>2
  <2>3. ASSUME NEW p \in Path, NEW c \in {A!Other, A!Absent}, A!Changes(p, c)
        PROVE  disk' \in [Path -> A!Content]
    BY <2>1, <2>3 DEF A!Changes
  <2>4. ASSUME NEW i \in DOMAIN op, A!writeJob(i)
        PROVE  disk' \in [Path -> A!Content]
    BY <1>i, <2>1, <2>4 DEF A!writeJob
  <2>5. /\ \A a, k, p : A!Submit(a, k, p) => disk' = disk
        /\ \A i : A!readJob(i) \/ A!lookupJob(i) \/ A!otherJob(i) => disk' = disk
        /\ A!RunCallback \/ A!TakeJob \/ A!WaitEnds \/ A!Return \/ MainLeaves \/ A!Gone
             => disk' = disk
    BY DEF A!Submit, A!readJob, A!lookupJob, A!otherJob, A!TakeJob, A!RunCallback,
       A!WaitEnds, A!Return, MainLeaves, A!Leave, A!LastCallbacks, A!Exit, A!Gone
  <2> QED  BY <2>2, <2>3, <2>4, <2>5, IoNext
<1>5. ioMain' \in [at : {"js", "idle", "wait", "leave", "exit"}, for : 0..MaxOps]
  <2>1. ioMain \in [at : {"js", "idle", "wait", "leave", "exit"}, for : 0..MaxOps]
    BY <1>0 DEF A!TypeOK
  <2>2. \A x \in {"js", "idle", "leave", "exit"} :
            A!At(x) \in [at : {"js", "idle", "wait", "leave", "exit"}, for : 0..MaxOps]
    BY BoundAssumption DEF A!At
  <2>3. ASSUME NEW p \in Path, NEW a \in A!Api, NEW k \in Kinds, A!Submit(a, k, p)
        PROVE  ioMain' \in [at : {"js", "idle", "wait", "leave", "exit"}, for : 0..MaxOps]
    <3>1. Len(op) + 1 \in 0..MaxOps
      BY <2>3, IoSubmit, BoundAssumption DEF A!Id
    <3>2. ioMain' \in {ioMain, [at |-> "wait", for |-> Len(op) + 1]}
      BY <2>3 DEF A!Submit, A!WaitsFor
    <3> QED  BY <2>1, <3>1, <3>2
  <2>4. /\ \A p, c : A!Changes(p, c) => ioMain' = ioMain
        /\ \A i : A!readJob(i) \/ A!writeJob(i) \/ A!otherJob(i) \/ A!lookupJob(i)
                    => ioMain' = ioMain
        /\ A!TakeJob \/ A!Gone => ioMain' = ioMain
        /\ A!WaitEnds \/ A!Return \/ MainLeaves \/ A!RunCallback
             => ioMain' \in {ioMain, A!At("js"), A!At("idle"), A!At("leave"), A!At("exit")}
    BY DEF A!Changes, A!readJob, A!writeJob, A!otherJob, A!lookupJob, A!RunCallback,
       A!WaitEnds, A!Return, MainLeaves, A!Leave, A!LastCallbacks, A!Exit, A!Gone, A!TakeJob
  <2> QED  BY <2>1, <2>2, <2>3, <2>4, IoNext
<1>6. ioLast' \in -1..MaxOps
  <2>1. ioLast \in -1..MaxOps
    BY <1>0 DEF A!TypeOK
  <2>2. CASE ioLast' = ioLast
    BY <2>1, <2>2
  <2>3. CASE A!RunCallback
    <3>1. ioLast' \in {ioLast, ioLast - 1} /\ (ioLast' = ioLast - 1 => ioLast > 0 \/ ioLast' = ioLast)
      BY <2>3 DEF A!RunCallback
    <3> QED  BY <2>1, <3>1, BoundAssumption
  <2>4. CASE ioLast' = Len(ioQueue)
    BY <2>4, IoQueueShort, BoundAssumption
  <2>5. /\ \A a, k, p : A!Submit(a, k, p) => ioLast' = ioLast
        /\ \A p, c : A!Changes(p, c) => ioLast' = ioLast
        /\ \A i : A!readJob(i) \/ A!writeJob(i) \/ A!otherJob(i) \/ A!lookupJob(i)
                    => ioLast' = ioLast
        /\ A!TakeJob \/ A!Gone \/ A!WaitEnds \/ A!Return => ioLast' = ioLast
        /\ MainLeaves => ioLast' = ioLast \/ ioLast' = Len(ioQueue)
    BY DEF A!Submit, A!Changes, A!readJob, A!writeJob, A!otherJob, A!lookupJob,
       A!WaitEnds, A!Return, MainLeaves, A!Leave, A!LastCallbacks, A!Exit, A!Gone, A!TakeJob
  <2> QED  BY <2>2, <2>3, <2>4, <2>5, IoNext
<1>7. ioFate' \in {"alive", "crashed", "gone"}
  BY IoNext DEF A!Submit, A!Changes, A!readJob, A!writeJob, A!otherJob, A!lookupJob,
     A!WaitEnds, A!Return, MainLeaves, A!Leave, A!LastCallbacks, A!Exit, A!Gone,
     A!TakeJob, A!RunCallback, A!Defined, A!Undefined
<1> QED  BY <1>1, <1>2, <1>3, <1>4, <1>5, <1>6, <1>7 DEF A!TypeOK

LEMMA IoInvariant == Spec => []IoInv
<1>1. Init => IoInv
  BY IoStart DEF Init, In
<1>2. IoInv /\ [Next]_vars => IoInv'
  <2> SUFFICES ASSUME IoInv, [Next]_vars
               PROVE  IoInv'
    OBVIOUS
  <2>1. CASE A!Next
    <3>1. IoKinds'
      BY <2>1, IoGrows
    <3> QED
      BY <2>1, <3>1, IoTypes, IoPoolKept, IoOrderKept, IoCalledKept, IoWaitsKept, IoReadsKept
      DEF IoInv
  <2>2. CASE UNCHANGED ioVars
    BY <2>2, IoStutter
  <2> QED
    BY <2>1, <2>2 DEF Next, vars
<1> QED
  BY <1>1, <1>2, PTL DEF Spec

LEMMA IoInvSafe == ASSUME IoInv PROVE A!Safety
<1>0. A!TypeOK /\ IoOrder /\ IoCalled /\ IoReads
  BY DEF IoInv
<1>1. A!CallbacksInOrder
  <2>1. called \in Seq(A!Id) /\ ioQueue \in Seq(A!Id)
    BY <1>0 DEF A!TypeOK
  <2>2. \A k \in DOMAIN called : k \in DOMAIN IoTold /\ IoTold[k] = called[k]
    <3>1. /\ Len(IoTold) = Len(called) + Len(ioQueue) /\ IoTold \in Seq(A!Id)
          /\ \A i \in 1..Len(called) + Len(ioQueue) :
                IoTold[i] = IF i <= Len(called) THEN called[i] ELSE ioQueue[i - Len(called)]
      BY <2>1, ConcatProperties DEF IoTold
    <3>2. /\ DOMAIN IoTold = 1..Len(called) + Len(ioQueue)
          /\ DOMAIN called = 1..Len(called) /\ Len(called) \in Nat /\ Len(ioQueue) \in Nat
      BY <2>1, <3>1, LenProperties
    <3> QED  BY <3>1, <3>2
  <2>3. ASSUME NEW j \in DOMAIN called, NEW k \in DOMAIN called, j < k,
               op[called[j]].api = "promise", op[called[k]].api = "promise"
        PROVE  called[j] < called[k]
    BY <1>0, <2>2, <2>3 DEF IoOrder
  <2> QED  BY <1>0, <2>3 DEF A!CallbacksInOrder, IoCalled, Open, A!Finished
<1>2. A!ReadsSeeWrites
  BY <1>0 DEF A!ReadsSeeWrites, IoReads, Open, A!Finished
<1> QED  BY <1>1, <1>2 DEF A!Safety

\* io, fs and dns: for any number of operations, files and threads of the pool,
\* the callbacks of file operations run in the order of the calls, each after
\* its own job, and a read that no change of its file overlaps gets what the
\* file held when it was started: io.writeFile has written when it returns
\* (readFile, writeFile, promisesReadFile, promisesWriteFile).
THEOREM FilesInOrder == Spec => []FileSafety
<1>1. IoInv => FileSafety
  BY IoInvSafe DEF FileSafety
<1> QED
  BY <1>1, IoInvariant, PTL

\* The variables of all six services keep their types, the counter of callbacks
\* left to run after the 30 seconds and the descriptors of http included.
THEOREM ServicesTypeCorrect == Spec => []TypesOK
<1>1. NetInv /\ DgramInv /\ HttpInv /\ ProcInv /\ IoInv /\ DebuggerInv => TypesOK
  BY DEF NetInv, DgramInv, HttpInv, ProcInv, IoInv, DebuggerInv, TypesOK
<1> QED
  BY <1>1, NetInvariant, DgramInvariant, HttpInvariant, ProcInvariant, IoInvariant,
     DebuggerInvariant, PTL
=============================================================================
