----------------------------- MODULE Processes -----------------------------
(***************************************************************************)
(* child_process (src/src/modules/child_process/ChildProcessModule.cpp)    *)
(* and cluster (src/src/modules/cluster/ClusterModule.cpp).                *)
(*                                                                         *)
(* A child has two reader threads, one per pipe, and a detached thread     *)
(* that waits for its end.  The readers stop at the flags spawned and      *)
(* killed, so output that is still in a pipe may be lost.  The data of a   *)
(* child holds a reference to its own object and is deleted only when      *)
(* pipe() or fork() fails, which leaves the object with a dangling pointer.*)
(*                                                                         *)
(* A worker of a cluster exits as soon as it is forked (.cpp:169).  The    *)
(* master keeps its end of the socket pair; nothing ignores SIGPIPE.       *)
(*                                                                         *)
(* Bound: a script uses one of the two modules, which share only the loop. *)
(* Left out: commands and arguments, emitters, and childSend(), which      *)
(* sends nothing.                                                          *)
(***************************************************************************)
EXTENDS Naturals, Sequences

CONSTANTS
    Stream,     \* "stdout" and "stderr"
    MaxChunks,  \* bound: chunks the child writes to each stream
    MaxForks    \* bound: calls of cluster.fork()

VARIABLES
    child,      \* ChildProcessData and the process it names
    waiter,     \* the thread that waits for the process
    reader,     \* the reader thread of each stream
    pipe,       \* chunks in each pipe
    written,    \* chunks written to each stream so far
    holding,    \* the chunk in the buffer of each reader, 0 if none
    workers,    \* the workers of the cluster, in the order of fork()
    procMain,   \* "js", "idle" or "exit" while the runtime is freed
    procQueue,  \* callbacks: records [kind, item]
    shown,      \* those that ran
    procFate

childVars == <<child, waiter, reader, pipe, written, holding>>
vars == <<childVars, workers, procMain, procQueue, shown, procFate>>

Event == [kind : Stream \cup {"exit", "online"}, item : Nat]
ChildProcessData ==
    [data : {"none", "live", "dangling"}, spawned : BOOLEAN, killed : BOOLEAN,
     process : {"none", "running", "zombie", "reaped"}]
WorkerData == [end : BOOLEAN, disconnected : BOOLEAN, killed : BOOLEAN,
               forked : BOOLEAN, closes : 0..3]

TypeOK ==
    /\ child \in ChildProcessData
    /\ waiter \in {"none", "wait", "flag", "post", "ended"}
    /\ reader \in [Stream -> {"none", "test", "read", "emit", "ended"}]
    /\ pipe \in [Stream -> Seq(1..MaxChunks)]
    /\ written \in [Stream -> 0..MaxChunks]
    /\ holding \in [Stream -> 0..MaxChunks]
    /\ workers \in Seq(WorkerData)
    /\ procMain \in {"js", "idle", "exit"}
    /\ procQueue \in Seq(Event) /\ shown \in Seq(Event)
    /\ procFate \in {"alive", "crashed", "killed", "gone"}

Start ==
    /\ child = [data |-> "none", spawned |-> FALSE, killed |-> FALSE,
                process |-> "none"]
    /\ waiter = "none"
    /\ reader = [s \in Stream |-> "none"]
    /\ pipe = [s \in Stream |-> << >>]
    /\ written = [s \in Stream |-> 0]
    /\ holding = [s \in Stream |-> 0]
    /\ workers = << >>
    /\ procMain = "js" /\ procQueue = << >> /\ shown = << >>

Init == Start /\ procFate = "alive"

Undefined(cond) ==
    /\ procFate = "alive"
    /\ procFate' \in IF cond THEN {"alive", "crashed"} ELSE {"alive"}

Defined == Undefined(FALSE)

Post(kind, item) == procQueue' = Append(procQueue, [kind |-> kind, item |-> item])

-----------------------------------------------------------------------------
(* child_process                                                           *)

\* spawn(), exec(), execFile() and fork() are one function.
spawnProcess ==
    /\ procMain = "js" /\ Defined
    /\ child.data = "none" /\ workers = << >>
    /\ child' = [child EXCEPT !.data = "live", !.spawned = TRUE,
                              !.process = "running"]
    /\ waiter' = "wait"
    /\ reader' = [s \in Stream |-> "test"]
    /\ UNCHANGED <<pipe, written, holding, workers, procMain, procQueue, shown>>

\* pipe() or fork() fails: the data is deleted, the object still points to it.
spawnFails ==
    /\ procMain = "js" /\ Defined
    /\ child.data = "none"
    /\ child' = [child EXCEPT !.data = "dangling"]
    /\ UNCHANGED <<waiter, reader, pipe, written, holding, workers, procMain,
                   procQueue, shown>>

\* kill() signals whatever process has the number now, and stops the readers.
childKill ==
    /\ procMain = "js"
    /\ \/ /\ child.data = "dangling" /\ Undefined(TRUE)
          /\ UNCHANGED child
       \/ /\ child.data = "live" /\ Defined
          /\ child' = [child EXCEPT !.killed = TRUE,
                 !.process = IF @ = "running" THEN "zombie" ELSE @]
    /\ UNCHANGED <<waiter, reader, pipe, written, holding, workers, procMain,
                   procQueue, shown>>

\* Slip: both threads read the pipe of standard output.
SourceOfStdout(s) == "stdout"

\* The pipe the reader of a stream reads.
SourceOf(s) == s

\* The loop test, and read() on the descriptor of the stream.
readOutput(s) ==
    /\ Defined
    /\ \/ /\ reader[s] = "test"
          /\ reader' = [reader EXCEPT ![s] =
                 IF child.spawned /\ ~child.killed THEN "read" ELSE "ended"]
          /\ UNCHANGED <<pipe, holding>>
       \/ /\ reader[s] = "read" /\ pipe[SourceOf(s)] # << >>
          /\ holding' = [holding EXCEPT ![s] = Head(pipe[SourceOf(s)])]
          /\ pipe' = [pipe EXCEPT ![SourceOf(s)] = Tail(@)]
          /\ reader' = [reader EXCEPT ![s] = "emit"]
       \/ /\ reader[s] = "read" /\ pipe[SourceOf(s)] = << >>
          /\ child.process # "running"
          /\ reader' = [reader EXCEPT ![s] = "ended"]
          /\ UNCHANGED <<pipe, holding>>
    /\ UNCHANGED <<child, waiter, written, workers, procMain, procQueue, shown>>

\* The values of the event are made in the main runtime, on this thread.
emitOutput(s) ==
    /\ reader[s] = "emit" /\ Undefined(procMain # "idle")
    /\ Post(s, holding[s])
    /\ holding' = [holding EXCEPT ![s] = 0]
    /\ reader' = [reader EXCEPT ![s] = "test"]
    /\ UNCHANGED <<child, waiter, pipe, written, workers, procMain, shown>>

\* waitpid() returns; the flag is reset; the exit event is posted.
waitForExit ==
    /\ Defined
    /\ \/ /\ waiter = "wait" /\ child.process = "zombie"
          /\ child' = [child EXCEPT !.process = "reaped"]
          /\ waiter' = "flag" /\ UNCHANGED procQueue
       \/ /\ waiter = "flag"
          /\ child' = [child EXCEPT !.spawned = FALSE]
          /\ waiter' = "post" /\ UNCHANGED procQueue
       \/ /\ waiter = "post"
          /\ Post("exit", 0)
          /\ waiter' = "ended" /\ UNCHANGED child
    /\ UNCHANGED <<reader, pipe, written, holding, workers, procMain, shown>>

\* The process writes, or ends by itself.
ChildRuns ==
    /\ child.process = "running" /\ Defined
    /\ \/ \E s \in Stream :
             /\ written[s] < MaxChunks
             /\ written' = [written EXCEPT ![s] = @ + 1]
             /\ pipe' = [pipe EXCEPT ![s] = Append(@, written'[s])]
             /\ UNCHANGED child
       \/ /\ child' = [child EXCEPT !.process = "zombie"]
          /\ UNCHANGED <<pipe, written>>
    /\ UNCHANGED <<waiter, reader, holding, workers, procMain, procQueue, shown>>

-----------------------------------------------------------------------------
(* cluster                                                                 *)

\* fork(): the parent closes the read end and keeps the other.  If fork()
\* fails both ends are closed by the destructor and again by the caller.
clusterFork ==
    /\ procMain = "js" /\ Defined
    /\ Len(workers) < MaxForks /\ child.data = "none"
    /\ \E ok \in BOOLEAN :
        /\ workers' = Append(workers, [end |-> ok, disconnected |-> FALSE,
               killed |-> FALSE, forked |-> ok, closes |-> IF ok THEN 0 ELSE 2])
        /\ IF ok THEN Post("online", Len(workers')) ELSE UNCHANGED procQueue
    /\ UNCHANGED <<childVars, procMain, shown>>

\* send() writes to the socket pair.  The worker has exited, or is about to:
\* once it has, the write raises SIGPIPE.
workerSend(w) ==
    /\ procMain = "js" /\ procFate = "alive"
    /\ workers[w].forked
    /\ ~workers[w].disconnected /\ ~workers[w].killed
    /\ workers[w].end
    /\ procFate' \in {"alive", "killed"}
    /\ UNCHANGED <<childVars, workers, procMain, procQueue, shown>>

workerDisconnect(w) ==
    /\ procMain = "js" /\ Defined
    /\ workers[w].forked
    /\ LET closed == workers[w].closes + (IF workers[w].end THEN 1 ELSE 0)
       IN  workers' = [workers EXCEPT ![w] =
               [@ EXCEPT !.disconnected = TRUE, !.end = FALSE, !.closes = closed]]
    /\ UNCHANGED <<childVars, procMain, procQueue, shown>>

\* kill() signals a process that nobody ever waits for.
workerKill(w) ==
    /\ procMain = "js" /\ Defined
    /\ workers[w].forked
    /\ workers' = [workers EXCEPT ![w].killed = TRUE]
    /\ UNCHANGED <<childVars, procMain, procQueue, shown>>

-----------------------------------------------------------------------------
(* The main thread, and the whole                                          *)

Deliver ==
    /\ procMain = "idle" /\ procQueue # << >> /\ Defined
    /\ shown' = Append(shown, Head(procQueue))
    /\ procQueue' = Tail(procQueue)
    /\ procMain' = "js"
    /\ UNCHANGED <<childVars, workers>>

\* main() leaves when the queue is empty, whatever runs, and the process ends
\* with its threads.
MainLoop ==
    /\ \/ procMain = "js" /\ procMain' = "idle" /\ Defined
       \/ procMain = "idle" /\ procQueue = << >> /\ procMain' = "exit" /\ Defined
       \/ /\ procMain = "exit" /\ procFate = "alive"
          /\ procFate' = "gone" /\ UNCHANGED procMain
    /\ UNCHANGED <<childVars, workers, procQueue, shown>>

Next ==
    \/ spawnProcess \/ spawnFails \/ childKill \/ waitForExit \/ ChildRuns
    \/ (\E s \in Stream : readOutput(s) \/ emitOutput(s))
    \/ clusterFork
    \/ (\E w \in DOMAIN workers :
            workerSend(w) \/ workerDisconnect(w) \/ workerKill(w))
    \/ Deliver \/ MainLoop

Spec == Init /\ [][Next]_vars

\* Of each stream the script sees a prefix of what the child wrote, in order and
\* without gaps, whatever the readers miss at the end; exit is reported at most
\* once and only for a child that was reaped.
OutputIsPrefix ==
    LET events == shown \o procQueue
        Of(k)  == {i \in DOMAIN events : events[i].kind = k}
    IN  /\ \A s \in Stream : \A i \in Of(s) :
            /\ events[i].item \in 1..written[s]
            /\ \A j \in Of(s) : j < i => events[j].item < events[i].item
            /\ \A n \in 1..events[i].item : \E j \in Of(s) : events[j].item = n
        /\ \A i, j \in Of("exit") : i = j
        /\ Of("exit") # {} => child.process = "reaped" /\ ~child.spawned

\* The master closes its end of a worker's channel at most once, unless the
\* fork failed.
ClosedOnce == \A w \in DOMAIN workers : workers[w].forked => workers[w].closes <= 1

Safety == OutputIsPrefix /\ ClosedOnce

=============================================================================
