----------------------------- MODULE ThreadPool ------------------------------
(***************************************************************************)
(* protojs::ThreadPoolExecutor (src/src/ThreadPoolExecutor.{h,cpp}): a     *)
(* fixed set of worker threads, a FIFO of tasks, one mutex and ONE         *)
(* condition variable, on which the workers wait for tasks and a thread    *)
(* inside shutdown() waits for the pool to become idle.                    *)
(*                                                                         *)
(* A critical section that only touches data guarded by queueMutex is one  *)
(* atomic step.  The steps that matter for interleaving are kept apart:    *)
(* every notify_one / notify_all happens after the mutex was released      *)
(* (ThreadPoolExecutor.h:63, .cpp:32,60,113), activeCount is decremented   *)
(* without the mutex (.cpp:110), and shutdown() holds the mutex between    *)
(* the evaluation of its wait predicate and the moment it starts to wait.  *)
(***************************************************************************)
EXTENDS Naturals, Sequences, FiniteSets, SequencesExt

CONSTANTS
    Worker,     \* threads created by the constructor (.cpp:17-20)
    Client,     \* threads that call submit()
    Closer,     \* the thread that calls shutdown() or shutdownNow()
    Task,       \* the callables that are submitted, each one once
    None        \* the moved-from std::function of a worker with no task

ASSUME ThreadAssumption ==
    /\ IsFiniteSet(Worker)
    /\ Worker # {}              \* .cpp:13-15 refuses numThreads == 0
    /\ Closer \notin Worker
    /\ None \notin Task

VARIABLES
    taskQueue,        \* std::queue of the accepted tasks, oldest first
    shutdownFlag,
    shutdownNowFlag,
    activeCount,      \* std::atomic<size_t>
    waitset,          \* the threads blocked in condition.wait
    workerPc,         \* where each worker is in workerThread()
    task,             \* the local variable task of each worker
    clientPc,         \* a client is "idle" or about to notify_one
    closerPc,         \* where the closer is in shutdown()/shutdownNow()
    future            \* state of the std::future of each task

vars == <<taskQueue, shutdownFlag, shutdownNowFlag, activeCount, waitset,
          workerPc, task, clientPc, closerPc, future>>

WorkerPc == {"take", "run", "retire", "notify", "exited"}
CloserPc == {"open", "notify", "check", "block", "notifyNow", "join", "closed"}
Future   == {"none", "pending", "ready", "broken", "refused"}

TypeOK ==
    /\ taskQueue \in Seq(Task)
    /\ shutdownFlag \in BOOLEAN
    /\ shutdownNowFlag \in BOOLEAN
    /\ activeCount \in Nat
    /\ waitset \subseteq Worker \cup {Closer}
    /\ workerPc \in [Worker -> WorkerPc]
    /\ task \in [Worker -> Task \cup {None}]
    /\ clientPc \in [Client -> {"idle", "notify"}]
    /\ closerPc \in CloserPc
    /\ future \in [Task -> Future]

Init ==
    /\ taskQueue = << >>
    /\ shutdownFlag = FALSE
    /\ shutdownNowFlag = FALSE
    /\ activeCount = 0
    /\ waitset = {}
    /\ workerPc = [w \in Worker |-> "take"]
    /\ task = [w \in Worker |-> None]
    /\ clientPc = [c \in Client |-> "idle"]
    /\ closerPc = "open"
    /\ future = [t \in Task |-> "none"]

(***************************************************************************)
(* The only thread that keeps queueMutex between two steps is the closer,  *)
(* from the failed evaluation of its predicate to the wait.                *)
(***************************************************************************)
MutexFree == closerPc # "block"

-----------------------------------------------------------------------------
(* submit(), ThreadPoolExecutor.h:42-65 *)

\* Slip: the notify_one after the push is forgotten.
SubmitSilent(c, t) ==
    /\ clientPc[c] = "idle"
    /\ future[t] = "none"
    /\ MutexFree
    /\ ~shutdownFlag
    /\ taskQueue' = Append(taskQueue, t)
    /\ future' = [future EXCEPT ![t] = "pending"]
    /\ UNCHANGED <<shutdownFlag, shutdownNowFlag, activeCount, waitset,
                   workerPc, task, clientPc, closerPc>>

Submit(c, t) ==
    /\ clientPc[c] = "idle"
    /\ future[t] = "none"
    /\ MutexFree
    /\ ~shutdownFlag
    /\ taskQueue' = Append(taskQueue, t)
    /\ future' = [future EXCEPT ![t] = "pending"]
    /\ clientPc' = [clientPc EXCEPT ![c] = "notify"]
    /\ UNCHANGED <<shutdownFlag, shutdownNowFlag, activeCount, waitset,
                   workerPc, task, closerPc>>

SubmitThrows(c, t) ==
    /\ clientPc[c] = "idle"
    /\ future[t] = "none"
    /\ MutexFree
    /\ shutdownFlag
    /\ future' = [future EXCEPT ![t] = "refused"]
    /\ UNCHANGED <<taskQueue, shutdownFlag, shutdownNowFlag, activeCount,
                   waitset, workerPc, task, clientPc, closerPc>>

\* What is left of a wait set after a notify_one: any one waiter is woken.
OneWoken(S) == IF S = {} THEN {S} ELSE {S \ {x} : x \in S}

NotifyOne(c) ==
    /\ clientPc[c] = "notify"
    /\ waitset' \in OneWoken(waitset)
    /\ clientPc' = [clientPc EXCEPT ![c] = "idle"]
    /\ UNCHANGED <<taskQueue, shutdownFlag, shutdownNowFlag, activeCount,
                   workerPc, task, closerPc, future>>

-----------------------------------------------------------------------------
(* workerThread(), ThreadPoolExecutor.cpp:78-115 *)

\* Slip: a worker leaves as soon as it sees the flag, tasks queued or not.
MustExitAtOnce == shutdownFlag

MustExit == shutdownFlag /\ (taskQueue = << >> \/ shutdownNowFlag)

AtTake(w) == workerPc[w] = "take" /\ w \notin waitset /\ MutexFree

\* Slip: the wait predicate tests the queue only, not "|| shutdownFlag".
WaitForTaskOnly(w) ==
    /\ AtTake(w)
    /\ taskQueue = << >>
    /\ waitset' = waitset \cup {w}
    /\ UNCHANGED <<taskQueue, shutdownFlag, shutdownNowFlag, activeCount,
                   workerPc, task, clientPc, closerPc, future>>

Wait(w) ==
    /\ AtTake(w)
    /\ taskQueue = << >>
    /\ ~shutdownFlag
    /\ waitset' = waitset \cup {w}
    /\ UNCHANGED <<taskQueue, shutdownFlag, shutdownNowFlag, activeCount,
                   workerPc, task, clientPc, closerPc, future>>

Exit(w) ==
    /\ AtTake(w)
    /\ MustExit
    /\ workerPc' = [workerPc EXCEPT ![w] = "exited"]
    /\ UNCHANGED <<taskQueue, shutdownFlag, shutdownNowFlag, activeCount,
                   waitset, task, clientPc, closerPc, future>>

\* A worker pops task t, leaves the queue rest and sets activeCount, all in
\* one critical section (.cpp:83-98).
TakeTask(w, t, rest, count) ==
    /\ AtTake(w)
    /\ taskQueue # << >>
    /\ ~MustExit
    /\ task' = [task EXCEPT ![w] = t]
    /\ taskQueue' = rest
    /\ activeCount' = count
    /\ workerPc' = [workerPc EXCEPT ![w] = "run"]
    /\ UNCHANGED <<shutdownFlag, shutdownNowFlag, waitset, clientPc,
                   closerPc, future>>

\* Slips: activeCount++ forgotten; front() without pop(); newest task first.
TakeUncounted(w) == TakeTask(w, Head(taskQueue), Tail(taskQueue), activeCount)
TakeCopy(w)      == TakeTask(w, Head(taskQueue), taskQueue, activeCount + 1)
TakeNewest(w)    == TakeTask(w, Last(taskQueue), Front(taskQueue), activeCount + 1)

Take(w) == TakeTask(w, Head(taskQueue), Tail(taskQueue), activeCount + 1)

(***************************************************************************)
(* The packaged_task stores a value or an exception in the future; either  *)
(* way the worker goes on (.cpp:101-108).                                  *)
(***************************************************************************)
Run(w) ==
    /\ workerPc[w] = "run"
    /\ future' = [future EXCEPT ![task[w]] = "ready"]
    /\ workerPc' = [workerPc EXCEPT ![w] = "retire"]
    /\ UNCHANGED <<taskQueue, shutdownFlag, shutdownNowFlag, activeCount,
                   waitset, task, clientPc, closerPc>>

\* activeCount-- without queueMutex (.cpp:110)
Retire(w) ==
    /\ workerPc[w] = "retire"
    /\ activeCount' = activeCount - 1
    /\ workerPc' = [workerPc EXCEPT ![w] = "notify"]
    /\ UNCHANGED <<taskQueue, shutdownFlag, shutdownNowFlag, waitset, task,
                   clientPc, closerPc, future>>

\* notify_all, and the task local dies at the end of the iteration (.cpp:113)
NotifyAll(w) ==
    /\ workerPc[w] = "notify"
    /\ waitset' = {}
    /\ task' = [task EXCEPT ![w] = None]
    /\ workerPc' = [workerPc EXCEPT ![w] = "take"]
    /\ UNCHANGED <<taskQueue, shutdownFlag, shutdownNowFlag, activeCount,
                   clientPc, closerPc, future>>

-----------------------------------------------------------------------------
(* shutdown() and shutdownNow(), ThreadPoolExecutor.cpp:27-67.  The        *)
(* destructor (.cpp:23-25) calls shutdown() once more on a closed pool.    *)

Shutdown ==
    /\ closerPc \in {"open", "closed"}
    /\ shutdownFlag' = TRUE
    /\ closerPc' = "notify"
    /\ UNCHANGED <<taskQueue, shutdownNowFlag, activeCount, waitset,
                   workerPc, task, clientPc, future>>

ShutdownNotify ==
    /\ closerPc = "notify"
    /\ waitset' = {}
    /\ closerPc' = "check"
    /\ UNCHANGED <<taskQueue, shutdownFlag, shutdownNowFlag, activeCount,
                   workerPc, task, clientPc, future>>

\* The predicate of condition.wait, evaluated with queueMutex held (.cpp:36-38)
Idle == taskQueue = << >> /\ activeCount = 0

ShutdownCheck ==
    /\ closerPc = "check"
    /\ Closer \notin waitset
    /\ closerPc' = IF Idle THEN "join" ELSE "block"
    /\ UNCHANGED <<taskQueue, shutdownFlag, shutdownNowFlag, activeCount,
                   waitset, workerPc, task, clientPc, future>>

ShutdownBlock ==
    /\ closerPc = "block"
    /\ waitset' = waitset \cup {Closer}
    /\ closerPc' = "check"
    /\ UNCHANGED <<taskQueue, shutdownFlag, shutdownNowFlag, activeCount,
                   workerPc, task, clientPc, future>>

ShutdownNow ==
    /\ closerPc \in {"open", "closed"}
    /\ shutdownNowFlag' = TRUE
    /\ shutdownFlag' = TRUE
    /\ taskQueue' = << >>
    /\ future' = [t \in Task |-> IF t \in ToSet(taskQueue) THEN "broken"
                                                            ELSE future[t]]
    /\ closerPc' = "notifyNow"
    /\ UNCHANGED <<activeCount, waitset, workerPc, task, clientPc>>

\* Slip: shutdownNow() clears the queue but wakes nobody.
ShutdownNowSilent ==
    /\ closerPc = "notifyNow"
    /\ closerPc' = "join"
    /\ UNCHANGED <<taskQueue, shutdownFlag, shutdownNowFlag, activeCount,
                   waitset, workerPc, task, clientPc, future>>

ShutdownNowNotify ==
    /\ closerPc = "notifyNow"
    /\ waitset' = {}
    /\ closerPc' = "join"
    /\ UNCHANGED <<taskQueue, shutdownFlag, shutdownNowFlag, activeCount,
                   workerPc, task, clientPc, future>>

\* Slip: the threads are detached instead of joined.
JoinNobody ==
    /\ closerPc = "join"
    /\ closerPc' = "closed"
    /\ UNCHANGED <<taskQueue, shutdownFlag, shutdownNowFlag, activeCount,
                   waitset, workerPc, task, clientPc, future>>

\* The loop of joins returns when every worker left workerThread().
Join ==
    /\ closerPc = "join"
    /\ \A w \in Worker : workerPc[w] = "exited"
    /\ closerPc' = "closed"
    /\ UNCHANGED <<taskQueue, shutdownFlag, shutdownNowFlag, activeCount,
                   waitset, workerPc, task, clientPc, future>>

-----------------------------------------------------------------------------
(* A condition variable may wake a waiter that nobody notified. *)
SpuriousWakeup ==
    /\ \E x \in waitset : waitset' = waitset \ {x}
    /\ UNCHANGED <<taskQueue, shutdownFlag, shutdownNowFlag, activeCount,
                   workerPc, task, clientPc, closerPc, future>>

WorkerStep(w) ==
    Wait(w) \/ Exit(w) \/ Take(w) \/ Run(w) \/ Retire(w) \/ NotifyAll(w)

ClientCall(c) == \E t \in Task : Submit(c, t) \/ SubmitThrows(c, t)

\* What the closer does once it called shutdown() or shutdownNow().
CloserStep ==
    \/ ShutdownNotify \/ ShutdownCheck \/ ShutdownBlock
    \/ ShutdownNowNotify \/ Join

Next ==
    \/ \E w \in Worker : WorkerStep(w)
    \/ \E c \in Client : ClientCall(c) \/ NotifyOne(c)
    \/ Shutdown \/ ShutdownNow \/ CloserStep
    \/ SpuriousWakeup

(***************************************************************************)
(* A thread that can take a step of the pool's own code takes it: the      *)
(* operating system schedules every runnable thread, tasks terminate, and  *)
(* every critical section is short.  A worker gets a mutex that is released *)
(* again and again, hence the strong fairness.  Calling submit() or        *)
(* shutdown() is the caller's choice; nobody may count on spurious wakeups.*)
(***************************************************************************)
Fairness ==
    /\ \A w \in Worker : SF_vars(WorkerStep(w))
    /\ \A c \in Client : WF_vars(NotifyOne(c))
    /\ WF_vars(CloserStep)

Spec == Init /\ [][Next]_vars /\ Fairness

-----------------------------------------------------------------------------
(* Properties *)

Active(w)  == workerPc[w] \in {"run", "retire"}
Running(w) == workerPc[w] = "run"
Exited(w)  == workerPc[w] = "exited"
Queued     == ToSet(taskQueue)
InProgress == {task[w] : w \in {v \in Worker : Running(v)}}

\* activeCount (read by getActiveCount() and by the predicate of shutdown())
\* is the number of workers between the pop of a task and its decrement,
\* although the two updates happen under different rules (.cpp:96, 110).
ActiveCountExact == activeCount = Cardinality({w \in Worker : Active(w)})

\* An accepted task whose future is not ready is in exactly one place: once
\* in the queue, or in the hands of one worker.  Nothing is lost, and nothing
\* runs twice (.h:58, .cpp:94-95).
PendingAccounted ==
    /\ IsInjective(taskQueue)
    /\ \A v, w \in Worker :
          Running(v) /\ Running(w) /\ task[v] = task[w] => v = w
    /\ \A w \in Worker : Running(w) => task[w] \notin Queued
    /\ {t \in Task : future[t] = "pending"} =
          Queued \cup InProgress

\* No lost wakeup for tasks: while a task is queued, some worker is awake or
\* some thread still owes a notification, whoever consumed the notify_one of
\* the submission (.h:63, .cpp:32,60,85,113).
NoStrandedTask ==
    taskQueue # << >> =>
        \/ \E w \in Worker : ~Exited(w) /\ w \notin waitset
        \/ \E c \in Client : clientPc[c] = "notify"
        \/ closerPc = "notify"

\* When shutdown() or shutdownNow() has returned every thread is gone, no
\* future is left pending, and only an immediate shutdown broke promises
\* (.h:67-79: already queued tasks will complete).
ShutdownDrains ==
    closerPc = "closed" =>
        /\ \A w \in Worker : Exited(w)
        /\ \A t \in Task : future[t] # "pending"
        /\ (\E t \in Task : future[t] = "broken") => shutdownNowFlag
        /\ activeCount = 0

\* No worker sleeps through a shutdown: once the notify_all of the closer is
\* done, no worker waits, so the joins end (.cpp:32, 60, 85-87).
NoSleeperAfterClose ==
    shutdownFlag /\ closerPc \notin {"notify", "notifyNow"}
        => waitset \subseteq {Closer}

\* The inductive invariant of the proofs: the properties above and what makes
\* them stable.  Only a worker about to take a task waits; the closer waits
\* only inside its predicate; the flags follow the closer; and a worker exits
\* only when nothing can be queued any more.
SleepersReady ==
    /\ \A w \in Worker : w \in waitset => workerPc[w] = "take"
    /\ Closer \in waitset => closerPc = "check"

FlagsFollowCloser ==
    /\ shutdownFlag <=> closerPc # "open"
    /\ shutdownNowFlag => shutdownFlag /\ taskQueue = << >>
    /\ (\E t \in Task : future[t] = "broken") => shutdownNowFlag

ExitIsFinal ==
    /\ \A w \in Worker : Exited(w) => shutdownFlag /\ taskQueue = << >>
    /\ closerPc = "closed" => \A w \in Worker : Exited(w)

HoldsTask == \A w \in Worker : Running(w) => task[w] \in Task

IInv ==
    /\ TypeOK
    /\ HoldsTask
    /\ ActiveCountExact
    /\ PendingAccounted
    /\ SleepersReady
    /\ FlagsFollowCloser
    /\ ExitIsFinal
    /\ NoSleeperAfterClose
    /\ NoStrandedTask

\* Every accepted task is eventually executed, unless it is abandoned by
\* shutdownNow() (.h:70, 77).
AcceptedCompletes ==
    \A t \in Task : future[t] = "pending" ~> future[t] \in {"ready", "broken"}

\* After the call of either shutdown every worker thread leaves
\* workerThread(): none waits for ever for a task that cannot come.
WorkersTerminate ==
    shutdownFlag ~> \A w \in Worker : Exited(w)

\* shutdownNow() returns: it waits for nothing but the joins (.cpp:48-67).
ShutdownNowReturns == closerPc = "notifyNow" ~> closerPc = "closed"

\* shutdown() returns once the queued tasks completed.  The code does not
\* guarantee it: see the run ThreadPoolShutdownHang.
ShutdownReturns == closerPc = "notify" ~> closerPc = "closed"

-----------------------------------------------------------------------------
(* The refinement mapping: the tasks in progress are those of the workers at *)
(* "run", and callers see of the closer only whether a shutdown was called   *)
(* and whether it returned.                                                  *)

Phase ==
    CASE ~shutdownFlag -> "open"
      [] shutdownFlag /\ closerPc = "closed" -> "returned"
      [] shutdownFlag /\ closerPc # "closed" -> "closing"

Service == INSTANCE TaskService WITH
    PoolSize   <- Cardinality(Worker),
    backlog    <- taskQueue,
    inProgress <- InProgress,
    outcome    <- future,
    phase      <- Phase

\* The executor implements the service: each step is a step of TaskService or
\* invisible there, and the tasks make the progress the service promises.
ImplementsService == Service!Spec

\* The part of it that says which steps are allowed (proved for all instances).
ImplementsServiceSafety ==
    Service!Init /\ [][Service!Next]_(Service!vars)
=============================================================================
