------------------------------ MODULE EventLoop ------------------------------
(***************************************************************************)
(* protojs::EventLoop (src/src/EventLoop.{h,cpp}): worker and I/O threads  *)
(* enqueue callbacks, one thread executes them, either inside run(), which *)
(* sleeps on a condition variable, or by polling processCallbacks() as     *)
(* main.cpp:237-250 does.                                                  *)
(*                                                                         *)
(* enqueueCallback() pushes under queueMutex and notifies after releasing  *)
(* it.  run() keeps queueMutex from the failed test of its predicate until *)
(* it sleeps, but stop() writes running without that mutex                 *)
(* (EventLoop.cpp:62-65), so it can fall in between.                       *)
(***************************************************************************)
EXTENDS Naturals, Sequences, FiniteSets, SequencesExt

CONSTANTS
    Producer,   \* threads that call enqueueCallback()
    Callback    \* the callbacks, each enqueued at most once

VARIABLES
    callbackQueue,  \* std::queue of callbacks
    batch,          \* callbacksToProcess, local to processCallbacks()
    running,        \* std::atomic<bool>
    asleep,         \* the loop thread is blocked in condition.wait
    loopPc,         \* where the loop thread is
    inRun,          \* whether processCallbacks() was called by run()
    producerPc,     \* a producer is "idle" or about to notify_one
    stopperPc,      \* the thread calling stop(): "idle" or about to notify_all
    pushed,         \* history: the callbacks in the order of their push
    executed        \* history: the callbacks in the order of their execution

vars == <<callbackQueue, batch, running, asleep, loopPc, inRun, producerPc,
          stopperPc, pushed, executed>>

LoopPc == {"out", "begin", "while", "check", "sleep", "swap", "batch"}

TypeOK ==
    /\ callbackQueue \in Seq(Callback)
    /\ batch \in Seq(Callback)
    /\ running \in BOOLEAN
    /\ asleep \in BOOLEAN
    /\ loopPc \in LoopPc
    /\ inRun \in BOOLEAN
    /\ producerPc \in [Producer -> {"idle", "notify"}]
    /\ stopperPc \in {"idle", "notify"}
    /\ pushed \in Seq(Callback) /\ IsInjective(pushed)
    /\ executed \in Seq(Callback) /\ IsInjective(executed)

Init ==
    /\ callbackQueue = << >>
    /\ batch = << >>
    /\ running = FALSE
    /\ asleep = FALSE
    /\ loopPc = "out"
    /\ inRun = FALSE
    /\ producerPc = [p \in Producer |-> "idle"]
    /\ stopperPc = "idle"
    /\ pushed = << >>
    /\ executed = << >>

\* The loop thread holds queueMutex between its predicate and its sleep.
MutexFree == loopPc # "sleep"

-----------------------------------------------------------------------------
(* enqueueCallback(), EventLoop.cpp:12-18 *)

Push(c) ==
    /\ MutexFree
    /\ c \notin ToSet(pushed)
    /\ callbackQueue' = Append(callbackQueue, c)
    /\ pushed' = Append(pushed, c)

\* Slip: the producer does not notify.
EnqueueSilent(p, c) ==
    /\ producerPc[p] = "idle"
    /\ Push(c)
    /\ UNCHANGED <<batch, running, asleep, loopPc, inRun, producerPc,
                   stopperPc, executed>>

Enqueue(p, c) ==
    /\ producerPc[p] = "idle"
    /\ Push(c)
    /\ producerPc' = [producerPc EXCEPT ![p] = "notify"]
    /\ UNCHANGED <<batch, running, asleep, loopPc, inRun, stopperPc, executed>>

NotifyOne(p) ==
    /\ producerPc[p] = "notify"
    /\ asleep' = FALSE
    /\ producerPc' = [producerPc EXCEPT ![p] = "idle"]
    /\ UNCHANGED <<callbackQueue, batch, running, loopPc, inRun, stopperPc,
                   pushed, executed>>

-----------------------------------------------------------------------------
(* processCallbacks(), EventLoop.cpp:20-41 *)

\* main.cpp calls it directly, outside run().
CallProcess ==
    /\ loopPc = "out"
    /\ loopPc' = "swap"
    /\ UNCHANGED <<callbackQueue, batch, running, asleep, inRun, producerPc,
                   stopperPc, pushed, executed>>

\* Slip: the queue is copied into the batch and cleared later, by another
\* critical section, after the batch ran.
SwapLate ==
    /\ loopPc = "swap"
    /\ batch' = callbackQueue
    /\ loopPc' = "batch"
    /\ UNCHANGED <<callbackQueue, running, asleep, inRun, producerPc,
                   stopperPc, pushed, executed>>

Swap ==
    /\ loopPc = "swap"
    /\ batch' = callbackQueue
    /\ callbackQueue' = << >>
    /\ loopPc' = "batch"
    /\ UNCHANGED <<running, asleep, inRun, producerPc, stopperPc, pushed,
                   executed>>

\* Slip: an exception leaves processCallbacks() and the rest of the batch dies.
ExecuteOrAbort ==
    /\ loopPc = "batch"
    /\ batch # << >>
    /\ executed' = Append(executed, Head(batch))
    /\ batch' \in {Tail(batch), << >>}
    /\ UNCHANGED <<callbackQueue, running, asleep, loopPc, inRun, producerPc,
                   stopperPc, pushed>>

(***************************************************************************)
(* One callback runs; it may throw, which changes nothing here, or enqueue *)
(* another callback: enqueueCallback() on the loop thread, whose           *)
(* notify_one finds nobody asleep.                                         *)
(***************************************************************************)
Execute ==
    /\ loopPc = "batch"
    /\ batch # << >>
    /\ executed' = Append(executed, Head(batch))
    /\ batch' = Tail(batch)
    /\ \/ UNCHANGED <<callbackQueue, pushed>>
       \/ \E c \in Callback : Push(c)
    /\ UNCHANGED <<running, asleep, loopPc, inRun, producerPc, stopperPc>>

BatchDone ==
    /\ loopPc = "batch"
    /\ batch = << >>
    /\ loopPc' = IF inRun THEN "while" ELSE "out"
    /\ UNCHANGED <<callbackQueue, batch, running, asleep, inRun, producerPc,
                   stopperPc, pushed, executed>>

-----------------------------------------------------------------------------
(* run(), EventLoop.cpp:43-60 *)

CallRun ==
    /\ loopPc = "out"
    /\ inRun' = TRUE
    /\ loopPc' = "begin"
    /\ UNCHANGED <<callbackQueue, batch, running, asleep, producerPc,
                   stopperPc, pushed, executed>>

\* running = true, whatever stop() wrote before (.cpp:44)
Begin ==
    /\ loopPc = "begin"
    /\ running' = TRUE
    /\ loopPc' = "while"
    /\ UNCHANGED <<callbackQueue, batch, asleep, inRun, producerPc, stopperPc,
                   pushed, executed>>

While ==
    /\ loopPc = "while"
    /\ loopPc' = IF running THEN "check" ELSE "out"
    /\ inRun' = running
    /\ UNCHANGED <<callbackQueue, batch, running, asleep, producerPc,
                   stopperPc, pushed, executed>>

AtCheck == loopPc = "check" /\ ~asleep

\* The predicate is false; the mutex stays locked until Sleep.
CheckFalse ==
    /\ AtCheck
    /\ callbackQueue = << >> /\ running
    /\ loopPc' = "sleep"
    /\ UNCHANGED <<callbackQueue, batch, running, asleep, inRun, producerPc,
                   stopperPc, pushed, executed>>

\* The predicate is true: leave when stopped with nothing queued, else process.
CheckTrue ==
    /\ AtCheck
    /\ callbackQueue # << >> \/ ~running
    /\ LET leave == ~running /\ callbackQueue = << >>
       IN  /\ loopPc' = IF leave THEN "out" ELSE "swap"
           /\ inRun' = ~leave
    /\ UNCHANGED <<callbackQueue, batch, running, asleep, producerPc,
                   stopperPc, pushed, executed>>

\* condition.wait blocks and releases queueMutex.
Sleep ==
    /\ loopPc = "sleep"
    /\ asleep' = TRUE
    /\ loopPc' = "check"
    /\ UNCHANGED <<callbackQueue, batch, running, inRun, producerPc,
                   stopperPc, pushed, executed>>

SpuriousWakeup ==
    /\ asleep
    /\ asleep' = FALSE
    /\ UNCHANGED <<callbackQueue, batch, running, loopPc, inRun, producerPc,
                   stopperPc, pushed, executed>>

-----------------------------------------------------------------------------
(* stop(), EventLoop.cpp:62-65: running is written without queueMutex *)

Stop ==
    /\ stopperPc = "idle"
    /\ running' = FALSE
    /\ stopperPc' = "notify"
    /\ UNCHANGED <<callbackQueue, batch, asleep, loopPc, inRun, producerPc,
                   pushed, executed>>

StopNotify ==
    /\ stopperPc = "notify"
    /\ asleep' = FALSE
    /\ stopperPc' = "idle"
    /\ UNCHANGED <<callbackQueue, batch, running, loopPc, inRun, producerPc,
                   pushed, executed>>

-----------------------------------------------------------------------------
LoopStep ==
    \/ Swap \/ Execute \/ BatchDone
    \/ Begin \/ While \/ CheckFalse \/ CheckTrue \/ Sleep

Next ==
    \/ \E p \in Producer : NotifyOne(p) \/ \E c \in Callback : Enqueue(p, c)
    \/ CallProcess \/ CallRun \/ LoopStep
    \/ Stop \/ StopNotify
    \/ SpuriousWakeup

(***************************************************************************)
(* The loop thread is scheduled and callbacks return; a producer or a      *)
(* stopper that changed the state gets to its notification.  Nobody has to *)
(* call run(), processCallbacks(), enqueueCallback() or stop().            *)
(***************************************************************************)
Fairness ==
    /\ WF_vars(LoopStep)
    /\ \A p \in Producer : WF_vars(NotifyOne(p))
    /\ WF_vars(StopNotify)

Spec == Init /\ [][Next]_vars /\ Fairness

-----------------------------------------------------------------------------
(* Properties *)

\* Callbacks run exactly once and in the order in which they were enqueued,
\* across batches, exceptions and callbacks that enqueue others: what ran, what
\* the current batch still holds and what is queued is what was pushed
\* (EventLoop.cpp:21-40).
FifoOnce == executed \o batch \o callbackQueue = pushed

\* The loop never sleeps on a queued callback unless a thread still owes it a
\* notification (.cpp:17, 49-51).
NoStrandedCallback ==
    asleep /\ callbackQueue # << >> =>
        \/ stopperPc = "notify"
        \/ \E p \in Producer : producerPc[p] = "notify"

\* The inductive invariant of the proofs: the properties above and what makes
\* them stable.  The loop sleeps only inside condition.wait, goes to sleep only
\* with an empty queue (the mutex keeps it empty), and holds a batch only while
\* it executes it.
LoopPlace ==
    /\ asleep => loopPc = "check"
    /\ loopPc = "sleep" => callbackQueue = << >>
    /\ batch # << >> => loopPc = "batch"

IInv ==
    /\ TypeOK
    /\ LoopPlace
    /\ FifoOnce
    /\ NoStrandedCallback

\* While the loop thread is inside run() every queued callback is executed,
\* unless stop() makes run() return first (EventLoop.h:38-43).
QueuedIsExecuted ==
    \A c \in Callback :
        inRun /\ c \in ToSet(callbackQueue) ~> c \in ToSet(executed) \/ ~inRun
=============================================================================
