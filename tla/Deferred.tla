------------------------------ MODULE Deferred -------------------------------
(***************************************************************************)
(* The life of Deferred objects (src/src/Deferred.{h,cpp}) from the script *)
(* that constructs them to the exit of the process (src/src/main.cpp,      *)
(* JSContext.cpp): the main thread evaluates a script, polls the event     *)
(* loop, shuts the CPU pool down, frees the JavaScript runtime and runs    *)
(* the static destructors; worker threads execute the deferred functions   *)
(* and post callbacks to the main thread.                                  *)
(*                                                                         *)
(* The pool is the service of TaskService: tasks start in FIFO order, at   *)
(* most PoolSize at a time, and a shutdown returns when all completed.     *)
(*                                                                         *)
(* The constructor makes two DeferredTask structs for one function buffer  *)
(* (Deferred.cpp:97, 110).  The shared one, held by the closure of the     *)
(* pool task and by every posted callback, frees the buffer when its last  *)
(* reference goes (Deferred.h:57-65); the private one, held by the         *)
(* JavaScript object, frees it in the finalizer (Deferred.cpp:120-143).    *)
(* Freeing twice, and using freed memory, is undefined: the process goes   *)
(* on or crashes.                                                          *)
(***************************************************************************)
EXTENDS Naturals, Sequences, FiniteSets, SequencesExt

CONSTANTS
    D,          \* the Deferred objects a script may construct
    PoolSize    \* worker threads of the CPU pool

VARIABLES
    phase,      \* where the main thread is in main() and beyond
    object,     \* the JavaScript object: "none", "live" or "finalized"
    private,    \* its own DeferredTask: the promise state then() reads
    shared,     \* the DeferredTask behind the shared_ptr
    backlog,    \* pool tasks not started, oldest first
    stage,      \* where the worker is with each deferred function
    outcome,    \* what the function did (chosen by the script)
    events,     \* EventLoop::callbackQueue: <<deferred, kind>>
    batch,      \* callbacks taken by processCallbacks()
    calls,      \* how often resolve and reject were called
    runtime,    \* the main JSRuntime: "alive" or "freed"
    lateFree,   \* some buffer was returned to a freed runtime
    crashed     \* undefined behaviour ended the process

mainVars   == <<phase, batch, runtime>>
workerVars == <<backlog, stage, outcome>>
vars == <<mainVars, workerVars, object, private, shared, events, calls,
          lateFree, crashed>>

Phase == {"script", "test", "swap", "process", "nap", "lastSwap", "last",
          "drain", "free", "exit", "done"}
Stage == {"none", "queued", "loaded", "callable", "returned", "ending", "done"}
Outcome == {"none", "value", "opaqueValue", "error", "opaqueError",
            "uncalled"}
Kind == {"settle", "reject"}
Promise == [isResolved : BOOLEAN, then : {"none", "registered", "called"}]
Task == [refs : 0..3, hasError : BOOLEAN, result : BOOLEAN, funcFrees : 0..2,
         resultFrees : 0..1]
Calls == [resolve : 0..1, reject : 0..2]

TypeOK ==
    /\ phase \in Phase
    /\ object \in [D -> {"none", "live", "finalized"}]
    /\ private \in [D -> Promise]
    /\ shared \in [D -> Task]
    /\ backlog \in Seq(D)
    /\ stage \in [D -> Stage]
    /\ outcome \in [D -> Outcome]
    /\ events \in Seq(D \X Kind)
    /\ batch \in Seq(D \X Kind)
    /\ calls \in [D -> Calls]
    /\ runtime \in {"alive", "freed"}
    /\ lateFree \in BOOLEAN
    /\ crashed \in BOOLEAN

Init ==
    /\ phase = "script"
    /\ object = [d \in D |-> "none"]
    /\ private = [d \in D |-> [isResolved |-> FALSE, then |-> "none"]]
    /\ shared = [d \in D |-> [refs |-> 0, hasError |-> FALSE, result |-> FALSE,
                              funcFrees |-> 0, resultFrees |-> 0]]
    /\ backlog = << >>
    /\ stage = [d \in D |-> "none"]
    /\ outcome = [d \in D |-> "none"]
    /\ events = << >>
    /\ batch = << >>
    /\ calls = [d \in D |-> [resolve |-> 0, reject |-> 0]]
    /\ runtime = "alive"
    /\ lateFree = FALSE
    /\ crashed = FALSE

-----------------------------------------------------------------------------
(* The shared task *)

FreeFunc(task)   == [task EXCEPT !.funcFrees = @ + 1]
FreeResult(task) ==
    IF task.result
    THEN [task EXCEPT !.result = FALSE, !.resultFrees = @ + 1]
    ELSE task

\* One shared_ptr less; the last one runs ~DeferredTask.
Release(task) ==
    IF task.refs = 1
    THEN [FreeResult(FreeFunc(task)) EXCEPT !.refs = 0]
    ELSE [task EXCEPT !.refs = @ - 1]

\* Whether a step that turns before into after freed a buffer twice.
FreedAgain(before, after) ==
    before.funcFrees > 0 /\ after.funcFrees > before.funcFrees

\* A step of a live process, which may crash if cond makes it undefined.
Undefined(cond) ==
    /\ ~crashed
    /\ crashed' \in IF cond THEN BOOLEAN ELSE {FALSE}

Defined == Undefined(FALSE)

\* enqueueCallback with a closure that captures the shared task.
Post(d, kind) == events' = Append(events, <<d, kind>>)

-----------------------------------------------------------------------------
(* The script: construction, then(), loss of the last reference            *)

\* Deferred::constructor with a serializable function (Deferred.cpp:46-118).
\* The errors thrown before line 97 leave no task behind.
Construct(d) ==
    /\ phase = "script"
    /\ object[d] = "none"
    /\ object' = [object EXCEPT ![d] = "live"]
    /\ shared' = [shared EXCEPT ![d].refs = 1]
    /\ backlog' = Append(backlog, d)
    /\ stage' = [stage EXCEPT ![d] = "queued"]
    /\ Defined
    /\ UNCHANGED <<mainVars, private, outcome, events, calls, lateFree>>

\* Deferred::then (Deferred.cpp:145-165)
Then(d) ==
    /\ phase = "script"
    /\ object[d] = "live"
    /\ private' = [private EXCEPT ![d].then =
                      IF private[d].isResolved THEN "called" ELSE "registered"]
    /\ Defined
    /\ UNCHANGED <<mainVars, workerVars, object, shared, events, calls,
                   lateFree>>

\* Deferred::finalizer (Deferred.cpp:120-143): the private struct never has a
\* result, its copy having been made before the function ran.
Finalize(d) ==
    /\ object[d] = "live"
    /\ object' = [object EXCEPT ![d] = "finalized"]
    /\ shared' = [shared EXCEPT ![d] = FreeFunc(@)]
    /\ Undefined(FreedAgain(shared[d], shared'[d]))

\* The script, or other JavaScript run by a callback, drops the last reference.
Drop(d) ==
    /\ phase \in {"script", "process", "last"}
    /\ Finalize(d)
    /\ UNCHANGED <<mainVars, workerVars, private, events, calls, lateFree>>

-----------------------------------------------------------------------------
(* workerThreadExecution(), Deferred.cpp:198-428 *)

InPool == {d \in D : stage[d] \in {"loaded", "callable", "returned", "ending"}}

\* A worker takes the task.  The first task of a worker creates the worker's
\* own runtime and context, which may fail (.cpp:205-240).
StartTask ==
    /\ backlog # << >>
    /\ Cardinality(InPool) < PoolSize
    /\ LET d == Head(backlog)
       IN  /\ backlog' = Tail(backlog)
           /\ \/ /\ stage' = [stage EXCEPT ![d] = "loaded"]
                 /\ UNCHANGED <<outcome, shared, events>>
              \/ /\ stage' = [stage EXCEPT ![d] = "ending"]
                 /\ outcome' = [outcome EXCEPT ![d] = "uncalled"]
                 /\ shared' = [shared EXCEPT ![d].hasError = TRUE,
                                             ![d].refs = @ + 1]
                 /\ Post(d, "reject")
    /\ Defined
    /\ UNCHANGED <<mainVars, object, private, calls, lateFree>>

\* JS_ReadObject reads the function buffer (.cpp:244-263).
Deserialize(d) ==
    /\ stage[d] = "loaded"
    /\ \/ /\ stage' = [stage EXCEPT ![d] = "callable"]
          /\ UNCHANGED <<outcome, shared, events>>
       \/ /\ stage' = [stage EXCEPT ![d] = "ending"]
          /\ outcome' = [outcome EXCEPT ![d] = "uncalled"]
          /\ shared' = [shared EXCEPT ![d].hasError = TRUE, ![d].refs = @ + 1]
          /\ Post(d, "reject")
    /\ Undefined(shared[d].funcFrees > 0)
    /\ UNCHANGED <<mainVars, backlog, object, private, calls, lateFree>>

\* Slip: hasError is not set when the function throws.
StoredNoError(o) ==
    [hasError |-> FALSE, result |-> o \in {"error", "value"}]

\* What the worker leaves in the task for each outcome: an error, and a result
\* if it could be serialized and copied.
Stored(o) ==
    [hasError |-> o \in {"error", "opaqueError"},
     result   |-> o \in {"error", "value"}]

\* Slip: the error path that posts its own rejection does so for any error.
FallbackAlways(o) == o \in {"error", "opaqueError"}

\* An error that cannot be serialized or copied posts a rejection at once, in
\* addition to the final callback (.cpp:291-319).
Fallback(o) == o = "opaqueError"

\* JS_Call and the serialization of its outcome (.cpp:271-352)
Execute(d) ==
    /\ stage[d] = "callable"
    /\ \E o \in {"value", "opaqueValue", "error", "opaqueError"} :
          /\ outcome' = [outcome EXCEPT ![d] = o]
          /\ shared' = [shared EXCEPT
                           ![d].hasError = Stored(o).hasError,
                           ![d].result   = Stored(o).result,
                           ![d].refs     = IF Fallback(o) THEN @ + 1 ELSE @]
          /\ IF Fallback(o) THEN Post(d, "reject") ELSE UNCHANGED events
    /\ stage' = [stage EXCEPT ![d] = "returned"]
    /\ Defined
    /\ UNCHANGED <<mainVars, backlog, object, private, calls, lateFree>>

\* Slip: the final callback captures a raw pointer instead of the shared_ptr.
PostSettleRaw(d) ==
    /\ stage[d] = "returned"
    /\ Post(d, "settle")
    /\ stage' = [stage EXCEPT ![d] = "ending"]
    /\ Defined
    /\ UNCHANGED <<mainVars, backlog, outcome, object, private, shared, calls,
                   lateFree>>

\* The callback that resolves or rejects (.cpp:357)
PostSettle(d) ==
    /\ stage[d] = "returned"
    /\ shared' = [shared EXCEPT ![d].refs = @ + 1]
    /\ Post(d, "settle")
    /\ stage' = [stage EXCEPT ![d] = "ending"]
    /\ Defined
    /\ UNCHANGED <<mainVars, backlog, outcome, object, private, calls,
                   lateFree>>

\* The closure of the pool task is destroyed by the worker.
EndTask(d) ==
    /\ stage[d] = "ending"
    /\ shared' = [shared EXCEPT ![d] = Release(@)]
    /\ stage' = [stage EXCEPT ![d] = "done"]
    /\ Undefined(FreedAgain(shared[d], shared'[d]))
    /\ UNCHANGED <<mainVars, backlog, outcome, object, private, events, calls,
                   lateFree>>

WorkerStep(d) == Deserialize(d) \/ Execute(d) \/ PostSettle(d) \/ EndTask(d)

-----------------------------------------------------------------------------
(* The callbacks on the main thread                                        *)

\* Which function a callback calls (.cpp:214-218, 311-315, 357-407): the final
\* one decides by hasError, the others always reject.
Called(d, kind) ==
    IF kind = "settle" /\ ~shared[d].hasError THEN "resolve" ELSE "reject"

\* Slip: the final callback frees the result without clearing the pointer.
AfterCallbackDangling(d, kind) ==
    IF kind = "settle" /\ shared[d].result
    THEN Release([shared[d] EXCEPT !.resultFrees = @ + 1])
    ELSE Release(shared[d])

\* The final callback frees the result and clears the pointer (.cpp:410-414);
\* then the closure and its reference die.
AfterCallback(d, kind) ==
    IF kind = "settle" THEN Release(FreeResult(shared[d]))
                       ELSE Release(shared[d])

\* resolve and reject belong to the object: its finalizer freed them.
RunCallback ==
    /\ phase \in {"process", "last"}
    /\ batch # << >>
    /\ LET d == Head(batch)[1]
           kind == Head(batch)[2]
       IN  /\ calls' = [calls EXCEPT ![d][Called(d, kind)] = @ + 1]
           /\ shared' = [shared EXCEPT ![d] = AfterCallback(d, kind)]
           /\ Undefined(\/ object[d] = "finalized"
                        \/ FreedAgain(shared[d], shared'[d]))
    /\ batch' = Tail(batch)
    /\ UNCHANGED <<phase, runtime, workerVars, object, private, events, lateFree>>

-----------------------------------------------------------------------------
(* main() after the script (main.cpp:232-254) *)

Goto(from, to) ==
    /\ phase = from
    /\ phase' = to
    /\ Defined
    /\ UNCHANGED <<batch, runtime, workerVars, object, private, shared, events,
                   calls, lateFree>>

EndScript == Goto("script", "test")

\* while (hasPendingCallbacks()), main.cpp:237
Test == Goto("test", IF events # << >> THEN "swap" ELSE "lastSwap")

Swap(from, to) ==
    /\ phase = from
    /\ batch' = events
    /\ events' = << >>
    /\ phase' = to
    /\ Defined
    /\ UNCHANGED <<runtime, workerVars, object, private, shared, calls,
                   lateFree>>

BatchDone ==
    /\ batch = << >>
    /\ Goto("process", "nap") \/ Goto("last", "drain")

\* The 10 ms sleep and the test of the 30 s timeout (main.cpp:239-246)
Nap == Goto("nap", "test") \/ Goto("nap", "lastSwap")

\* Slip: the destructor does not wait for the pool.
DrainAtOnce == Goto("drain", "free")

\* Slip: the destructor drops the tasks that are still queued (shutdownNow).
DrainDiscards ==
    /\ phase = "drain"
    /\ InPool = {}
    /\ phase' = "free"
    /\ backlog' = << >>
    /\ Defined
    /\ UNCHANGED <<batch, runtime, stage, outcome, object, private, shared, events,
                   calls, lateFree>>

\* ~JSContextWrapper: CPUThreadPool::shutdown() (JSContext.cpp:51)
Drain ==
    /\ backlog = << >> /\ InPool = {}
    /\ Goto("drain", "free")

\* JS_FreeContext and JS_FreeRuntime finalize what is still alive
\* (JSContext.cpp:54-55).
FreeRuntime ==
    /\ phase = "free"
    /\ phase' = "exit"
    /\ runtime' = "freed"
    /\ object' = [d \in D |-> IF object[d] = "live" THEN "finalized"
                                                   ELSE object[d]]
    /\ shared' = [d \in D |-> IF object[d] = "live" THEN FreeFunc(shared[d])
                                                   ELSE shared[d]]
    /\ Undefined(\E d \in D : FreedAgain(shared[d], shared'[d]))
    /\ UNCHANGED <<batch, workerVars, private, events, calls, lateFree>>

\* ~EventLoop of the static instance destroys the callbacks nobody ran, and
\* with them the last references to their tasks (EventLoop.cpp:6, Deferred.h:57).
Exit ==
    /\ phase = "exit"
    /\ phase' = "done"
    /\ events' = << >>
    /\ LET Waiting == {e[1] : e \in ToSet(events)}
       IN  /\ shared' = [d \in D |->
                            IF d \in Waiting
                            THEN [FreeResult(FreeFunc(shared[d])) EXCEPT !.refs = 0]
                            ELSE shared[d]]
           /\ lateFree' = (Waiting # {})
           /\ Undefined(Waiting # {})
    /\ UNCHANGED <<batch, runtime, workerVars, object, private, calls>>

-----------------------------------------------------------------------------
MainStep ==
    \/ Test \/ Swap("swap", "process") \/ Swap("lastSwap", "last")
    \/ RunCallback \/ BatchDone \/ Nap
    \/ Drain \/ FreeRuntime \/ Exit

Next ==
    \/ \E d \in D : Construct(d) \/ Then(d) \/ Drop(d) \/ WorkerStep(d)
    \/ StartTask
    \/ EndScript
    \/ MainStep

(***************************************************************************)
(* Worker threads are scheduled and the deferred functions terminate.  The *)
(* main thread is scheduled once the script has ended; scripts may run for *)
(* ever.                                                                   *)
(***************************************************************************)
Fairness ==
    /\ WF_vars(StartTask)
    /\ \A d \in D : WF_vars(WorkerStep(d))
    /\ WF_vars(MainStep)

Spec == Init /\ [][Next]_vars /\ Fairness

-----------------------------------------------------------------------------
(* Properties *)

\* resolve is called only if the function returned, reject only if it threw or
\* could not be called, never both (Deferred.cpp:273-351, 360-407).
SettleMatchesOutcome ==
    \A d \in D :
        /\ calls[d].resolve > 0 =>
              outcome[d] \in {"value", "opaqueValue"} /\ calls[d].reject = 0
        /\ calls[d].reject > 0 =>
              outcome[d] \in {"error", "opaqueError", "uncalled"}

\* A deferred is settled at most once, except that the fallback for an error
\* that cannot be serialized rejects and then lets the final callback reject
\* again (.cpp:306-319, 378-382).
SettledOnceUnlessFallback ==
    \A d \in D : calls[d].resolve + calls[d].reject <=
                    IF outcome[d] = "opaqueError" THEN 2 ELSE 1

\* The result buffer is freed once, by the final callback or by the last
\* reference to the task, and never leaks past the task (.cpp:410-414, .h:62).
ResultFreedOnce ==
    \A d \in D :
        /\ shared[d].resultFrees <= 1
        /\ stage[d] = "done" /\ shared[d].refs = 0 => ~shared[d].result
        /\ shared[d].result => shared[d].resultFrees = 0

\* The callbacks of d in a queue, and in both the main thread runs them from.
Positions(q, d) == {i \in DOMAIN q : q[i][1] = d}
Count(q, d) == Cardinality(Positions(q, d))
Pending(d) == Count(batch, d) + Count(events, d)

\* References: one for the pool task until it ends, one for each posted callback
\* that was not run.
RefsCounted ==
    \A d \in D : shared[d].refs =
        (IF stage[d] \in {"none", "done"} THEN 0 ELSE 1) + Pending(d)

\* No worker is inside a deferred function, and none will be, once the runtime
\* is freed: the destructor waits for the pool first (JSContext.cpp:50-55).
NoWorkAfterRuntimeFreed ==
    runtime = "freed" => backlog = << >> /\ InPool = {}

\* Whatever the script did, a deferred function handed to the pool comes to its
\* end, and its worker is free again.
WorkEnds ==
    \A d \in D : stage[d] = "queued" ~> stage[d] = "done" \/ crashed

\* "Wait for all callbacks to complete (with timeout)" (main.cpp:233): as long as
\* no timeout cut the loop short, main leaves it with no deferred pending.  The
\* code waits for queued callbacks only: see the run DeferredLeftBehind.
CallbacksAwaited ==
    [][phase = "test" /\ phase' = "lastSwap" =>
          \A d \in D : stage[d] \in {"none", "done"}]_vars

\* "taskPtr now owns the copiedBuffer, will be freed in finalizer"
\* (Deferred.cpp:111): nobody else frees it.  See the run DeferredBufferFreedTwice.
BufferFreedByFinalizer ==
    \A d \in D : shared[d].funcFrees > 0 => object[d] = "finalized"
=============================================================================
