---------------------------- MODULE WorkerThreads ----------------------------
(***************************************************************************)
(* worker_threads (src/src/modules/worker_threads/WorkerThreadsModule.cpp):*)
(* a thread with a JSRuntime and a JSContext of its own per Worker object. *)
(* Everything a worker reports to the main thread, and every message the   *)
(* main thread posts to a worker, goes through the one event loop, whose   *)
(* callbacks run on the main thread (src/src/main.cpp:237-250).            *)
(*                                                                         *)
(* The callback of worker.postMessage() calls into the JSContext of the    *)
(* worker from the main thread (.cpp:324-338).  Two threads in one context *)
(* and a context that was freed are undefined behaviour: the process goes  *)
(* on or crashes.                                                          *)
(*                                                                         *)
(* A Worker object holds a reference to itself (.cpp:136), so WorkerData   *)
(* is never deleted and no thread is ever joined.  parentPort.postMessage()*)
(* finds no opaque under class 0 and does nothing (.cpp:211-215).          *)
(***************************************************************************)
EXTENDS Naturals, Sequences, SequencesExt

CONSTANTS
    Worker,     \* the Worker objects a script may construct
    MaxPosts    \* bound: messages the script posts to one worker

ASSUME BoundAssumption == MaxPosts \in Nat

\* A worker is nobody else that may execute.
ASSUME WorkerAssumption == {"none", "main"} \cap Worker = {}

VARIABLES
    phase,      \* where the main thread is in main()
    inside,     \* whose JavaScript it executes: "none", "main" or a worker's
    queue,      \* EventLoop::callbackQueue: records [kind, worker]
    batch,      \* callbacks taken by processCallbacks()
    thread,     \* where the thread of each worker is
    script,     \* what its file does
    context,    \* what data->workerContext points to
    running,    \* data->running
    delivered,  \* kinds of the events of each worker whose callback ran
    posts,      \* messages posted to each worker
    crashed     \* undefined behaviour ended the process

mainVars   == <<phase, inside, batch>>
workerVars == <<thread, context>>
scriptVars == <<script, running, posts>>
vars == <<mainVars, workerVars, scriptVars, queue, delivered, crashed>>

Phase  == {"script", "test", "process", "lastSwap", "last", "exit", "gone"}
Thread == {"none", "started", "setup", "cleanup", "running", "failed", "ended"}
Script == {"none", "ends", "throws", "endless", "missing"}
Event  == {"error", "exit"}
Callback == [kind : Event \cup {"message"}, worker : Worker]

TypeOK ==
    /\ phase \in Phase
    /\ inside \in {"none", "main"} \cup Worker
    /\ queue \in Seq(Callback)
    /\ batch \in Seq(Callback)
    /\ thread \in [Worker -> Thread]
    /\ script \in [Worker -> Script]
    /\ context \in [Worker -> {"null", "live", "freed"}]
    /\ running \in [Worker -> BOOLEAN]
    /\ delivered \in [Worker -> Seq(Event)]
    /\ posts \in [Worker -> 0..MaxPosts]
    /\ crashed \in BOOLEAN

Init ==
    /\ phase = "script"
    /\ inside = "main"
    /\ queue = << >>
    /\ batch = << >>
    /\ thread = [w \in Worker |-> "none"]
    /\ script = [w \in Worker |-> "none"]
    /\ context = [w \in Worker |-> "null"]
    /\ running = [w \in Worker |-> FALSE]
    /\ delivered = [w \in Worker |-> << >>]
    /\ posts = [w \in Worker |-> 0]
    /\ crashed = FALSE

Alive == ~crashed /\ phase # "gone"

\* A step of a live process, which may crash if cond makes it undefined.
Undefined(cond) ==
    /\ Alive
    /\ crashed' \in IF cond THEN BOOLEAN ELSE {FALSE}

Defined == Undefined(FALSE)

Enqueue(kind, w) == queue' = Append(queue, [kind |-> kind, worker |-> w])

-----------------------------------------------------------------------------
(* JavaScript of the main context: the script and the handlers of events   *)

ScriptStep == inside = "main" /\ Defined

\* new Worker(file, options) (.cpp:96-145).  The throws before line 136 leave
\* nothing behind.
Construct(w) ==
    /\ ScriptStep
    /\ thread[w] = "none"
    /\ thread' = [thread EXCEPT ![w] = "started"]
    /\ running' = [running EXCEPT ![w] = TRUE]
    /\ \E s \in Script \ {"none"} : script' = [script EXCEPT ![w] = s]
    /\ UNCHANGED <<mainVars, queue, context, posts, delivered>>

\* The tests of postMessage (.cpp:316, 323).
Reachable(w) == running[w] /\ context[w] # "null"

\* worker.postMessage(message) (.cpp:310-342): silently dropped unless the
\* worker is running and has published its context.
PostMessage(w) ==
    /\ ScriptStep
    /\ thread[w] # "none"
    /\ posts[w] < MaxPosts
    /\ posts' = [posts EXCEPT ![w] = @ + 1]
    /\ IF Reachable(w) THEN Enqueue("message", w) ELSE UNCHANGED queue
    /\ UNCHANGED <<mainVars, workerVars, script, running, delivered>>

\* worker.terminate() (.cpp:344-351)
Terminate(w) ==
    /\ ScriptStep
    /\ running[w]
    /\ running' = [running EXCEPT ![w] = FALSE]
    /\ UNCHANGED <<mainVars, workerVars, script, posts, queue,
                   delivered>>

-----------------------------------------------------------------------------
(* workerThreadExecution() (.cpp:147-294) on the thread of the worker      *)

InContext(w) == thread[w] \in {"setup", "running", "failed", "cleanup"}

\* From the destruction of the runtime and of the static objects on, the worker
\* uses what no longer exists.
TornDown == phase = "exit"

\* JS_NewRuntime and JS_NewContext; either may fail (.cpp:152-185).  The context is
\* published in the struct found through the Worker object of the main runtime
\* (.cpp:187-191).
Create(w) ==
    /\ thread[w] = "started"
    /\ \/ /\ thread' = [thread EXCEPT ![w] = "setup"]
          /\ context' = [context EXCEPT ![w] = "live"]
          /\ UNCHANGED queue
       \/ /\ thread' = [thread EXCEPT ![w] = "ended"]
          /\ Enqueue("error", w)
          /\ UNCHANGED context
    /\ Undefined(TornDown)
    /\ UNCHANGED <<mainVars, scriptVars, delivered>>

\* parentPort and workerData become globals, then the file is opened
\* (.cpp:193-257).
Load(w) ==
    /\ thread[w] = "setup"
    /\ IF script[w] = "missing"
       THEN /\ thread' = [thread EXCEPT ![w] = "cleanup"]
            /\ Enqueue("error", w)
       ELSE /\ thread' = [thread EXCEPT ![w] = "running"]
            /\ UNCHANGED queue
    /\ Undefined(TornDown \/ inside = w)
    /\ UNCHANGED <<mainVars, scriptVars, context, delivered>>

\* JS_FreeContext and JS_FreeRuntime; data->workerContext keeps the address
\* (.cpp:249-251).
FreeContext(w) ==
    /\ thread[w] = "cleanup"
    /\ thread' = [thread EXCEPT ![w] = "ended"]
    /\ context' = [context EXCEPT ![w] = "freed"]
    /\ Undefined(inside = w)
    /\ UNCHANGED <<mainVars, scriptVars, queue, delivered>>

\* JS_Eval (.cpp:260).  A script that returns is followed by the exit event; for
\* one that throws comes first an error, whose callback captures the text of the
\* exception, freed at once (.cpp:262-281).  An exception of which JS_ToCString
\* makes no text gives the exit alone (.cpp:264): such a script counts as one that
\* ends.  An endless script does neither.
Evaluate(w) ==
    /\ thread[w] = "running"
    /\ \/ /\ script[w] = "ends"
          /\ thread' = [thread EXCEPT ![w] = "ended"]
          /\ Enqueue("exit", w)
       \/ /\ script[w] = "throws"
          /\ thread' = [thread EXCEPT ![w] = "failed"]
          /\ Enqueue("error", w)
    /\ Undefined(inside = w \/ TornDown)
    /\ UNCHANGED <<mainVars, scriptVars, context, delivered>>

\* Slip: a script that threw reports no exit.
PostExitMissing(w) ==
    /\ thread[w] = "failed"
    /\ thread' = [thread EXCEPT ![w] = "ended"]
    /\ Undefined(inside = w)
    /\ UNCHANGED <<mainVars, scriptVars, context, queue, delivered>>

\* Slip: a worker whose script threw frees its context.
PostExitFreeing(w) ==
    /\ thread[w] = "failed"
    /\ thread' = [thread EXCEPT ![w] = "ended"]
    /\ context' = [context EXCEPT ![w] = "freed"]
    /\ Enqueue("exit", w)
    /\ Undefined(inside = w \/ TornDown)
    /\ UNCHANGED <<mainVars, scriptVars, delivered>>

\* The exit event after an error (.cpp:284-293); the context is never freed.
PostExit(w) ==
    /\ thread[w] = "failed"
    /\ thread' = [thread EXCEPT ![w] = "ended"]
    /\ Enqueue("exit", w)
    /\ Undefined(inside = w \/ TornDown)
    /\ UNCHANGED <<mainVars, scriptVars, context, delivered>>

ThreadStep(w) ==
    \/ Create(w) \/ Load(w) \/ FreeContext(w) \/ Evaluate(w) \/ PostExit(w)

-----------------------------------------------------------------------------
(* The main thread after the script: callbacks and exit                    *)

Goto(from, to) ==
    /\ phase = from
    /\ inside = "none"
    /\ phase' = to
    /\ Defined
    /\ UNCHANGED <<inside, batch, workerVars, scriptVars, queue, delivered>>

EndScript ==
    /\ phase = "script"
    /\ phase' = "test"
    /\ inside' = "none"
    /\ Defined
    /\ UNCHANGED <<batch, workerVars, scriptVars, queue, delivered>>

\* processCallbacks() takes all there is (EventLoop.cpp:20-26): in the loop when the
\* test has seen a callback (main.cpp:237-238), and once after it (main.cpp:250).
Swap(from, to) ==
    /\ phase = from
    /\ phase' = to
    /\ batch' = queue
    /\ queue' = << >>
    /\ Defined
    /\ UNCHANGED <<inside, workerVars, scriptVars, delivered>>

Test ==
    \/ queue # << >> /\ Swap("test", "process")
    \/ queue = << >> /\ Goto("test", "lastSwap")

\* Slip: a posted message comes back as an event of the Worker object.
RunEventAny ==
    /\ phase \in {"process", "last"} /\ inside = "none"
    /\ batch # << >>
    /\ LET e == Head(batch)
       IN  delivered' = [delivered EXCEPT ![e.worker] = Append(@, e.kind)]
    /\ batch' = Tail(batch)
    /\ Defined
    /\ UNCHANGED <<phase, inside, workerVars, scriptVars, queue>>

\* A callback of a worker's event: JavaScript runs if the script has made worker.emit
\* a function, which nothing else does.  For an exception it gets the captured text,
\* which the worker may have freed by then (.cpp:265-277, 284-293).
RunEvent ==
    /\ phase \in {"process", "last"} /\ inside = "none"
    /\ batch # << >> /\ Head(batch).kind \in Event
    /\ LET e == Head(batch)
       IN  /\ delivered' = [delivered EXCEPT ![e.worker] = Append(@, e.kind)]
           /\ inside' \in {"main", "none"}
           /\ Undefined(/\ inside' = "main" /\ e.kind = "error"
                        /\ script[e.worker] = "throws"
                        /\ context[e.worker] = "live")
    /\ batch' = Tail(batch)
    /\ UNCHANGED <<phase, workerVars, scriptVars, queue>>

\* The callback of postMessage looks up parentPort.emit in the context of the
\* worker and calls it if the worker's script put a function there (.cpp:324-338).
EnterWorker ==
    /\ phase \in {"process", "last"} /\ inside = "none"
    /\ batch # << >> /\ Head(batch).kind = "message"
    /\ inside' = Head(batch).worker
    /\ batch' = Tail(batch)
    /\ Undefined(InContext(inside') \/ context[inside'] = "freed")
    /\ UNCHANGED <<phase, workerVars, scriptVars, queue, delivered>>

\* A handler returns.
Return ==
    /\ phase \in {"process", "last"} /\ inside # "none"
    /\ inside' = "none"
    /\ Defined
    /\ UNCHANGED <<phase, batch, workerVars, scriptVars, queue, delivered>>

\* A batch ends; then comes the next test or the 30 s timeout (main.cpp:241-246).
BatchDone ==
    /\ batch = << >>
    /\ Goto("process", "test") \/ Goto("process", "lastSwap")
                               \/ Goto("last", "exit")

\* Slip: the exit waits for the threads of the workers.
ExitJoins ==
    /\ \A w \in Worker : thread[w] \in {"none", "ended"}
    /\ Goto("exit", "gone")

\* The process ends with all its threads: no Worker object is finalized before.
Exit == Goto("exit", "gone")

MainStep ==
    \/ Test \/ Swap("lastSwap", "last")
    \/ RunEvent \/ EnterWorker \/ Return \/ BatchDone \/ Exit

Next ==
    \/ \E w \in Worker :
          \/ Construct(w) \/ PostMessage(w) \/ Terminate(w)
          \/ ThreadStep(w)
    \/ EndScript
    \/ MainStep

(***************************************************************************)
(* Threads are scheduled.  A script may run for ever; an event handler, or *)
(* a handler of the worker called from the main thread, returns.           *)
(***************************************************************************)
Fairness ==
    /\ \A w \in Worker : WF_vars(ThreadStep(w))
    /\ WF_vars(MainStep)

Spec == Init /\ [][Next]_vars /\ Fairness

-----------------------------------------------------------------------------
(* Properties *)

Pending == batch \o queue

\* What the thread of w has reported by now (.cpp:152-293): nothing before its
\* script ended, an error before the exit, one exit, and that only when it will
\* not touch its context again.
Expected(w) ==
    CASE thread[w] \in {"cleanup", "failed"} -> <<"error">>
      [] thread[w] = "ended" /\ context[w] # "live" -> <<"error">>
      [] thread[w] = "ended" /\ context[w] = "live" ->
             IF script[w] = "throws" THEN <<"error", "exit">> ELSE <<"exit">>
      [] OTHER -> << >>

\* The events s of w are those in done and then those that wait in q, in the order
\* of their callbacks: at says where each one waits, and no other event of w does.
Reports(w, done, q, s) ==
    /\ Len(done) <= Len(s)
    /\ \A i \in 1..Len(done) : done[i] = s[i]
    /\ \E at \in [Len(done)+1..Len(s) -> DOMAIN q] :
          /\ \A i, j \in Len(done)+1..Len(s) : i < j => at[i] < at[j]
          /\ \A i \in Len(done)+1..Len(s) : q[at[i]] = [kind |-> s[i], worker |-> w]
          /\ \A p \in DOMAIN q :
                q[p].worker = w /\ q[p].kind \in Event =>
                    \E i \in Len(done)+1..Len(s) : at[i] = p

\* Every event a worker reported reaches the main thread once and in order: the
\* callbacks run and those still to run are what its thread did.
ReportsMatchThread ==
    \A w \in Worker : Reports(w, delivered[w], Pending, Expected(w))

Posted(w) == [kind |-> "message", worker |-> w] \in ToSet(Pending)

\* From the post of a message to the return of its handler the context of the
\* worker is live, though its pointer is tested at the post and used in the
\* callback (.cpp:323-338): the worker does not free it in between, unless its
\* file could not be opened.
MessagesUseLiveContext ==
    \A w \in Worker :
        script[w] # "missing" /\ (Posted(w) \/ inside = w) => context[w] = "live"

\* Once the script has ended the process exits, even if a worker never does and
\* whatever handlers post or terminate (main.cpp:237-254).
ProcessExits == phase = "test" ~> ~Alive

\* "Thread-safe message passing" (TECHNICAL_AUDIT_PHASE5.md:41): the main thread
\* does not run in the context of a worker while its thread does.
\* See the run WorkerThreadsSharedContext.
OneThreadPerContext == \A w \in Worker : ~(inside = w /\ InContext(w))
=============================================================================
