# TLA+ models of protoJS

protoJS is a JavaScript runtime in C++: QuickJS parses and executes, protoCore
stores objects, and the program in `src/` adds thread pools, an event loop,
`Deferred` objects that run functions in worker threads, module loaders and
Node-like modules. This directory holds TLA+ models of its core, the TLC
configurations that check them, and TLAPS proofs about them. `PROJECT.json` maps
every definition to the lines it models. Line numbers below, and in the modules,
are those of the files under `src/` of the repository.

## 1. The system and its parts

### How the parts interact

One **main thread** runs `main()`: it registers the modules, evaluates the
script, then polls the event loop while a callback is queued (at most 30 s),
shuts the CPU pool down, frees the JavaScript runtime and runs the static
destructors. Everything else is another thread: the **workers of two pools**
(CPU and I/O), one thread per **`Worker`** object, accept and read threads of
sockets, readers and waiters of child processes. They all reach the main thread
the same way, by `EventLoop::enqueueCallback`. What is shared is the state of
the pools, the callback queue, the structs behind the JavaScript objects, and
(against QuickJS's rules) sometimes a `JSContext`.

| component | state | operations | what is hard |
|---|---|---|---|
| Thread pool (`ThreadPoolExecutor`) | task queue, two flags, `activeCount`, one condition variable | `submit`, worker loop, `shutdown`, `shutdownNow` | wakeups lost or given to the wrong waiter, submissions racing with shutdown |
| Pool singletons (`CPUThreadPool`, `IOThreadPool`) | one instance each under a mutex | `getInstance`, `initialize`, `shutdown` | shutdown waits for tasks under the mutex |
| Event loop | callback queue, `running` | `enqueueCallback`, `processCallbacks`, `run`, `stop` | callbacks that enqueue callbacks, exceptions, a flag written without the lock |
| `Deferred` and program life cycle | two task structs per object, function and result buffers, JS references | construct, `then`, `catch`, finalizer, worker execution, callbacks, exit | ownership across threads, deciding when to exit |
| `worker_threads` | thread, context and flags per worker | construct, `postMessage`, `terminate`, thread, events | one context and two threads, messages to dead workers |
| CommonJS loader | cache, nested evaluations | `require`, compile, evaluate, native addons | circular requires, bodies that throw |
| Module resolution (`ModuleResolver`) | none; the file system | `resolve` | order of candidates, packages that are only half there |
| ES module loader, cache, interop | cache of namespaces | `loadModule`, dynamic import | never called by the program |
| `io`, `fs`, `dns` | none of their own; futures | synchronous and asynchronous calls | callbacks that block on futures, callbacks after the exit decision |
| `net`, `dgram`, `http` | descriptors, flags, threads, listeners | listen, connect, close, write, end | close against accept and read threads, use after free |
| `child_process`, `cluster` | pipes, pid, flags | spawn/fork, exec, kill, send | error paths of fork, order of data and exit |
| `events`, `stream` | listener lists, buffers | on, once, emit, remove; read, write, end, pipe | handlers that change the list, back-pressure |
| GC bridge, type bridge, execution engine | maps between JS and protoCore objects, roots | register, unregister, convert | locks taken twice, leaks |
| Package manager (`npm`) | registry cache, files on disk | resolve, download, install, update, uninstall | one step of several failing, concurrent downloads |
| Buffer | bytes | slice, copy, fill, search, encode | index arithmetic at the boundaries |
| Debugger, REPL, logger, metrics, profilers | flags, counters | start/stop, record, export | threads joined while blocked, locks taken twice |
| crypto, path, url, util, process, console, protoCore module | none to speak of | conversions and library calls | - |

`PROJECT.json` lists each of them under "components" with what is modelled, or
why it is not, and under "hazards" what is hard to test, at its line.

### What makes each component correct

* **Thread pool.** No accepted task is lost, run twice or stranded with every
  worker asleep; tasks start in order; a shutdown that returned left no thread
  and no pending future; threads leave after a shutdown; a shutdown returns.
* **Event loop.** Each callback runs once, in the order of its push, whatever
  other callbacks throw or enqueue; the loop does not sleep on a queued callback.
* **Deferred.** Resolved or rejected as the function ended, once; each buffer
  freed once, by its owner; no worker in JavaScript when the runtime goes; main
  does not leave while a callback is still to come.
* **worker_threads.** One thread at a time in a context; the events of a worker
  tell in order what its thread did; a posted message finds the context of its
  worker live until its handler has returned; the process can exit.
* **CommonJS.** A file is evaluated once, not re-entered, cached while evaluated
  and forgotten when it fails; `require` returns what the file exports.
* **io/fs/dns.** Callbacks come in the order of the calls, each after its own
  job; a read that nothing overlaps sees the last write; every callback comes.
* **net/dgram/http.** A script hears of a connection, its data and its end in
  that order; at most one connection or datagram is taken after `close()`; a
  response goes to the client that asked; `close()` returns; the process is not
  terminated by an ordinary sequence of calls.
* **child_process/cluster.** The script sees a prefix of each output stream and
  one exit, of a process that has been waited for; a channel is closed once.
* **events/stream.** An `emit()` calls the handlers it began with, once each and
  in order, and none that is freed; a stream holds what was written before its end.
* **npm.** The version chosen is the newest in the range; what is reported as
  installed is installed. **Buffer.** Index arithmetic stays inside the buffers;
  a text gives its bytes back.
  **Resolver.** What is found exists and the nearest usable package decides.
* **GC bridge.** A mapped value is kept alive; the lock is given back.

## 2. The modules

### ThreadPool.tla and TaskService.tla

`ThreadPool` models `ThreadPoolExecutor.{h,cpp}` completely. The variables are
the fields (`taskQueue`, `shutdownFlag`, `shutdownNowFlag`, `activeCount`), the
wait set of the one condition variable, a program counter per worker, per
client and for the closing thread, each worker's local `task`, and the state
of each task's future. A critical section over guarded data is one
action; what the code does outside the lock is an action of its own: the
`notify_one` of `submit` (`NotifyOne`), `activeCount--` (`Retire`), the
`notify_all` of a worker (`NotifyAll`) and of a shutdown. The thread in
`shutdown()` tests its predicate (`ShutdownCheck`) and goes to sleep
(`ShutdownBlock`) in two steps with the mutex held in between: `Retire` and
`NotifyAll`, which need no mutex, can fall there. A `notify_one` wakes *any*
waiter, the closer included, and waiters may wake spuriously. One thread at a
time closes the pool, as the two callers (`~JSContextWrapper` and the
destructor) do.

`TaskService` is the abstract specification: accepted tasks start in FIFO
order, at most `PoolSize` at once, each completes; a shutdown returns only when
all did. `ThreadPool` implements it under the refinement mapping at the end of
its module (`ImplementsService`: safety and the liveness of `TaskService`).
TaskService does not promise that a shutdown returns, because it may not.

### EventLoop.tla

Models `EventLoop.{h,cpp}`: the queue, the batch swapped out of it by
`processCallbacks`, the loop thread's position in `run()` or in a direct call
of `processCallbacks`, and producers that push under the lock and notify after
it. `pushed` and `executed` are history variables. `stop()` writes `running`
without the lock, so it may fall between the failed predicate and the sleep.
A callback may throw (nothing changes) or enqueue another one.

### Deferred.tla

The life of deferred objects from construction to exit. `phase` is the main
thread's position in `main.cpp:220-254` and in the destructors after it. The
pool is abstracted by what `TaskService` promises (`backlog`, `InPool`), which
the proofs and the run of ThreadPool justify. The constructor makes two
`DeferredTask` structs (Deferred.cpp:97, 110): `shared[d]`, counted by `refs`
(the closure of the pool task and each posted callback), and `private[d]`,
which `then()` reads. Both own the function buffer; `funcFrees` counts how
often it is freed. A worker creates its context, deserializes, calls, stores
the outcome and posts callbacks (`StartTask`, `Deserialize`, `Execute`,
`PostSettle`, `EndTask`), each step with its error path. Freeing twice and
using freed memory is undefined behaviour: the step is taken and `crashed'` is
any Boolean.

### WorkerThreads.tla

Each worker is a thread with a context: created (`Create`), bound and its file
opened (`Load`), evaluated (`Evaluate`), with an error and an exit event posted
(`PostExit`), or freed when the file cannot be opened (`FreeContext`). The main
thread runs the script's operations and the callbacks; the callback of
`postMessage` enters the worker's context (`EnterWorker`, `inside`). A script
ends, throws, never ends, or its file is missing. Two threads in one context,
a freed context, and a worker that goes on while the static objects are torn
down are undefined behaviour.

### CommonJS.tla

`require()` on the main thread. `stack` holds the nested evaluations, `cache`
the values by file. A load makes *two* module objects
(CommonJSLoader.cpp:167 and 305): `Value("outer", f, n)` is the exports object
of the first, `"inner"` that of the second, `"own"` what the body assigned. The
body may require any file (relative specifiers are resolved against the main
script), return, throw, or fail to compile; native addons may fail. MCCommonJS
adds the symmetry set of the files.

### The modules with threads of their own: Net, Dgram, Http, Processes, AsyncIO, Debugger

Each of them has the main thread (in JavaScript, in the event loop, in a call
that waits, or freeing the runtime), the threads of the module, the callbacks
they post, and the part of the kernel or network they talk to. All have a
`...Fate` variable: alive, gone after a normal exit, *crashed* after undefined
behaviour (freed data, the main runtime used from another thread while it runs
JavaScript), *terminated* by `std::terminate()` (a joinable `std::thread` that is
assigned to or destroyed) or *killed* by `SIGPIPE`, which nothing ignores.

* `Net` (NetModule.cpp): `NetServerData` and `NetSocketData` with their flags,
  descriptor and thread. The loop of a thread is split where the code reads
  shared state: the condition, the descriptor handed to `accept()` or `recv()`,
  its return. `close()` and `destroy()` are split at the join.
* `Dgram` (DgramModule.cpp): the same for UDP, over a network that loses and
  reorders datagrams.
* `Http` (HTTPModule.cpp): the server thread, which waits in `read()` for what a
  client that connected may never send and calls the listener itself,
  responses that a script may keep, and the kernel's table of descriptor
  numbers: a response is closed by its finalizer and again by the loop.
* `Processes` (ChildProcessModule.cpp, ClusterModule.cpp): the two readers, the
  waiter and the flags they share; workers with their channels.
* `AsyncIO` (IOModule.cpp, FSModule.cpp, DNSModule.cpp): calls that wait for the
  I/O pool, calls whose callback waits for it on the event loop, lookups that
  post from the pool; a disk in which opening truncates before writing; the end
  of `main()`, which leaves its loop (`Leave`), always runs what is queued by then
  once more (`LastCallbacks`, main.cpp:250) and returns (`Exit`).
* `Debugger` (IntegratedDebugger.cpp): breakpoints and the server thread, whose
  `accept()` returns with a client or with an error that leads back to the flag.

`MCServices` puts them side by side. They share nothing but the main thread,
so a behaviour starts the process for one of them. The bounds and the sets of
the six modules are its CONSTANTS; `Services.cfg` gives them values and the
proofs keep them open, under `BoundAssumption`.

### The libraries: GCBridge, ProtoCore, Semver, Packages, Events, Streams, Buffer, Resolver

* `GCBridge` (GCBridge.cpp): a call is a stack of frames that take the
  non-recursive `mapMutex`; a function that calls another one with the lock
  held leaves its thread waiting for itself, which is what the model shows for
  `registerMapping`, `registerRoot` of an unknown value, `unregisterMapping` of
  a root and `getMemoryStats`.
* `ProtoCore` (TypeBridge.cpp, ProtoCoreModule.cpp) EXTENDS the bridge: `fromJS`
  and `toJS` as operators, and the collections of scripts above them. A value
  with a function in it goes to `registerMapping`, which does not return.
* `Semver` (Semver.cpp): parsing reduced to its result, comparison, ranges and
  the choice of the highest version, against what the ranges mean, for every
  set of published versions.
* `Packages` (PackageInstaller.cpp, NPMRegistry.cpp): one call at a time, its
  downloads in batches; the results are bits of one word that each task reads
  and writes back.
* `Events` (EventsModule.cpp): the vector of handlers with its capacity and its
  stale cells, while nested `emit()` calls walk over it, and the references to
  handlers: the emitter has one for each registration and drops it on a removal,
  the script may drop its own (`forget`), and the last one to go frees the
  handler, which may be running or named by a stale cell.
* `Streams` (StreamModule.cpp): the classes of streams, their buffer and an
  emitter that the constructor has already released.
* `Buffer` (BufferModule.cpp): bytes, int32 positions, sizes that wrap. A text is
  its bytes in UTF-8; `JS_NewString` keeps the bytes of a whole character
  (`Character`) and makes U+FFFD of the others.
* `Resolver` (ModuleResolver.cpp): a file system that changes, the order of
  candidates, the walk through `node_modules`. The type of a module follows from
  its extension alone: `setTypeFromPath` overrides what package.json said,
  although the comment in ModuleResolver.h names the `type` field.

`MCLibraries` exercises one of them per behaviour (`part`). Their sets and bounds
are its CONSTANTS: `Libraries.cfg` gives them values (the values that need a
sequence or a record are definitions of the module: `Values`, `Releases`, `Ranges`,
`Positions`) and the proofs keep them open, under `LibraryAssumption`. Each call
of the installer takes one of the numbers of parallel downloads in `Concurrency`.

### Order and composition

ThreadPool and TaskService come first, then EventLoop, Deferred (over the
abstract pool and the event loop), WorkerThreads (over the event loop),
CommonJS, the modules with threads, the libraries. AsyncIO takes from TaskService
that jobs start in order, at most `PoolSize` at once, and end.

## 3. The runs

| run | instance | distinct states | shows |
|---|---|---|---|
| ThreadPool | 2 workers, 2 clients, 1 closer, 3 tasks | 25,602 | 5 safety invariants, completion of accepted tasks, termination of workers, return of `shutdownNow`, refinement of TaskService |
| EventLoop | 2 producers, 4 callbacks | 35,936 | order and once-only execution, no lost wakeup, progress inside `run()` |
| Deferred | 2 deferreds, 2 workers | 206,692 | settlement agrees with the outcome, reference counts, result buffer, tear-down, every task ends |
| WorkerThreads | 2 workers, 1 message each | 552,118 | reports agree with the thread, posted messages find a live context, the process exits |
| CommonJS | 3 files, 1 addon, 1 built-in, 2 loads each | 59,708 | the cache follows the evaluation, completed files are final |
| Services | one of net, dgram, http, processes, io, debugger | 119,738 | `NetSafety`, `DgramSafety`, `HttpSafety`, `ProcessSafety`, `FileSafety`, `DebuggerSafety`; closing returns (`ClosesReturn`), file callbacks run (`FileCallbacksRun`) |
| Libraries | one of the libraries | 631,793 | `BridgeSafety` (`MappingSafety`, `CollectionSafety`), `PackageSafety` (`VersionSafety`, `InstallSafety`), `ScriptSafety` (`EmitterSafety`, `StreamSafety`, `BufferSafety`, `ResolverSafety`) |
| ThreadPoolShutdownHang | 2 workers, 1 client, 1 task | - | violation of `ShutdownReturns` |
| DeferredLeftBehind | 1 deferred, 1 worker | - | violation of `CallbacksAwaited` |
| DeferredBufferFreedTwice | 1 deferred, 1 worker | - | violation of `BufferFreedByFinalizer` |
| WorkerThreadsSharedContext | 1 worker, 1 message | - | violation of `OneThreadPerContext` |
| CommonJSOwnExports | 1 file | - | violation of `RequireReturnsExports` |

### Why the bounds are enough

* Two workers and a closer are the least with which a `notify_one` can go to
  the wrong waiter while another worker runs a task; with two clients a
  notification may be outstanding while another task is submitted; three tasks
  keep one queued while both workers are busy, so order and draining matter.
* Four callbacks fill a batch, the queue behind it, and a push by a callback.
* Two deferreds on two workers interleave their callbacks in one batch and
  compete for the queue; the counters of each reach their maxima.
* `MaxPosts` bounds messages per worker: one message already meets every state
  of its worker's thread, and with two workers a batch mixes their events.
* Three files give circles of length one (rejected by the cache), two and
  three; `MaxLoads = 2` allows one failure and one retry of each.

* Services: three peers are one before, one during and one after a `close()`;
  two chunks of each stream, and two connects, tell order and reuse apart; two clients and two
  descriptor numbers are the least with which a number is reused while a
  response still has it; two operations on one file are a read and a write, or
  a wait behind another callback.
* Libraries: two threads meet at the lock of the bridge; `MaxInt32 = 1` puts
  every kind of number on both sides of the limit; nine version names hold a
  prerelease, a 0.x line, a two-digit part (whose name sorts before a one-digit
  one) and a name that is no version; two packages are a batch of two or two
  batches of one; six calls of an emitter are enough to grow its vector inside a
  nested `emit()` and to free a handler that one is about to call; buffers of two bytes and positions from -2 to 3 lie before,
  inside, at and behind the end; the numbers 0, 195 and 425 write a zero byte,
  which ends a text, and the two bytes 195 and 169 of an é, which are a character
  together and none apart; scripts pass texts of NUL, B and é, and hexadecimal
  texts with a character that is no digit; four changes of the file system put a
  package.json and its entry point at two levels.

TLC explores each instance completely: no state constraint is used. Symmetry
is used only for CommonJS, whose runs have no liveness property. Deadlock
checking is off where the program ends: Deferred, WorkerThreads (the process
exits or crashes), CommonJS (every bound used up), Services (the process ends or
waits for a silent peer for ever) and Libraries (bounds used up, or the bridge
waits for itself). ThreadPool and EventLoop
are checked for deadlock: a pool can be closed again, a loop can be run again.

### Fairness

* **Workers of a pool: strong.** A worker that wants the mutex finds it taken
  for a moment again and again; each section is short and the operating
  system's mutex is eventually obtained. Weak fairness would let the closer
  starve a worker between its predicate and its sleep.
* **Everything else: weak**, and only for code that runs by itself: a client
  that pushed gets to its `notify_one`, a closer inside `shutdown` goes on, the
  loop thread goes on, worker threads and the main thread after the script are
  scheduled. Tasks, callbacks, handlers and deferred functions terminate.
* **Services: weak** for the threads of a module, the pool, the event loop and
  the join, and for the last `processCallbacks()` of `main()`. `accept()`, `recv()`
  and `recvfrom()` return when there is something to return, and with an error
  when the descriptor was already closed or no number is left for a client that
  waits; no other error is assumed to come. The `read()` of http has no fairness at all: a
  client that connected may say nothing for ever. A thread that is blocked when
  another one closes its descriptor is *not* assumed to wake: `ClosesReturn` says
  that a close which never returns ends up waiting for good for a thread that is
  blocked, in `accept()`, `recv()` or `read()`, with a peer that does not come or
  stays silent.
* **None** for peers, clients and child processes, for callers (nobody has to submit, close, enqueue, stop, require),
  for scripts, which may run for ever, nor for spurious wakeups.
* With undefined behaviour, a liveness property allows `crashed`.

## 4. What the violations show

* **ThreadPoolShutdownHang.** `activeCount--` and `notify_all` run without the
  mutex (ThreadPoolExecutor.cpp:110-113). The closer tests its predicate while
  one task is active, the worker decrements and notifies, the closer then
  sleeps: `shutdown()` may never return although the pool is idle.
* **DeferredLeftBehind.** `main` decides to leave by looking at the callback
  queue only (main.cpp:237): with the function still in the pool the queue is
  empty, and the callback is never run.
* **DeferredBufferFreedTwice.** The two structs of a deferred free one buffer.
* **WorkerThreadsSharedContext.** The callback of `worker.postMessage()` works
  in the worker's context on the main thread (WorkerThreadsModule.cpp:324).
* **CommonJSOwnExports.** `require()` returns the exports of a module object
  the body never saw (CommonJSLoader.cpp:185, 305).

Seen while modelling, represented in the models where they have a state, but
given no run of their own: `EventLoop::stop()` is lost when it falls between the
predicate and the sleep (EventLoop.cpp:62-65; only tests call `run` and
`stop`); a callback given to `then()` is never called, because `then()` reads
the private struct (Deferred.cpp:145-165); `terminate()` sets flags no thread
reads (WorkerThreadsModule.cpp:347); a worker whose file cannot be opened frees its
context and leaves the pointer set, so the callback of a message uses a freed
context (:249, 325), the exception of `MessagesUseLiveContext`; `parentPort.postMessage` finds no opaque (:211-215); a `Worker` holds a
reference to itself and is never finalized (:136); the error text of a worker
is freed before its callback reads it (:277).

The Services and Libraries runs contain the following behaviours of the code,
which their properties name as the exceptions: `close()` of a server or socket
hangs while its thread is blocked and the peer silent (NetModule.cpp:54,
HTTPModule.cpp:239, IntegratedDebugger.cpp:229); the callback of a file operation
that a callback of the last `processCallbacks()` starts is never run
(main.cpp:250);
threads use the main runtime (NetModule.cpp:283, DgramModule.cpp:222,
HTTPModule.cpp:223, ChildProcessModule.cpp:204); `listen()` after `close()`,
`connect()` again, a second http `listen()` and leaving without
`stopCDPServer()` terminate the process; a response that is kept writes to
whoever has its descriptor's number (HTTPModule.cpp:463); output in a pipe is
lost at exit (ChildProcessModule.cpp:260); `write` to a peer that is gone kills
the process; `registerMapping` waits for its own lock (GCBridge.cpp:94); racing
downloads lose a success, a failed update leaves nothing installed and
`installPackages` returns true although a package could not be resolved
(NPMRegistry.cpp:376, PackageInstaller.cpp:137, 89); `emit()` calls a stale
handler after a removal, which may be freed by then or be the one that runs, and
reads freed memory after a registration (EventsModule.cpp:95, 117); a stream with a global EventEmitter uses a released one;
`copy()` to an offset behind its target leaves the target (BufferModule.cpp:497).

## 5. What is proved

All theorems hold for every value of the constants under the named assumptions:

* `ThreadAssumption` (ThreadPool): a finite, non-empty set of workers; the closer
  is no worker; `None` is no task;
* `FileAssumption` (CommonJS): a file is JavaScript or native, not both;
  `MaxLoads` is a natural number;
* `BoundAssumption` and `WorkerAssumption` (WorkerThreads): `MaxPosts` is a natural
  number, no worker is called as the main thread or as nobody;
* `BoundAssumption` (MCServices): the bounds are natural numbers, descriptors are
  natural numbers and there is one, the streams of a child are not named as its
  events are;
* `LibraryAssumption` (MCLibraries): no thread is called nobody; the values scripts
  pass are JS values, and the bridge has an entry for each function in them; the
  bounds are numbers; a version is three numbers and the rank of its prerelease,
  and a range names a listed version; packages and versions are numbered in the
  order of their names, the packages of a call are finitely many and every set of
  published versions has a last one; sizes are below the modulus at which they
  wrap;
* EventLoop and Deferred need none.

Every proof has the same shape: an inductive invariant, one lemma or step per
action, one step per conjunct that the action disturbs. The invariants were
checked with TLC before they were proved.

* **ThreadPool_proofs.** `Invariance` proves the inductive invariant `IInv`, the
  conjunction that the module defines for this purpose.
  `PendingAccounted` alone is not inductive: it needs that a running worker
  holds a task (`HoldsTask`). `NoStrandedTask` is the delicate one: a
  `notify_one` may be consumed by the closer. The task is safe then because the
  closer waits only after it set `shutdownFlag` and did its `notify_all`, and
  `NoSleeperAfterClose` says that from there on no worker sleeps; that in turn
  needs that a worker waits only where its predicate would let it
  (`SleepersReady`) and that the flags follow the closer
  (`FlagsFollowCloser`). `ExitIsFinal` makes the joins of a shutdown imply an
  empty queue. The theorems `TypeCorrect`, `TasksAccounted`, `CountExact`,
  `NoLostTaskWakeup`, `ShutdownWakesWorkers`, `ShutdownIsClean` follow, and
  `ServiceSafety`: every step maps to a step of TaskService or to a stutter
  under the refinement mapping.
* **EventLoop_proofs.** `ExecutedInOrder` (`FifoOnce`) and `NoLostCallbackWakeup`
  (`NoStrandedCallback`). The strengthening is that between the failed
  predicate and the sleep nobody pushes, because the mutex is held; `stop()`
  does not need the mutex, but it does not push either.
* **CommonJS_proofs.** `CacheIsSound` (`CacheFollowsEvaluation`) and
  `CompletedStays` (`CompletedIsFinal`). When a body returns, the loader caches
  the value of the load its frame remembers; `FramesCurrent` adds that this is
  the latest load of the file, which holds because a file under evaluation is
  cached and so not loaded again.

* **Deferred_proofs.** `TypeCorrect`, `SettledAsEnded` (`SettleMatchesOutcome`),
  `SettledOnce` (`SettledOnceUnlessFallback`), `ResultFreed`
  (`ResultFreedOnce`), `ReferencesCounted` (`RefsCounted`) and `NoLateWork`
  (`NoWorkAfterRuntimeFreed`). A count of references alone is not inductive: the
  last reference frees the buffers only where the stage of the worker and the
  callbacks that wait agree with it (`Counted`, `Freed`), and a callback decides
  to resolve or reject by `hasError`, which another callback may read later. So
  `IInv` adds how far the worker is (`Progress`), that calls made and callbacks
  waiting do not exceed the callbacks posted (`Settling`), that a waiting
  callback fits the outcome (`CallbacksFit`), that the pool's queue holds exactly
  the queued deferreds (`BacklogIsQueued`), and what the main thread has already
  drained (`MainInOrder`). Every callback is counted in two sequences (the batch
  and the queue), and the lemmas about `Pending` say how each queue operation
  changes the count.
* **WorkerThreads_proofs.** `TypeCorrect`, `ReportsDelivered`
  (`ReportsMatchThread`) and `MessagesReachContext` (`MessagesUseLiveContext`). The
  events of one worker are scattered over the batch and the queue among those
  of the others: `Reports` says that the rest of its report is placed in them by
  an increasing map, and the lemmas carry that map through posting, taking a
  batch and running its first callback. `BatchInOrder` adds that a batch is taken only where it is run. That
  messages find a live context is not inductive: the pointer is tested at the
  post and used in the callback, with any step of the worker between. `Contexts`
  says that only a worker whose file is missing frees its context, that a thread
  inside a context has it alive and that the main thread enters one that was
  created; `MessagesHaveContext` that a message waits only for such a one.
* **Services_proofs.** One invariant per module.
  `DatagramsEmittedOnce` (`DgramSafety`): a datagram is in one place (`DgramOnce`)
  and a thread that took one after `close()` does not come back
  (`DgramClosing`), so at most one late message is emitted.
  `BreakpointsInForce` (`DebuggerSafety`): the list holds what was set and not
  removed, by increasing number (`DebuggerList`); a thread that was not joined
  has its flag set (`DebuggerThread`).
  `NetEventsInOrder` (`NetSafety`): `NetThreads` relates the position of each
  thread, the flags, the join that is waited for and whether the object was used
  again; `NetEvents` says that the last event posted tells whether the read
  thread will post more, without which a `data` could follow an `end`.
  `ResponsesReachClients` (`HttpSafety`): while no response is kept, the
  descriptor of the request belongs to its client until the response is
  released (`HttpResponses`); the process is terminated only by a second
  `listen()` (`HttpThreads`).
* **Jobs_proofs** extends it. `OutputSeenInOrder` (`ProcessSafety`): a pipe holds
  the last chunks written and the reader the one before them (`ProcPipes`),
  what was posted or run for a stream is exactly its first chunks
  (`ProcOutput`), the exit is posted once and after the flag was reset
  (`ProcExit`), a channel that is open was never closed (`ProcWorkers`).
  `FilesInOrder` (`FileSafety`): jobs wait in the pool in the order of their
  calls (`IoPool`), each callback belongs to an operation of its own and those
  of promises keep the order of the calls (`IoOrder`), a callback runs after its
  job (`IoCalled`), a call that waits keeps the script from doing anything else
  (`IoWaits`), and a read that nobody disturbed finds what it expects on the
  disk, because nobody else may be writing that file (`IoReads`). That the
  callbacks fit their bound is a counting argument: they are injective into the
  operations. `ServicesTypeCorrect` (`TypesOK`) follows from the six invariants.

* **Libraries_proofs**: one invariant per library and part of the run.
  * `WritesKept` (`StreamSafety`): `StreamState` says which class of stream may
    hold chunks or have ended.
  * `MappingsPinned` (`MappingSafety`): a thread with the lock is in a call that
    waits for the lock, any other has at most its outermost frame (`Waits`,
    `Before`), and while nobody has the lock every mapping is weak
    (`StrongIsHeld`), which is why only weak references become roots.
    That no more references are held than calls were made needs
    `BridgeCounts`: the threads that have called and do not have the lock yet
    (`Pending`) still owe theirs.
  * `CollectionsAnswer` (`CollectionSafety`): `CoreSet`, `CoreBag` and `CoreList`
    relate each collection to what the script put into it, up to values that
    `fromJS` makes alike; a function never gets into one because its
    registration keeps the lock (`CoreLock`). `CoreSizes` bounds the collections
    by the operations done.
  * `HandlersCalled` (`EmitterSafety`): `WalkFits` says of each `emit()` in
    progress that it walks inside the array it began with and that, unless a
    handler was removed, the first handlers of that array are still those it
    began with. A registration keeps it (it overwrites a stale cell behind them
    or frees the array), a nested `emit()` too. `RegisteredAlive` says that a
    handler with a registration or a reference of the script is not freed;
    so a freed handler is called, or freed while it runs, only in an `emit()`
    during which one was removed (`UndefinedNeedsChange`).
  * `InstallsReported` (`InstallSafety`) and `DownloadsLimited`: `PackageBits`
    says that the bit of a download is missing from the word only while its task
    has not written it, or after an overlap; `PackageVersions` that an installed
    task left the files of its version; `PackageBatch` that a batch is full at
    `maxConcurrency`.
  * `NewestChosen` (`VersionSafety`): the choice is a left fold over the published
    versions, so what it computes is shown by the smallest prefix for which it
    would be wrong; that a release order is total and transitive is proved from
    the comparison of its parts.
  * `FilesFound` (`ResolverSafety`): candidates are tried in the order of a
    sequence, so the file found is that of the smallest index, and the package
    that decides is the one of the smallest distance (`Smallest`).
  * `BuffersBounded` (`BufferSafety`): what is stored are bytes (`BufferInv`), hence
    the hexadecimal text goes there and back. The utf8 text is a concatenation of
    one piece per byte, followed prefix by prefix (`Flat`, `Decoded`): it is the
    bytes themselves if and only if each lies in a character, since a U+FFFD makes
    it longer.
  * `BridgeSafe`, `PackagesSafe` and `ScriptsSafe` put these together as the run
    states them, `TypesKept` (`TypesOK`) the types and bounds of all.

With these every safety invariant that a passing run checks, and the action
property of CommonJS, is stated by a theorem.

### Only model-checked

* Liveness: `ClosesReturn`, `FileCallbacksRun` and the liveness properties of
  ThreadPool, EventLoop, Deferred and WorkerThreads rest on fairness and
  ENABLED, which the prover does not handle; with them the liveness half of the
  refinement of TaskService.
* The five properties that the violation runs refute.

Induction over data is no rule the provers can use. Where a proof about a fold
needed one (`NewestChosen`, `BuffersBounded`), the theorem looks instead at the
smallest number for which it would fail (`Smallest`, `Iterates`).

## 6. What is abstracted and what is left out

* Task results, callback bodies, messages and exports are identities; what the
  script does is chosen nondeterministically among the operations it has.
* Allocation failures of the C++ library and the failure to create a thread.
* In Deferred: the references `resolve` and `reject` hold only as far as the
  finalizer frees them (a callback after it is undefined behaviour); the option
  parsing and `--check` path of `main.cpp:200-218`; the REPL.
* In WorkerThreads: `workerData`, whose value is shared between two runtimes
  (WorkerThreadsModule.cpp:229), the getters of the module, and resource limits.
  A script with an exception of which `JS_ToCString` makes no text posts no error
  event (:264) and counts as one that ends.
* In CommonJS: the search of the resolver (its result is any file), reference
  counts except for the exports object freed too early.
* In the Services modules: addresses, options, payloads, header texts, argument
  errors, listener registration, and the reference counts of emitters.
* In the Libraries modules: protoCore's own collections, character by character
  texts, HTTP and JSON of the registry client, `resolveExports`, which is never
  reached because `parsePackageJson` never fills `exports`; names such as
  `1.0.0+a-b`, on which `Semver::parse` throws `std::out_of_range` (Semver.cpp:31);
  how many bytes one U+FFFD of `JS_NewString` stands for (one, in `Buffer`) and
  whether halves of surrogate pairs are joined.

### Not modelled

* The ES module loader, AsyncModuleLoader, ModuleCache and ModuleInterop, and the
  operations of the execution engine: nothing in the program calls them.
* crypto, path, url, util, process, console, error handling: conversions and
  calls of libraries without state that outlives a call.
* Logger, metrics, profilers, memory analyzer: counters and reports that nothing
  else depends on. Native addons: `dlopen` and an ABI; what `require()` makes of
  the outcome is in CommonJS.
* REPL, benchmark and test runners: terminal and subprocess I/O.
* The pool singletons: wrappers that create one executor each.

## 7. Plan

What is left, in this order:

1. Deferred over the thread pool itself: its abstract pool (`backlog`, `InPool`) is
   justified by `ServiceSafety` on paper; a theorem would map each step of
   Deferred's pool to a step of TaskService.
2. AsyncIO in the same way: that its jobs start in order, at most `PoolSize` at
   once, as a refinement of TaskService.
3. The hazards without a property (`PROJECT.json`, with their notes): the sleep
   that loses `stop()`, the freed error text and the shared runtime of a worker,
   the main script's path in nested modules, writes to a peer that is gone.
