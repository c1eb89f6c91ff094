------------------------------ MODULE AsyncIO ------------------------------
(***************************************************************************)
(* io (src/src/modules/IOModule.cpp), fs (src/src/modules/fs/FSModule.cpp) *)
(* and dns.lookup (src/src/modules/dns/DNSModule.cpp) over the I/O pool.   *)
(*                                                                         *)
(* io.readFile and io.writeFile submit a job and wait for it.  The promise *)
(* functions of fs, and the Async functions of io, submit a job and post,  *)
(* in the same call, a callback that waits for the job: the event loop     *)
(* stands still until the job at its head is done.  The callback hands the *)
(* result to a function that ignores it.  dns.lookup posts its callback    *)
(* from the job, so nothing keeps the process waiting for it.  The Sync    *)
(* functions of fs touch the disk directly.                                *)
(*                                                                         *)
(* A file is absent, has the number of the operation that wrote it, or any *)
(* other content, the empty one of a file just opened for writing included.*)
(* Left out: the Sync functions that change no file, and argument errors.  *)
(***************************************************************************)
EXTENDS Integers, Sequences, FiniteSets

CONSTANTS
    MaxOps,     \* bound: operations the script starts
    Path,       \* file names
    PoolSize    \* threads of the I/O pool

VARIABLES
    op,         \* the operations started so far, in order
    poolQueue,  \* jobs no thread has taken
    disk,       \* what each path holds
    ioMain,     \* "js", "idle", an operation's number while it waits, "leave"
                \* once the loop is left, "exit"
    ioLast,     \* callbacks the last processCallbacks() has left to run, -1
                \* before it
    ioQueue,    \* operations whose callback is queued
    called,     \* operations whose callback ran, in order
    ioFate

vars == <<op, poolQueue, disk, ioMain, ioLast, ioQueue, called, ioFate>>

Absent  == -1
Other   == 0
Any     == -2
Id      == 1..MaxOps
Content == Absent..MaxOps
Api     == {"wait", "promise", "lookup"}

Operation == [api : Api, kind : {"read", "write", "other", "lookup"}, path : Path,
              job : {"queued", "taken", "opened", "done", "failed"},
              got : Any..MaxOps, expect : Any..MaxOps, inTime : BOOLEAN]

TypeOK ==
    /\ op \in Seq(Operation)
    /\ poolQueue \in Seq(Id) /\ ioQueue \in Seq(Id) /\ called \in Seq(Id)
    /\ disk \in [Path -> Content]
    /\ ioMain \in [at : {"js", "idle", "wait", "leave", "exit"}, for : 0..MaxOps]
    /\ ioLast \in -1..MaxOps
    /\ ioFate \in {"alive", "crashed", "gone"}

At(place) == [at |-> place, for |-> 0]

Start ==
    /\ op = << >> /\ poolQueue = << >> /\ ioQueue = << >> /\ called = << >>
    /\ disk = [p \in Path |-> Absent]
    /\ ioMain = At("js") /\ ioLast = -1

Init == Start /\ ioFate = "alive"

Undefined(cond) ==
    /\ ioFate = "alive"
    /\ ioFate' \in IF cond THEN {"alive", "crashed"} ELSE {"alive"}

Defined == Undefined(FALSE)

Finished(i) == op[i].job \in {"done", "failed"}

\* Writes of path p whose end the script cannot know.
Writing(p) ==
    {i \in DOMAIN op : /\ op[i].kind = "write" /\ op[i].path = p
                       /\ op[i].api = "promise" /\ ~Finished(i)}

\* A read that is under way may see a change made now.
Disturb(ops, p) ==
    [i \in DOMAIN ops |->
        IF ops[i].kind = "read" /\ ops[i].path = p /\ ops[i].job # "done"
        THEN [ops[i] EXCEPT !.expect = Any] ELSE ops[i]]

-----------------------------------------------------------------------------
(* The script                                                              *)

\* Slip: the write is not waited for.
WaitsForRead(i, kind) == IF kind = "read" THEN [at |-> "wait", for |-> i] ELSE At("js")

\* io.readFile and io.writeFile wait for the future.
WaitsFor(i, kind) == [at |-> "wait", for |-> i]

\* Slip: a callback is posted when its job is done, as in dns.
PostsAtOnceNever(api) == FALSE

\* Who posts the callback of an operation: the call, or else the job.
PostsAtOnce(api) == api = "promise"

Submit(api, kind, p) ==
    LET i == Len(op) + 1
        new == [api |-> api, kind |-> kind, path |-> p, job |-> "queued",
                got |-> Any, inTime |-> ioLast = -1,
                expect |-> IF kind = "read" /\ Writing(p) = {} THEN disk[p]
                                                               ELSE Any]
    IN  /\ ioMain = At("js") /\ Defined
        /\ i <= MaxOps
        /\ op' = Append(IF kind = "write" THEN Disturb(op, p) ELSE op, new)
        /\ poolQueue' = Append(poolQueue, i)
        /\ ioQueue' = IF PostsAtOnce(api) THEN Append(ioQueue, i) ELSE ioQueue
        /\ ioMain' = IF api = "wait" THEN WaitsFor(i, kind) ELSE ioMain
        /\ UNCHANGED <<disk, ioLast, called>>

readFile(p) == Submit("wait", "read", p)

writeFile(p) == Submit("wait", "write", p)

promisesReadFile(p) == Submit("promise", "read", p)

promisesWriteFile(p) == Submit("promise", "write", p)

\* Jobs that leave the content of files alone.
promisesReaddir(p) == Submit("promise", "other", p)

promisesMkdir(p) == Submit("promise", "other", p)

promisesStat(p) == Submit("promise", "other", p)

lookup == \E p \in Path : Submit("lookup", "lookup", p)

\* future.get() returns or throws.
WaitEnds ==
    /\ ioMain.at = "wait" /\ Finished(ioMain.for) /\ Defined
    /\ ioMain' = At("js")
    /\ UNCHANGED <<op, poolQueue, disk, ioLast, ioQueue, called>>

\* The Sync functions that change a file.
Changes(p, content) ==
    /\ ioMain = At("js") /\ Defined
    /\ disk' = [disk EXCEPT ![p] = content]
    /\ op' = Disturb(op, p)
    /\ UNCHANGED <<poolQueue, ioMain, ioLast, ioQueue, called>>

writeFileSync(p) == Changes(p, Other)

unlinkSync(p) == disk[p] # Absent /\ Changes(p, Absent)

\* A copy of another file.
copyFileSync(p) == Changes(p, Other)

\* The file goes to another name, or another file gets this one.
renameSync(p) == \/ disk[p] # Absent /\ Changes(p, Absent)
                 \/ Changes(p, Other)

-----------------------------------------------------------------------------
(* The I/O pool                                                            *)

Busy == {i \in DOMAIN op : op[i].job \in {"taken", "opened"}}

TakeJob ==
    /\ poolQueue # << >> /\ Cardinality(Busy) < PoolSize /\ Defined
    /\ op' = [op EXCEPT ![Head(poolQueue)].job = "taken"]
    /\ poolQueue' = Tail(poolQueue)
    /\ UNCHANGED <<disk, ioMain, ioLast, ioQueue, called>>

readJob(i) ==
    /\ op[i].job = "taken" /\ op[i].kind = "read" /\ Defined
    /\ op' = [op EXCEPT ![i] = [@ EXCEPT !.got = disk[op[i].path],
                 !.job = IF disk[op[i].path] = Absent THEN "failed" ELSE "done"]]
    /\ UNCHANGED <<poolQueue, disk, ioMain, ioLast, ioQueue, called>>

otherJob(i) ==
    /\ op[i].job = "taken" /\ op[i].kind = "other" /\ Defined
    /\ \E end \in {"done", "failed"} : op' = [op EXCEPT ![i].job = end]
    /\ UNCHANGED <<poolQueue, disk, ioMain, ioLast, ioQueue, called>>

\* Opening truncates the file, or fails; then the content is written.
writeJob(i) ==
    /\ op[i].kind = "write" /\ Defined
    /\ \/ /\ op[i].job = "taken"
          /\ \/ /\ op' = [op EXCEPT ![i].job = "opened"]
                /\ disk' = [disk EXCEPT ![op[i].path] = Other]
             \/ /\ op' = [op EXCEPT ![i].job = "failed"]
                /\ UNCHANGED disk
       \/ /\ op[i].job = "opened"
          /\ op' = [op EXCEPT ![i].job = "done"]
          /\ disk' = [disk EXCEPT ![op[i].path] = i]
    /\ UNCHANGED <<poolQueue, ioMain, ioLast, ioQueue, called>>

\* getaddrinfo(), then the callback is posted, to whatever is left.
lookupJob(i) ==
    /\ op[i].job = "taken" /\ op[i].kind = "lookup"
    /\ Undefined(ioMain.at = "exit")
    /\ op' = [op EXCEPT ![i].job = "done"]
    /\ ioQueue' = Append(ioQueue, i)
    /\ UNCHANGED <<poolQueue, disk, ioMain, ioLast, called>>

-----------------------------------------------------------------------------
(* The event loop, and the whole                                           *)

\* The callback at the head waits for its job, then calls back.
RunCallback ==
    /\ ioMain = At("idle") /\ ioQueue # << >> /\ ioLast # 0
    /\ Finished(Head(ioQueue)) /\ Defined
    /\ called' = Append(called, Head(ioQueue))
    /\ ioQueue' = Tail(ioQueue)
    /\ ioMain' = At("js")
    /\ ioLast' = IF ioLast > 0 THEN ioLast - 1 ELSE ioLast
    /\ UNCHANGED <<op, poolQueue, disk>>

Return ==
    /\ ioMain = At("js") /\ Defined
    /\ ioMain' = At("idle")
    /\ UNCHANGED <<op, poolQueue, disk, ioLast, ioQueue, called>>

\* main() leaves the loop: it found the queue empty, or 30 seconds have passed.
Leave ==
    /\ ioMain = At("idle") /\ ioLast = -1 /\ Defined
    /\ ioMain' = At("leave")
    /\ UNCHANGED <<op, poolQueue, disk, ioLast, ioQueue, called>>

\* processCallbacks() once more, whatever the queue held: it takes what is
\* queued by now, a lookup's callback that came after the test included.
LastCallbacks ==
    /\ ioMain = At("leave") /\ Defined
    /\ ioLast' = Len(ioQueue)
    /\ ioMain' = At("idle")
    /\ UNCHANGED <<op, poolQueue, disk, ioQueue, called>>

\* main() returns; what was queued in the meantime stays behind.
Exit ==
    /\ ioMain = At("idle") /\ ioLast = 0 /\ Defined
    /\ ioMain' = At("exit")
    /\ UNCHANGED <<op, poolQueue, disk, ioLast, ioQueue, called>>

Gone ==
    /\ ioMain = At("exit") /\ ioFate = "alive" /\ ioFate' = "gone"
    /\ UNCHANGED <<op, poolQueue, disk, ioMain, ioLast, ioQueue, called>>

PoolStep ==
    \/ TakeJob
    \/ \E i \in DOMAIN op : readJob(i) \/ writeJob(i) \/ otherJob(i)
                           \/ lookupJob(i)

Next ==
    \/ (\E p \in Path : \/ readFile(p) \/ writeFile(p)
                        \/ promisesReadFile(p) \/ promisesWriteFile(p)
                        \/ promisesReaddir(p) \/ promisesMkdir(p) \/ promisesStat(p)
                        \/ writeFileSync(p) \/ unlinkSync(p)
                        \/ copyFileSync(p) \/ renameSync(p))
    \/ lookup \/ WaitEnds \/ PoolStep
    \/ RunCallback \/ Return \/ Leave \/ LastCallbacks \/ Exit \/ Gone

\* The pool's threads run, disk and resolver answer, and JavaScript returns.
Fairness ==
    /\ WF_vars(PoolStep)
    /\ WF_vars(RunCallback \/ Return \/ WaitEnds \/ LastCallbacks)

Spec == Init /\ [][Next]_vars /\ Fairness

\* Callbacks of file operations run in the order of the calls, in whatever
\* order the jobs end, and each after its own job.
CallbacksInOrder ==
    /\ \A i, j \in DOMAIN called :
            i < j /\ op[called[i]].api = "promise" /\ op[called[j]].api = "promise"
                => called[i] < called[j]
    /\ \A i \in DOMAIN called : Finished(called[i])

\* A read that no change of its file overlaps sees what the file held when the
\* read was started: io.writeFile has written when it returns.
ReadsSeeWrites ==
    \A i \in DOMAIN op :
        op[i].kind = "read" /\ Finished(i) /\ op[i].expect # Any
            => op[i].got = op[i].expect

Safety == CallbacksInOrder /\ ReadsSeeWrites

\* The callback of every file operation that was started before main() left its
\* loop runs: no job and no callback is lost, and no wait is for ever.  One that
\* a callback of the last processCallbacks() starts is too late: its own
\* callback stays in the queue.
CallbacksRun ==
    \A i \in Id :
        (i <= Len(op) /\ op[i].api = "promise" /\ op[i].inTime)
            ~> (\E k \in DOMAIN called : called[k] = i) \/ ioFate = "crashed"

=============================================================================
