-------------------------- MODULE ThreadPool_proofs --------------------------
(***************************************************************************)
(* Proofs about ThreadPool for every set of workers, clients and tasks:    *)
(* type correctness, the accounting of tasks and of activeCount, the       *)
(* absence of lost wakeups for tasks, and what a shutdown leaves behind.   *)
(***************************************************************************)
EXTENDS ThreadPool, FiniteSetTheorems, SequenceTheorems, TLAPS

-----------------------------------------------------------------------------
(* What Append and Tail do to the elements of a queue. *)

\* submit() adds one task to those queued, and keeps them distinct when the
\* task is new (emplace, ThreadPoolExecutor.h:58).
LEMMA AppendQueued ==
    ASSUME NEW S, NEW q \in Seq(S), NEW x \in S
    PROVE  /\ Append(q, x) \in Seq(S)
           /\ Append(q, x) # << >>
           /\ ToSet(Append(q, x)) = ToSet(q) \cup {x}
           /\ IsInjective(q) /\ x \notin ToSet(q) => IsInjective(Append(q, x))
<1>1. /\ Append(q, x) \in Seq(S)
      /\ Len(Append(q, x)) = Len(q) + 1
      /\ Append(q, x)[Len(q) + 1] = x
      /\ \A i \in 1..Len(q) : Append(q, x)[i] = q[i]
      /\ Len(q) \in Nat
      /\ DOMAIN q = 1..Len(q)
      /\ DOMAIN Append(q, x) = 1..(Len(q) + 1)
  BY AppendProperties, LenProperties
<1>2. Append(q, x) # << >>
  BY <1>1, EmptySeq
<1>3. ToSet(Append(q, x)) = ToSet(q) \cup {x}
  BY <1>1 DEF ToSet
<1>4. IsInjective(q) /\ x \notin ToSet(q) => IsInjective(Append(q, x))
  BY <1>1 DEF IsInjective, ToSet
<1>5. QED
  BY <1>1, <1>2, <1>3, <1>4

\* A worker that pops the head removes exactly that task from those queued,
\* because the queued tasks are distinct (front/pop, ThreadPoolExecutor.cpp:94).
LEMMA TailQueued ==
    ASSUME NEW S, NEW q \in Seq(S), q # << >>, IsInjective(q)
    PROVE  /\ Head(q) \in S
           /\ Tail(q) \in Seq(S)
           /\ IsInjective(Tail(q))
           /\ Head(q) \in ToSet(q)
           /\ ToSet(Tail(q)) = ToSet(q) \ {Head(q)}
<1>1. /\ Head(q) \in S
      /\ Tail(q) \in Seq(S)
      /\ Head(q) = q[1]
      /\ Len(Tail(q)) = Len(q) - 1
      /\ \A i \in 1..Len(Tail(q)) : Tail(q)[i] = q[i + 1]
      /\ Len(q) \in Nat /\ Len(q) # 0
      /\ DOMAIN q = 1..Len(q)
      /\ DOMAIN Tail(q) = 1..(Len(q) - 1)
  BY HeadTailProperties, LenProperties, EmptySeq
<1>2. IsInjective(Tail(q))
  BY <1>1 DEF IsInjective
<1>3. Head(q) \in ToSet(q)
  BY <1>1 DEF ToSet
<1>4. ToSet(Tail(q)) \subseteq ToSet(q) \ {Head(q)}
  <2>1. SUFFICES ASSUME NEW i \in 1..(Len(q) - 1)
                 PROVE  Tail(q)[i] \in ToSet(q) \ {Head(q)}
    BY <1>1 DEF ToSet
  <2>2. i + 1 \in 1..Len(q) /\ 1 \in 1..Len(q) /\ i + 1 # 1
    BY <1>1
  <2>3. Tail(q)[i] = q[i + 1] /\ q[i + 1] # q[1]
    BY <1>1, <2>2 DEF IsInjective
  <2>4. QED
    BY <1>1, <2>2, <2>3 DEF ToSet
<1>5. ToSet(q) \ {Head(q)} \subseteq ToSet(Tail(q))
  <2>1. SUFFICES ASSUME NEW i \in 1..Len(q), q[i] # q[1]
                 PROVE  q[i] \in ToSet(Tail(q))
    BY <1>1 DEF ToSet
  <2>2. i - 1 \in 1..(Len(q) - 1) /\ (i - 1) + 1 = i
    BY <1>1, <2>1
  <2>3. Tail(q)[i - 1] = q[i]
    BY <1>1, <2>2
  <2>4. QED
    BY <1>1, <2>2, <2>3 DEF ToSet
<1>6. QED
  BY <1>1, <1>2, <1>3, <1>4, <1>5

\* The empty queue holds no task.
LEMMA EmptyQueued == ToSet(<< >>) = {} /\ IsInjective(<< >>)
BY DEF ToSet, IsInjective

-----------------------------------------------------------------------------
(* The invariant holds initially. *)

\* The constructor leaves an empty queue, idle workers and no flag set
\* (ThreadPoolExecutor.cpp:7-21).
LEMMA InitIInv == Init => IInv
<1>1. SUFFICES ASSUME Init PROVE IInv
  OBVIOUS
<1>2. TypeOK /\ HoldsTask
  BY <1>1, EmptySeq DEF Init, TypeOK, WorkerPc, CloserPc, Future, HoldsTask, Running
<1>3. ActiveCountExact
  <2>1. {w \in Worker : Active(w)} = {}
    BY <1>1 DEF Init, Active
  <2>2. QED
    BY <1>1, <2>1, FS_EmptySet DEF Init, ActiveCountExact
<1>4. PendingAccounted
  BY <1>1, EmptyQueued DEF Init, PendingAccounted, Queued, InProgress, Running
<1>5. /\ SleepersReady /\ FlagsFollowCloser /\ ExitIsFinal
      /\ NoSleeperAfterClose /\ NoStrandedTask
  BY <1>1 DEF Init, SleepersReady, FlagsFollowCloser, ExitIsFinal, Exited,
              NoSleeperAfterClose, NoStrandedTask
<1>6. QED
  BY <1>2, <1>3, <1>4, <1>5 DEF IInv

-----------------------------------------------------------------------------
(* activeCount counts the active workers. *)

\* activeCount stays the number of workers between pop and decrement: only
\* Take enters that region and only Retire leaves it (.cpp:96, 110).
LEMMA ActiveCountStep ==
    ASSUME TypeOK, ActiveCountExact, [Next]_vars
    PROVE  ActiveCountExact' /\ activeCount' \in Nat
<1> DEFINE A == {w \in Worker : Active(w)}
<1>1. IsFiniteSet(A) /\ activeCount = Cardinality(A) /\ Cardinality(A) \in Nat
  <2>1. A \in SUBSET Worker
    OBVIOUS
  <2>2. QED
    BY <2>1, ThreadAssumption, FS_Subset, FS_CardinalityType
       DEF ActiveCountExact
<1>2. ASSUME NEW w \in Worker, Take(w)
      PROVE  ActiveCountExact' /\ activeCount' \in Nat
  <2>1. w \notin A /\ A' = A \cup {w}
    BY <1>2 DEF Take, TakeTask, AtTake, Active, TypeOK
  <2>2. activeCount' = Cardinality(A) + 1
    BY <1>1, <1>2 DEF Take, TakeTask
  <2>3. QED
    BY <1>1, <2>1, <2>2, FS_AddElement DEF ActiveCountExact
<1>3. ASSUME NEW w \in Worker, Retire(w)
      PROVE  ActiveCountExact' /\ activeCount' \in Nat
  <2>1. w \in A /\ A' = A \ {w}
    BY <1>3 DEF Retire, Active, TypeOK
  <2>2. activeCount' = Cardinality(A) - 1
    BY <1>1, <1>3 DEF Retire
  <2>3. /\ IsFiniteSet(A \ {w})
        /\ Cardinality(A \ {w}) = Cardinality(A) - 1
        /\ Cardinality(A \ {w}) \in Nat
    BY <1>1, <2>1, FS_RemoveElement, FS_CardinalityType
  <2>4. QED
    BY <2>1, <2>2, <2>3 DEF ActiveCountExact
<1>4. ASSUME A' = A, activeCount' = activeCount
      PROVE  ActiveCountExact' /\ activeCount' \in Nat
  BY <1>1, <1>4 DEF ActiveCountExact
<1>5. ASSUME NEW w \in Worker, Run(w)
      PROVE  A' = A /\ activeCount' = activeCount
  BY <1>5 DEF Run, Active, TypeOK
<1>6. ASSUME NEW w \in Worker, Wait(w) \/ Exit(w) \/ NotifyAll(w)
      PROVE  A' = A /\ activeCount' = activeCount
  BY <1>6 DEF Wait, Exit, NotifyAll, AtTake, Active, TypeOK
<1>7. ASSUME UNCHANGED <<workerPc, activeCount>>
      PROVE  A' = A /\ activeCount' = activeCount
  BY <1>7 DEF Active
<1>8. ASSUME NEW c \in Client, ClientCall(c) \/ NotifyOne(c)
      PROVE  UNCHANGED <<workerPc, activeCount>>
  BY <1>8 DEF ClientCall, Submit, SubmitThrows, NotifyOne
<1>9. ASSUME Shutdown \/ ShutdownNow \/ CloserStep \/ SpuriousWakeup
             \/ UNCHANGED vars
      PROVE  UNCHANGED <<workerPc, activeCount>>
  BY <1>9 DEF Shutdown, ShutdownNow, CloserStep, ShutdownNotify, ShutdownCheck,
              ShutdownBlock, ShutdownNowNotify, Join, SpuriousWakeup, vars
<1>10. QED
  BY <1>2, <1>3, <1>4, <1>5, <1>6, <1>7, <1>8, <1>9 DEF Next, WorkerStep

-----------------------------------------------------------------------------
(* Typing. *)

\* Every step keeps the variables in their types, and a worker at "run" keeps
\* the task it took from the queue.
LEMMA TypeStep ==
    ASSUME TypeOK, HoldsTask, ActiveCountExact, IsInjective(taskQueue),
           [Next]_vars
    PROVE  TypeOK' /\ HoldsTask'
<1> USE DEF TypeOK, HoldsTask, Running
<1>1. activeCount' \in Nat
  BY ActiveCountStep
<1>2. ASSUME NEW c \in Client, NEW t \in Task, Submit(c, t)
      PROVE  TypeOK' /\ HoldsTask'
  <2>1. taskQueue' \in Seq(Task)
    BY <1>2, AppendQueued DEF Submit
  <2>2. QED
    BY <1>1, <1>2, <2>1 DEF Submit, Future
<1>3. ASSUME NEW c \in Client, NEW t \in Task, SubmitThrows(c, t)
      PROVE  TypeOK' /\ HoldsTask'
  BY <1>3 DEF SubmitThrows, Future
<1>4. ASSUME NEW c \in Client, NotifyOne(c)
      PROVE  TypeOK' /\ HoldsTask'
  BY <1>4 DEF NotifyOne, OneWoken
<1>5. ASSUME NEW w \in Worker, Take(w)
      PROVE  TypeOK' /\ HoldsTask'
  <2>1. taskQueue' \in Seq(Task) /\ Head(taskQueue) \in Task
    BY <1>5, TailQueued DEF Take, TakeTask
  <2>2. QED
    BY <1>1, <1>5, <2>1 DEF Take, TakeTask, WorkerPc
<1>6. ASSUME NEW w \in Worker, Wait(w) \/ Exit(w) \/ Run(w)
      PROVE  TypeOK' /\ HoldsTask'
  BY <1>6 DEF Wait, Exit, Run, WorkerPc, Future
<1>7. ASSUME NEW w \in Worker, Retire(w) \/ NotifyAll(w)
      PROVE  TypeOK' /\ HoldsTask'
  BY <1>1, <1>7 DEF Retire, NotifyAll, WorkerPc
<1>8. ASSUME ShutdownNow
      PROVE  TypeOK' /\ HoldsTask'
  BY <1>8, EmptySeq DEF ShutdownNow, CloserPc, Future
<1>9. ASSUME Shutdown \/ CloserStep
      PROVE  TypeOK' /\ HoldsTask'
  BY <1>9 DEF Shutdown, CloserStep, ShutdownNotify, ShutdownCheck,
              ShutdownBlock, ShutdownNowNotify, Join, CloserPc
<1>10. ASSUME SpuriousWakeup \/ UNCHANGED vars
       PROVE  TypeOK' /\ HoldsTask'
  BY <1>10 DEF SpuriousWakeup, vars
<1>11. QED
  BY <1>2, <1>3, <1>4, <1>5, <1>6, <1>7, <1>8, <1>9, <1>10
     DEF Next, WorkerStep, ClientCall

-----------------------------------------------------------------------------
(* Accounting of the tasks. *)

\* A step moves a pending task only from a caller to the queue, from the queue
\* to one worker, or out of the pending tasks, never to two places.
LEMMA PendingStep ==
    ASSUME TypeOK, HoldsTask, PendingAccounted, [Next]_vars
    PROVE  PendingAccounted'
<1> DEFINE Held == {task[w] : w \in {v \in Worker : Running(v)}}
           Pending == {t \in Task : future[t] = "pending"}
<1> USE DEF InProgress
<1>1. ASSUME NEW c \in Client, NEW t \in Task, Submit(c, t)
      PROVE  PendingAccounted'
  <2>1. t \notin Queued /\ t \notin Held
    BY <1>1 DEF Submit, PendingAccounted, TypeOK
  <2>2. Queued' = Queued \cup {t} /\ IsInjective(taskQueue')
    BY <1>1, <2>1, AppendQueued DEF Submit, PendingAccounted, TypeOK, Queued
  <2>3. Held' = Held
    BY <1>1 DEF Submit, Running
  <2>4. Pending' = Pending \cup {t}
    BY <1>1 DEF Submit, TypeOK
  <2>5. \A w \in Worker : Running(w) => task[w] \notin Queued'
    BY <2>1, <2>2 DEF PendingAccounted
  <2>6. UNCHANGED <<task, workerPc>>
    BY <1>1 DEF Submit
  <2>7. QED
    BY <2>2, <2>3, <2>4, <2>5, <2>6 DEF PendingAccounted, Running
<1>2. ASSUME NEW w \in Worker, Take(w)
      PROVE  PendingAccounted'
  <2> DEFINE h == Head(taskQueue)
  <2>1. /\ h \in Queued
        /\ Queued' = Queued \ {h}
        /\ IsInjective(taskQueue')
    BY <1>2, TailQueued DEF Take, TakeTask, PendingAccounted, TypeOK, Queued
  <2>2. /\ ~Running(w)
        /\ Running(w)' /\ task'[w] = h
        /\ \A v \in Worker \ {w} :
              (Running(v)' <=> Running(v)) /\ task'[v] = task[v]
    BY <1>2 DEF Take, TakeTask, AtTake, Running, TypeOK
  <2>3. Held' = Held \cup {h}
    BY <2>2
  <2>4. Pending' = Pending
    BY <1>2 DEF Take, TakeTask
  <2>5. \A v \in Worker : Running(v)' => task'[v] \notin Queued'
    BY <2>1, <2>2 DEF PendingAccounted
  <2>6. \A v \in Worker \ {w} : Running(v)' => task'[v] # h
    BY <2>1, <2>2 DEF PendingAccounted
  <2>7. \A u, v \in Worker :
           Running(u)' /\ Running(v)' /\ task'[u] = task'[v] => u = v
    BY <2>2, <2>6 DEF PendingAccounted
  <2>8. QED
    BY <2>1, <2>3, <2>4, <2>5, <2>7 DEF PendingAccounted
<1>3. ASSUME NEW w \in Worker, Run(w)
      PROVE  PendingAccounted'
  <2>1. task[w] \in Task /\ task[w] \notin Queued
    BY <1>3 DEF Run, HoldsTask, Running, PendingAccounted
  <2>2. Pending' = Pending \ {task[w]}
    BY <1>3, <2>1 DEF Run, TypeOK
  <2>3. /\ Running(w) /\ ~Running(w)' /\ task' = task
        /\ \A v \in Worker \ {w} : Running(v)' <=> Running(v)
    BY <1>3 DEF Run, Running, TypeOK
  <2>4. Held' = Held \ {task[w]}
    BY <2>3 DEF PendingAccounted
  <2>5. UNCHANGED taskQueue /\ Queued' = Queued
    BY <1>3 DEF Run, Queued
  <2>6. QED
    BY <2>1, <2>2, <2>3, <2>4, <2>5 DEF PendingAccounted
<1>4. ASSUME ShutdownNow
      PROVE  PendingAccounted'
  <2>1. Queued' = {} /\ IsInjective(taskQueue')
    BY <1>4, EmptyQueued DEF ShutdownNow, Queued
  <2>2. Pending' = Pending \ Queued
    BY <1>4 DEF ShutdownNow, Queued, TypeOK
  <2>3. UNCHANGED <<task, workerPc>>
    BY <1>4 DEF ShutdownNow
  <2>4. Held' = Held /\ Held \cap Queued = {}
    BY <2>3 DEF Running, PendingAccounted
  <2>5. QED
    BY <2>1, <2>2, <2>3, <2>4 DEF PendingAccounted, Running
<1>5. ASSUME NEW c \in Client, NEW t \in Task, SubmitThrows(c, t)
      PROVE  PendingAccounted'
  <2>1. Pending' = Pending
    BY <1>5 DEF SubmitThrows, TypeOK
  <2>2. UNCHANGED <<taskQueue, task, workerPc>>
    BY <1>5 DEF SubmitThrows
  <2>3. QED
    BY <2>1, <2>2 DEF PendingAccounted, Running, Queued
<1>6. ASSUME NEW w \in Worker, Retire(w) \/ NotifyAll(w) \/ Wait(w) \/ Exit(w)
      PROVE  PendingAccounted'
  <2>1. /\ UNCHANGED <<taskQueue, future>>
        /\ ~Running(w) /\ ~Running(w)'
        /\ \A v \in Worker \ {w} :
              (Running(v)' <=> Running(v)) /\ task'[v] = task[v]
    BY <1>6 DEF Retire, NotifyAll, Wait, Exit, AtTake, Running, TypeOK
  <2>2. Held' = Held
    BY <2>1
  <2>3. QED
    BY <2>1, <2>2 DEF PendingAccounted, Queued
<1>7. ASSUME UNCHANGED <<taskQueue, task, workerPc, future>>
      PROVE  PendingAccounted'
  BY <1>7 DEF PendingAccounted, Running, Queued
<1>8. ASSUME NEW c \in Client, NotifyOne(c)
      PROVE  PendingAccounted'
  BY <1>7, <1>8 DEF NotifyOne
<1>9. ASSUME Shutdown \/ CloserStep \/ SpuriousWakeup \/ UNCHANGED vars
      PROVE  PendingAccounted'
  BY <1>7, <1>9
     DEF Shutdown, CloserStep, ShutdownNotify, ShutdownCheck, ShutdownBlock,
         ShutdownNowNotify, Join, SpuriousWakeup, vars
<1>10. QED
  BY <1>1, <1>2, <1>3, <1>4, <1>5, <1>6, <1>8, <1>9
     DEF Next, WorkerStep, ClientCall

-----------------------------------------------------------------------------
(* Flags, exits and wakeups. *)

\* The flags follow the closer, and workers leave only when the flag is set and
\* the queue is empty for good (.cpp:27-31, 48-58, 89-91).
LEMMA FlagStep ==
    ASSUME TypeOK, FlagsFollowCloser, ExitIsFinal, [Next]_vars
    PROVE  FlagsFollowCloser' /\ ExitIsFinal'
<1> USE DEF FlagsFollowCloser, ExitIsFinal, Exited
<1>1. ASSUME NEW c \in Client, NEW t \in Task, Submit(c, t)
      PROVE  FlagsFollowCloser' /\ ExitIsFinal'
  BY <1>1, AppendQueued DEF Submit, TypeOK
<1>2. ASSUME NEW c \in Client,
             NotifyOne(c) \/ \E t \in Task : SubmitThrows(c, t)
      PROVE  FlagsFollowCloser' /\ ExitIsFinal'
  BY <1>2 DEF SubmitThrows, NotifyOne, TypeOK
<1>3. ASSUME NEW w \in Worker, Take(w)
      PROVE  FlagsFollowCloser' /\ ExitIsFinal'
  BY <1>3 DEF Take, TakeTask, AtTake, TypeOK
<1>4. ASSUME NEW w \in Worker, Exit(w)
      PROVE  FlagsFollowCloser' /\ ExitIsFinal'
  BY <1>4 DEF Exit, AtTake, MustExit, TypeOK
<1>5. ASSUME NEW w \in Worker, Wait(w) \/ Run(w) \/ Retire(w) \/ NotifyAll(w)
      PROVE  FlagsFollowCloser' /\ ExitIsFinal'
  BY <1>5 DEF Wait, Run, Retire, NotifyAll, TypeOK
<1>6. ASSUME ShutdownNow
      PROVE  FlagsFollowCloser' /\ ExitIsFinal'
  BY <1>6 DEF ShutdownNow, TypeOK
<1>7. ASSUME Shutdown \/ CloserStep
      PROVE  FlagsFollowCloser' /\ ExitIsFinal'
  BY <1>7 DEF Shutdown, CloserStep, ShutdownNotify, ShutdownCheck,
              ShutdownBlock, ShutdownNowNotify, Join
<1>8. ASSUME SpuriousWakeup \/ UNCHANGED vars
      PROVE  FlagsFollowCloser' /\ ExitIsFinal'
  BY <1>8 DEF SpuriousWakeup, vars
<1>9. QED
  BY <1>1, <1>2, <1>3, <1>4, <1>5, <1>6, <1>7, <1>8
     DEF Next, WorkerStep, ClientCall

\* Only threads whose predicate was false sleep, and no worker starts to sleep
\* after the closer's notify_all (.cpp:32, 60, 85-87).
LEMMA SleeperStep ==
    ASSUME TypeOK, SleepersReady, FlagsFollowCloser, NoSleeperAfterClose,
           [Next]_vars
    PROVE  SleepersReady' /\ NoSleeperAfterClose'
<1> USE ThreadAssumption DEF SleepersReady, NoSleeperAfterClose
<1>1. ASSUME NEW w \in Worker, Wait(w)
      PROVE  SleepersReady' /\ NoSleeperAfterClose'
  BY <1>1 DEF Wait, AtTake
<1>2. ASSUME NEW w \in Worker,
             Exit(w) \/ Take(w) \/ Run(w) \/ Retire(w) \/ NotifyAll(w)
      PROVE  SleepersReady' /\ NoSleeperAfterClose'
  BY <1>2 DEF Exit, Take, TakeTask, Run, Retire, NotifyAll, AtTake, TypeOK
<1>3. ASSUME NEW c \in Client, NEW t \in Task, Submit(c, t) \/ SubmitThrows(c, t)
      PROVE  SleepersReady' /\ NoSleeperAfterClose'
  BY <1>3 DEF Submit, SubmitThrows
<1>4. ASSUME NEW c \in Client, NotifyOne(c)
      PROVE  SleepersReady' /\ NoSleeperAfterClose'
  BY <1>4 DEF NotifyOne, OneWoken
<1>5. ASSUME Shutdown \/ ShutdownNow
      PROVE  SleepersReady' /\ NoSleeperAfterClose'
  BY <1>5 DEF Shutdown, ShutdownNow, FlagsFollowCloser
<1>6. ASSUME CloserStep
      PROVE  SleepersReady' /\ NoSleeperAfterClose'
  BY <1>6 DEF CloserStep, ShutdownNotify, ShutdownCheck, ShutdownBlock,
              ShutdownNowNotify, Join
<1>7. ASSUME SpuriousWakeup \/ UNCHANGED vars
      PROVE  SleepersReady' /\ NoSleeperAfterClose'
  BY <1>7 DEF SpuriousWakeup, vars
<1>8. QED
  BY <1>1, <1>2, <1>3, <1>4, <1>5, <1>6, <1>7 DEF Next, WorkerStep, ClientCall

\* A queued task never depends on a sleeper only.  The hard case is a notify_one
\* that wakes the closer: it can wait only after its own notify_all, when no
\* worker sleeps any more.
LEMMA StrandStep ==
    ASSUME TypeOK, SleepersReady, FlagsFollowCloser, ExitIsFinal,
           NoSleeperAfterClose, NoStrandedTask, [Next]_vars
    PROVE  NoStrandedTask'
<1> DEFINE Awake(w) == ~Exited(w) /\ w \notin waitset
<1>1. ASSUME taskQueue # << >>, Worker \cap waitset = {}
      PROVE  \E w \in Worker : Awake(w)
  BY <1>1, ThreadAssumption DEF ExitIsFinal
<1>2. ASSUME NEW c \in Client, NEW t \in Task, Submit(c, t)
      PROVE  NoStrandedTask'
  BY <1>2 DEF Submit, NoStrandedTask, TypeOK
<1>3. ASSUME NEW c \in Client, NotifyOne(c), taskQueue' # << >>
      PROVE  \E w \in Worker : Awake(w)'
  <2>1. /\ UNCHANGED <<taskQueue, workerPc>>
        /\ waitset' \in OneWoken(waitset)
    BY <1>3 DEF NotifyOne
  <2>2. CASE waitset = {}
    BY <1>1, <1>3, <2>1, <2>2 DEF OneWoken, Exited
  <2>3. CASE waitset # {}
    <3>1. PICK x \in waitset : waitset' = waitset \ {x}
      BY <2>1, <2>3 DEF OneWoken
    <3>2. CASE x \in Worker
      BY <2>1, <3>1, <3>2 DEF SleepersReady, Exited
    <3>3. CASE x = Closer
      <4>1. closerPc = "check" /\ shutdownFlag
        BY <3>1, <3>3 DEF SleepersReady, FlagsFollowCloser
      <4>2. Worker \cap waitset = {}
        BY <4>1, ThreadAssumption DEF NoSleeperAfterClose
      <4>3. QED
        BY <1>1, <1>3, <2>1, <3>1, <4>2 DEF Exited
    <3>4. QED
      BY <3>1, <3>2, <3>3 DEF TypeOK
  <2>4. QED
    BY <2>2, <2>3
<1>4. ASSUME NEW c \in Client, NEW t \in Task, SubmitThrows(c, t)
      PROVE  NoStrandedTask'
  BY <1>4 DEF SubmitThrows, NoStrandedTask, Exited
<1>5. ASSUME NEW w \in Worker, Take(w)
      PROVE  Awake(w)'
  BY <1>5 DEF Take, TakeTask, AtTake, Exited, TypeOK
<1>6. ASSUME NEW w \in Worker, NotifyAll(w)
      PROVE  Awake(w)'
  BY <1>6 DEF NotifyAll, Exited, TypeOK
<1>7. ASSUME NEW w \in Worker, Wait(w) \/ Exit(w)
      PROVE  taskQueue' = << >>
  BY <1>7 DEF Wait, Exit, MustExit, FlagsFollowCloser
<1>8. ASSUME NEW w \in Worker, Run(w) \/ Retire(w)
      PROVE  NoStrandedTask'
  BY <1>8 DEF Run, Retire, NoStrandedTask, Exited, TypeOK
<1>9. ASSUME Shutdown \/ ShutdownNow
      PROVE  NoStrandedTask'
  BY <1>9 DEF Shutdown, ShutdownNow, NoStrandedTask
<1>10. ASSUME ShutdownNotify \/ ShutdownNowNotify, taskQueue' # << >>
       PROVE  \E w \in Worker : Awake(w)'
  BY <1>1, <1>10, ThreadAssumption
     DEF ShutdownNotify, ShutdownNowNotify, Exited, ExitIsFinal
<1>11. ASSUME ShutdownCheck \/ ShutdownBlock \/ Join
       PROVE  NoStrandedTask'
  BY <1>11, ThreadAssumption
     DEF ShutdownCheck, ShutdownBlock, Join, NoStrandedTask, Exited
<1>12. ASSUME SpuriousWakeup \/ UNCHANGED vars
       PROVE  NoStrandedTask'
  BY <1>12 DEF SpuriousWakeup, vars, NoStrandedTask, Exited
<1>13. QED
  BY <1>2, <1>3, <1>4, <1>5, <1>6, <1>7, <1>8, <1>9, <1>10, <1>11, <1>12
     DEF Next, WorkerStep, ClientCall, CloserStep, NoStrandedTask

-----------------------------------------------------------------------------
(* The theorems. *)

\* Every step of the pool keeps the inductive invariant.
LEMMA StepIInv == IInv /\ [Next]_vars => IInv'
<1>1. SUFFICES ASSUME IInv, [Next]_vars PROVE IInv'
  OBVIOUS
<1>2. TypeOK' /\ HoldsTask'
  BY <1>1, TypeStep DEF IInv, PendingAccounted
<1>3. ActiveCountExact'
  BY <1>1, ActiveCountStep DEF IInv
<1>4. PendingAccounted'
  BY <1>1, PendingStep DEF IInv
<1>5. FlagsFollowCloser' /\ ExitIsFinal'
  BY <1>1, FlagStep DEF IInv
<1>6. SleepersReady' /\ NoSleeperAfterClose'
  BY <1>1, SleeperStep DEF IInv
<1>7. NoStrandedTask'
  BY <1>1, StrandStep DEF IInv
<1>8. QED
  BY <1>2, <1>3, <1>4, <1>5, <1>6, <1>7 DEF IInv

\* The inductive invariant holds in every reachable state of the executor.
THEOREM Invariance == Spec => []IInv
BY InitIInv, StepIInv, PTL DEF Spec

\* Type correctness: in particular activeCount, a size_t decremented without
\* the mutex, never goes below zero.
THEOREM TypeCorrect == Spec => []TypeOK
<1>1. IInv => TypeOK
  BY DEF IInv
<1>2. QED
  BY Invariance, <1>1, PTL

\* No accepted task is lost or run twice (.h:58, .cpp:94-95).
THEOREM TasksAccounted == Spec => []PendingAccounted
<1>1. IInv => PendingAccounted
  BY DEF IInv
<1>2. QED
  BY Invariance, <1>1, PTL

\* activeCount is exact (.cpp:96, 110).
THEOREM CountExact == Spec => []ActiveCountExact
<1>1. IInv => ActiveCountExact
  BY DEF IInv
<1>2. QED
  BY Invariance, <1>1, PTL

\* No wakeup for a queued task is lost, although submit() notifies one waiter
\* of a condition variable shared with shutdown() (.h:63, .cpp:36, 85).
THEOREM NoLostTaskWakeup == Spec => []NoStrandedTask
<1>1. IInv => NoStrandedTask
  BY DEF IInv
<1>2. QED
  BY Invariance, <1>1, PTL

\* No worker sleeps through a shutdown (.cpp:32, 60, 85-87).
THEOREM ShutdownWakesWorkers == Spec => []NoSleeperAfterClose
<1>1. IInv => NoSleeperAfterClose
  BY DEF IInv
<1>2. QED
  BY Invariance, <1>1, PTL

\* When a shutdown has returned, the threads are gone, no accepted task is
\* pending and only shutdownNow() abandoned any (.h:67-79).
THEOREM ShutdownIsClean == Spec => []ShutdownDrains
<1>1. IInv => ShutdownDrains
  <2>1. SUFFICES ASSUME IInv, closerPc = "closed" PROVE ShutdownDrains
    BY DEF ShutdownDrains
  <2>2. \A w \in Worker : Exited(w) /\ ~Running(w) /\ ~Active(w)
    BY <2>1 DEF IInv, ExitIsFinal, Exited, Running, Active
  <2>3. taskQueue = << >>
    BY <2>1, <2>2, ThreadAssumption DEF IInv, ExitIsFinal
  <2>4. \A t \in Task : future[t] # "pending"
    BY <2>1, <2>2, <2>3, EmptyQueued DEF IInv, PendingAccounted, Queued, InProgress
  <2>5. activeCount = 0
    <3>1. {w \in Worker : Active(w)} = {}
      BY <2>2
    <3>2. QED
      BY <2>1, <3>1, FS_EmptySet DEF IInv, ActiveCountExact
  <2>6. QED
    BY <2>1, <2>2, <2>4, <2>5 DEF IInv, FlagsFollowCloser, ShutdownDrains
<1>2. QED
  BY Invariance, <1>1, PTL

-----------------------------------------------------------------------------
(* The executor implements TaskService, as far as safety goes. *)

\* A worker that takes a task finds fewer tasks in progress than there are
\* workers, because it runs none itself.
LEMMA RoomForOneMore ==
    ASSUME NEW w \in Worker, ~Running(w)
    PROVE  Cardinality(InProgress) < Cardinality(Worker)
<1> DEFINE R == {v \in Worker : Running(v)}
           f == [v \in R |-> task[v]]
<1>1. /\ IsFiniteSet(Worker \ {w})
      /\ Cardinality(Worker \ {w}) = Cardinality(Worker) - 1
      /\ Cardinality(Worker) \in Nat
  BY ThreadAssumption, FS_RemoveElement, FS_CardinalityType
<1>2. IsFiniteSet(R) /\ Cardinality(R) <= Cardinality(Worker) - 1
  <2>1. R \in SUBSET (Worker \ {w})
    OBVIOUS
  <2>2. QED
    BY <1>1, <2>1, FS_Subset
<1>3. IsFiniteSet(InProgress) /\ Cardinality(InProgress) <= Cardinality(R)
  <2>1. f \in Surjection(R, InProgress)
    BY DEF Surjection, InProgress
  <2>2. QED
    BY <1>2, <2>1, FS_Surjection
<1>4. Cardinality(R) \in Nat /\ Cardinality(InProgress) \in Nat
  BY <1>2, <1>3, FS_CardinalityType
<1>5. QED
  BY <1>1, <1>2, <1>3, <1>4

\* Each step of the executor is a step of the service or invisible to callers.
LEMMA StepService ==
    ASSUME IInv, [Next]_vars
    PROVE  [Service!Next]_(Service!vars)
<1> USE DEF Service!vars
<1>1. ASSUME NEW c \in Client, NEW t \in Task, Submit(c, t)
      PROVE  Service!Accept(t)
  BY <1>1 DEF Submit, Service!Accept, Phase, InProgress, Running
<1>2. ASSUME NEW c \in Client, NEW t \in Task, SubmitThrows(c, t)
      PROVE  Service!Refuse(t)
  BY <1>2 DEF SubmitThrows, Service!Refuse, Phase, InProgress, Running
<1>3. ASSUME NEW w \in Worker, Take(w)
      PROVE  Service!Start
  <2>1. ~Running(w)
    BY <1>3 DEF Take, TakeTask, AtTake, Running
  <2>2. /\ Running(w)' /\ task'[w] = Head(taskQueue)
        /\ \A v \in Worker \ {w} :
              (Running(v)' <=> Running(v)) /\ task'[v] = task[v]
    BY <1>3 DEF Take, TakeTask, Running, IInv, TypeOK
  <2>3. InProgress' = InProgress \cup {Head(taskQueue)}
    BY <2>1, <2>2 DEF InProgress
  <2>4. /\ taskQueue # << >> /\ taskQueue' = Tail(taskQueue)
        /\ UNCHANGED <<future, shutdownFlag, closerPc>>
    BY <1>3 DEF Take, TakeTask
  <2>5. Cardinality(InProgress) < Cardinality(Worker)
    BY <2>1, RoomForOneMore
  <2>6. QED
    BY <2>3, <2>4, <2>5, Zenon
       DEF Service!Start, Phase, Service!Cardinality, Cardinality
<1>4. ASSUME NEW w \in Worker, Run(w)
      PROVE  \E t \in Task : Service!Complete(t)
  <2>1. task[w] \in Task /\ task[w] \in InProgress
    BY <1>4 DEF Run, IInv, HoldsTask, Running, InProgress
  <2>2. /\ Running(w) /\ ~Running(w)' /\ task' = task
        /\ \A v \in Worker \ {w} : Running(v)' <=> Running(v)
    BY <1>4 DEF Run, Running, IInv, TypeOK
  <2>3. InProgress' = InProgress \ {task[w]}
    BY <2>2 DEF InProgress, IInv, PendingAccounted
  <2>4. /\ future' = [future EXCEPT ![task[w]] = "ready"]
        /\ UNCHANGED <<taskQueue, shutdownFlag, closerPc>>
    BY <1>4 DEF Run
  <2>5. QED
    BY <2>1, <2>3, <2>4 DEF Service!Complete, Phase
<1>5. ASSUME NEW w \in Worker, Retire(w) \/ NotifyAll(w) \/ Wait(w) \/ Exit(w)
      PROVE  UNCHANGED Service!vars
  <2>1. /\ ~Running(w) /\ ~Running(w)'
        /\ \A v \in Worker \ {w} :
              (Running(v)' <=> Running(v)) /\ task'[v] = task[v]
        /\ UNCHANGED <<taskQueue, future, shutdownFlag, closerPc>>
    BY <1>5 DEF Retire, NotifyAll, Wait, Exit, AtTake, Running, IInv, TypeOK
  <2>2. InProgress' = InProgress
    BY <2>1 DEF InProgress
  <2>3. QED
    BY <2>1, <2>2 DEF Phase
<1>6. ASSUME Shutdown
      PROVE  Service!Close
  BY <1>6 DEF Shutdown, Service!Close, Phase, InProgress, Running, IInv,
              FlagsFollowCloser
<1>7. ASSUME ShutdownNow
      PROVE  Service!CloseNow
  BY <1>7 DEF ShutdownNow, Service!CloseNow, Phase, InProgress, Running, IInv,
              FlagsFollowCloser, ToSet, Service!ToSet
<1>8. ASSUME Join
      PROVE  Service!Return
  <2>1. shutdownFlag /\ closerPc = "join"
    BY <1>8 DEF Join, IInv, FlagsFollowCloser
  <2>2. InProgress = {} /\ InProgress' = {}
    BY <1>8 DEF Join, Exited, Running, InProgress
  <2>3. taskQueue = << >>
    BY <1>8, ThreadAssumption DEF Join, IInv, ExitIsFinal, Exited
  <2>4. closerPc' = "closed" /\ UNCHANGED <<taskQueue, future, shutdownFlag>>
    BY <1>8 DEF Join
  <2>5. QED
    BY <2>1, <2>2, <2>3, <2>4 DEF Service!Return, Phase
<1>9. ASSUME ShutdownNotify \/ ShutdownCheck \/ ShutdownBlock
             \/ ShutdownNowNotify
      PROVE  UNCHANGED Service!vars
  BY <1>9 DEF ShutdownNotify, ShutdownCheck, ShutdownBlock, ShutdownNowNotify,
              Phase, InProgress, Running, IInv, FlagsFollowCloser
<1>10. ASSUME NEW c \in Client, NotifyOne(c)
       PROVE  UNCHANGED Service!vars
  BY <1>10 DEF NotifyOne, Phase, InProgress, Running
<1>11. ASSUME SpuriousWakeup \/ UNCHANGED vars
       PROVE  UNCHANGED Service!vars
  BY <1>11 DEF SpuriousWakeup, vars, Phase, InProgress, Running
<1>12. QED
  BY <1>1, <1>2, <1>3, <1>4, <1>5, <1>6, <1>7, <1>8, <1>9, <1>10, <1>11
     DEF Next, WorkerStep, ClientCall, CloserStep, Service!Next

\* The executor behaves as the service of TaskService: FIFO starts, bounded
\* concurrency, refusal after a shutdown, and shutdowns that return only when
\* nothing is pending (ThreadPoolExecutor.h:36-79).
THEOREM ServiceSafety == Spec => ImplementsServiceSafety
<1>1. Init => Service!Init
  BY DEF Init, Service!Init, Phase, InProgress, Running
<1>2. IInv /\ [Next]_vars => [Service!Next]_(Service!vars)
  BY StepService
<1>3. QED
  BY <1>1, <1>2, Invariance, PTL DEF Spec, ImplementsServiceSafety
=============================================================================
