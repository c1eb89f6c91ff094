--------------------------- MODULE Deferred_proofs ---------------------------
(***************************************************************************)
(* Proofs about Deferred for every set of deferreds and every pool size:   *)
(* the references of the shared task are counted exactly, what it owns is  *)
(* freed once, a deferred is settled as its function ended and no more     *)
(* often than the code posts callbacks, and no worker runs once the main   *)
(* runtime is freed.                                                       *)
(***************************************************************************)
EXTENDS Deferred, FiniteSetTheorems, SequenceTheorems, TLAPS

-----------------------------------------------------------------------------
(* The inductive invariant. *)

Threw == {"error", "opaqueError", "uncalled"}

\* Callbacks a worker has posted for d: one at its end, and one more where an
\* error could not be serialized (Deferred.cpp:311, 357).
Posted(d) ==
    IF stage[d] = "returned"
    THEN IF outcome[d] = "opaqueError" THEN 1 ELSE 0
    ELSE IF stage[d] \in {"ending", "done"}
         THEN IF outcome[d] = "opaqueError" THEN 2 ELSE 1
         ELSE 0

\* What the worker has left in the shared task so far.
Progress(d) ==
    /\ object[d] = "none" <=> stage[d] = "none"
    /\ stage[d] \in {"none", "queued", "loaded", "callable"} =>
          outcome[d] = "none" /\ shared[d].resultFrees = 0 /\ ~shared[d].result
    /\ stage[d] = "returned" =>
          outcome[d] \in {"value", "opaqueValue", "error", "opaqueError"}
    /\ stage[d] \in {"ending", "done"} => outcome[d] # "none"
    /\ shared[d].hasError <=> outcome[d] \in Threw

\* Calls made and callbacks waiting do not exceed the callbacks posted, and the
\* calls made agree with the outcome.
Settling(d) ==
    /\ Pending(d) + calls[d].resolve + calls[d].reject <= Posted(d)
    /\ calls[d].resolve > 0 => outcome[d] \in {"value", "opaqueValue"}
    /\ calls[d].reject > 0 => outcome[d] \in Threw

\* The buffers: the function by the finalizer and by the last reference, the
\* result by the final callback or by the last reference.
Freed(d) ==
    /\ shared[d].funcFrees =
          (IF object[d] = "finalized" THEN 1 ELSE 0)
            + (IF stage[d] = "done" /\ shared[d].refs = 0 THEN 1 ELSE 0)
    /\ shared[d].result => shared[d].resultFrees = 0 /\ shared[d].refs > 0

\* A callback that decides by hasError comes from a function that was called; one
\* that always rejects from an error path.
Fits(o, e) ==
    /\ e[2] = "settle" => o[e[1]] \in {"value", "opaqueValue", "error", "opaqueError"}
    /\ e[2] = "reject" => o[e[1]] \in {"opaqueError", "uncalled"}

CallbacksFit ==
    /\ \A i \in DOMAIN batch : Fits(outcome, batch[i])
    /\ \A i \in DOMAIN events : Fits(outcome, events[i])

BacklogIsQueued ==
    /\ IsInjective(backlog)
    /\ ToSet(backlog) = {d \in D : stage[d] = "queued"}

MainInOrder ==
    /\ phase \notin {"process", "last"} => batch = << >>
    /\ runtime = "freed" => phase \in {"exit", "done"}
    /\ phase \in {"free", "exit", "done"} => backlog = << >> /\ InPool = {}

\* RefsCounted, for one deferred.
Counted(d) ==
    /\ stage[d] \in {"none", "done"} => shared[d].refs = Pending(d)
    /\ stage[d] \notin {"none", "done"} => shared[d].refs = 1 + Pending(d)

Deferreds == \A d \in D : Progress(d) /\ Settling(d) /\ Freed(d) /\ Counted(d)

IInv == TypeOK /\ Deferreds /\ CallbacksFit /\ BacklogIsQueued /\ MainInOrder

-----------------------------------------------------------------------------
(* Counting the callbacks of a deferred in a queue. *)

Callback == D \X Kind

\* The positions of d in a queue are finitely many.
LEMMA CountType ==
    ASSUME NEW q \in Seq(Callback), NEW d
    PROVE  /\ IsFiniteSet(Positions(q, d))
           /\ Count(q, d) \in Nat
<1>1. Len(q) \in Nat /\ DOMAIN q = 1..Len(q)
  BY LenProperties
<1>2. IsFiniteSet(1..Len(q))
  BY <1>1, FS_Interval
<1>3. Positions(q, d) \in SUBSET (1..Len(q))
  BY <1>1 DEF Positions
<1>4. IsFiniteSet(Positions(q, d))
  BY <1>2, <1>3, FS_Subset
<1>5. QED
  BY <1>4, FS_CardinalityType DEF Count

\* The empty queue holds no callback.
LEMMA CountEmpty == \A d : Count(<< >>, d) = 0
<1>1. \A d : Positions(<< >>, d) = {}
  BY DEF Positions
<1>2. QED
  BY <1>1, FS_EmptySet DEF Count

\* A deferred with no callback in the queue is at no position of it.
LEMMA CountZero ==
    ASSUME NEW q \in Seq(Callback), NEW d
    PROVE  Count(q, d) = 0 <=> \A i \in DOMAIN q : q[i][1] # d
<1>1. Cardinality(Positions(q, d)) = 0 <=> Positions(q, d) = {}
  BY CountType, FS_EmptySet
<1>2. QED
  BY <1>1 DEF Count, Positions

\* enqueueCallback adds one callback of its deferred (EventLoop.cpp:15).
LEMMA CountAppend ==
    ASSUME NEW q \in Seq(Callback), NEW e \in Callback, NEW d
    PROVE  Count(Append(q, e), d) = Count(q, d) + (IF e[1] = d THEN 1 ELSE 0)
<1>1. /\ Len(q) \in Nat /\ DOMAIN q = 1..Len(q)
      /\ DOMAIN Append(q, e) = 1..(Len(q) + 1)
      /\ Append(q, e)[Len(q) + 1] = e
      /\ \A i \in 1..Len(q) : Append(q, e)[i] = q[i]
  BY AppendProperties, LenProperties
<1>2. Len(q) + 1 \notin Positions(q, d)
  BY <1>1 DEF Positions
<1>3. Positions(Append(q, e), d) =
          IF e[1] = d THEN Positions(q, d) \cup {Len(q) + 1} ELSE Positions(q, d)
  BY <1>1 DEF Positions
<1>4. Cardinality(Positions(q, d) \cup {Len(q) + 1}) = Cardinality(Positions(q, d)) + 1
  BY <1>2, CountType, FS_AddElement
<1>5. Cardinality(Positions(q, d)) \in Nat
  BY CountType DEF Count
<1>6. QED
  BY <1>3, <1>4, <1>5 DEF Count

\* Taking the head removes one callback of its deferred (EventLoop.cpp:29).
LEMMA CountTail ==
    ASSUME NEW q \in Seq(Callback), q # << >>, NEW d
    PROVE  Count(q, d) = Count(Tail(q), d) + (IF Head(q)[1] = d THEN 1 ELSE 0)
<1> DEFINE S == Positions(q, d)
           T == Positions(Tail(q), d)
           f == [i \in T |-> i + 1]
<1>1. /\ Len(q) \in Nat \ {0} /\ DOMAIN q = 1..Len(q)
      /\ Tail(q) \in Seq(Callback) /\ Head(q) = q[1]
      /\ DOMAIN Tail(q) = 1..(Len(q) - 1)
      /\ \A i \in 1..(Len(q) - 1) : Tail(q)[i] = q[i + 1]
  BY HeadTailProperties, LenProperties, EmptySeq
<1>2. /\ IsFiniteSet(S) /\ Cardinality(S) \in Nat
      /\ IsFiniteSet(T) /\ Cardinality(T) \in Nat
  BY <1>1, CountType DEF Count
<1>3. /\ \A i \in T : i \in Nat /\ i + 1 \in S \ {1}
      /\ \A j \in S \ {1} : j - 1 \in T /\ (j - 1) + 1 = j
      /\ 1 \in S <=> Head(q)[1] = d
  BY <1>1 DEF Positions
<1>4. f \in Bijection(T, S \ {1})
  <2> HIDE DEF S, T
  <2>1. f \in [T -> S \ {1}] /\ \A i \in T : f[i] = i + 1
    BY <1>3
  <2>2. \A i, j \in T : f[i] = f[j] => i = j
    BY <1>3, <2>1
  <2>3. \A j \in S \ {1} : \E i \in T : f[i] = j
    BY <1>3, <2>1
  <2> HIDE DEF f
  <2>4. QED
    BY <2>1, <2>2, <2>3 DEF Bijection, Injection, Surjection, IsInjective
<1>5. Cardinality(S \ {1}) = Cardinality(T)
  BY <1>2, <1>4, FS_Bijection DEF ExistsBijection
<1>6. Cardinality(S \ {1}) = IF 1 \in S THEN Cardinality(S) - 1 ELSE Cardinality(S)
  BY <1>2, FS_RemoveElement
<1>7. QED
  BY <1>2, <1>3, <1>5, <1>6 DEF Count

-----------------------------------------------------------------------------
(* The backlog of the pool. *)

\* A new task keeps the tasks of the backlog distinct.
LEMMA AppendNew ==
    ASSUME NEW S, NEW q \in Seq(S), NEW x \in S, IsInjective(q), x \notin ToSet(q)
    PROVE  /\ Append(q, x) \in Seq(S) /\ IsInjective(Append(q, x))
           /\ ToSet(Append(q, x)) = ToSet(q) \cup {x}
<1>1. /\ Append(q, x) \in Seq(S)
      /\ Append(q, x)[Len(q) + 1] = x
      /\ \A i \in 1..Len(q) : Append(q, x)[i] = q[i]
      /\ Len(q) \in Nat
      /\ DOMAIN q = 1..Len(q)
      /\ DOMAIN Append(q, x) = 1..(Len(q) + 1)
  BY AppendProperties, LenProperties
<1>2. ToSet(Append(q, x)) = ToSet(q) \cup {x}
  BY <1>1 DEF ToSet
<1>3. IsInjective(Append(q, x))
  BY <1>1 DEF IsInjective, ToSet
<1>4. QED
  BY <1>1, <1>2, <1>3

\* The worker that takes the oldest task removes exactly that one.
LEMMA TakeOldest ==
    ASSUME NEW S, NEW q \in Seq(S), q # << >>, IsInjective(q)
    PROVE  /\ Head(q) \in S /\ Tail(q) \in Seq(S) /\ IsInjective(Tail(q))
           /\ Head(q) \in ToSet(q)
           /\ ToSet(Tail(q)) = ToSet(q) \ {Head(q)}
<1>1. /\ Head(q) \in S /\ Tail(q) \in Seq(S) /\ Head(q) = q[1]
      /\ Len(q) \in Nat \ {0} /\ DOMAIN q = 1..Len(q)
      /\ DOMAIN Tail(q) = 1..(Len(q) - 1)
      /\ \A i \in 1..(Len(q) - 1) : Tail(q)[i] = q[i + 1]
  BY HeadTailProperties, LenProperties, EmptySeq
<1>2. /\ \A i, j \in 1..Len(q) : q[i] = q[j] => i = j
      /\ \A i \in 1..(Len(q) - 1) : i + 1 \in 1..Len(q) /\ i + 1 # 1
      /\ \A i \in 1..Len(q) : i # 1 => i - 1 \in 1..(Len(q) - 1) /\ (i - 1) + 1 = i
  BY <1>1 DEF IsInjective
<1>3. IsInjective(Tail(q)) /\ Head(q) \in ToSet(q)
  BY <1>1, <1>2 DEF IsInjective, ToSet
<1>4. \A x : x \in ToSet(Tail(q)) <=> x \in ToSet(q) /\ x # Head(q)
  <2>1. \A i \in 1..(Len(q) - 1) : Tail(q)[i] \in ToSet(q) \ {Head(q)}
    BY <1>1, <1>2 DEF ToSet
  <2>2. \A i \in 1..Len(q) : q[i] # q[1] => q[i] \in ToSet(Tail(q))
    <3>1. \A i \in 1..Len(q) : q[i] # q[1] =>
              i - 1 \in DOMAIN Tail(q) /\ Tail(q)[i - 1] = q[i]
      BY <1>1, <1>2
    <3>2. QED
      BY <3>1 DEF ToSet
  <2>3. QED
    BY <1>1, <2>1, <2>2 DEF ToSet
<1>5. QED
  BY <1>1, <1>3, <1>4

-----------------------------------------------------------------------------
(* The types of the records. *)

\* The shared task of a deferred and the numbers of its calls.
LEMMA TaskType ==
    ASSUME TypeOK, NEW d \in D
    PROVE  /\ shared \in [D -> Task]
           /\ shared[d].refs \in 0..3 /\ shared[d].funcFrees \in 0..2
           /\ shared[d].resultFrees \in 0..1
           /\ shared[d].hasError \in BOOLEAN /\ shared[d].result \in BOOLEAN
           /\ calls \in [D -> Calls]
           /\ calls[d].resolve \in 0..1 /\ calls[d].reject \in 0..2
<1>1. shared \in [D -> Task] /\ calls \in [D -> Calls]
  BY DEF TypeOK
<1>2. shared[d] \in Task /\ calls[d] \in Calls
  BY <1>1
<1>3. QED
  BY <1>1, <1>2 DEF Task, Calls

-----------------------------------------------------------------------------
(* What a step leaves alone, and what a post adds. *)

\* The state of one deferred, as the invariant sees it.
Of(d) == <<object[d], shared[d], stage[d], outcome[d], calls[d], Pending(d)>>

\* A deferred none of whose parts a step touches keeps its facts.
LEMMA Untouched ==
    ASSUME NEW d \in D, UNCHANGED Of(d),
           Progress(d), Settling(d), Freed(d), Counted(d)
    PROVE  Progress(d)' /\ Settling(d)' /\ Freed(d)' /\ Counted(d)'
BY DEF Of, Progress, Settling, Freed, Counted, Posted

\* The callbacks waiting are finitely many, and none has deferred d if none is
\* pending for it.
LEMMA PendingType ==
    ASSUME TypeOK, NEW d \in D
    PROVE  /\ Count(batch, d) \in Nat /\ Count(events, d) \in Nat
           /\ Pending(d) \in Nat
           /\ Pending(d) = 0 => /\ \A i \in DOMAIN batch : batch[i][1] # d
                                /\ \A i \in DOMAIN events : events[i][1] # d
<1>1. batch \in Seq(Callback) /\ events \in Seq(Callback)
  BY DEF TypeOK, Callback
<1>2. Count(batch, d) \in Nat /\ Count(events, d) \in Nat
  BY <1>1, CountType
<1>3. /\ Count(batch, d) = 0 => \A i \in DOMAIN batch : batch[i][1] # d
      /\ Count(events, d) = 0 => \A i \in DOMAIN events : events[i][1] # d
  BY <1>1, CountZero
<1>4. QED
  BY <1>2, <1>3 DEF Pending

\* A step that changes neither queue changes no count.
LEMMA PendingSame ==
    ASSUME UNCHANGED <<batch, events>>
    PROVE  \A d \in D : Pending(d)' = Pending(d)
BY DEF Pending

\* A post adds one callback of its deferred and keeps the queue's type
\* (Deferred.cpp:214, 311, 357).
LEMMA PendingPost ==
    ASSUME TypeOK, NEW d \in D, NEW k \in Kind, Post(d, k), UNCHANGED batch
    PROVE  /\ events' \in Seq(D \X Kind)
           /\ Pending(d)' = Pending(d) + 1
           /\ \A c \in D : c # d => Pending(c)' = Pending(c)
           /\ DOMAIN events' = 1..(Len(events) + 1) /\ Len(events) \in Nat
           /\ DOMAIN events = 1..Len(events)
           /\ events'[Len(events) + 1] = <<d, k>>
           /\ \A i \in 1..Len(events) : events'[i] = events[i]
<1> DEFINE e == <<d, k>>
<1>1. /\ events \in Seq(Callback) /\ e \in Callback
      /\ events' = Append(events, e) /\ e[1] = d
  BY DEF TypeOK, Callback, Post
<1>2. /\ events' \in Seq(Callback)
      /\ Len(events) \in Nat /\ DOMAIN events = 1..Len(events)
      /\ DOMAIN events' = 1..(Len(events) + 1)
      /\ events'[Len(events) + 1] = e
      /\ \A i \in 1..Len(events) : events'[i] = events[i]
  BY <1>1, AppendProperties, LenProperties
<1>3. \A c \in D : Count(events', c) = Count(events, c) + (IF d = c THEN 1 ELSE 0)
  BY <1>1, CountAppend
<1>4. \A c \in D : Count(events, c) \in Nat /\ Count(batch, c) \in Nat
  BY PendingType
<1>5. \A c \in D : Pending(c)' = Count(batch, c) + Count(events', c)
  BY DEF Pending, Count, Positions
<1>6. \A c \in D : Pending(c) = Count(batch, c) + Count(events, c)
  BY DEF Pending
<1>7. QED
  BY <1>2, <1>3, <1>4, <1>5, <1>6 DEF Callback

\* A worker that has posted nothing for d may decide the outcome of d and post a
\* callback that fits it.
LEMMA FitsAfterPost ==
    ASSUME TypeOK, CallbacksFit, NEW d \in D, NEW k \in Kind,
           Post(d, k), UNCHANGED batch, Fits(outcome', <<d, k>>),
           \A c \in D : outcome'[c] = outcome[c] \/ (c = d /\ Pending(d) = 0)
    PROVE  CallbacksFit'
<1>1. /\ \A i \in DOMAIN batch : batch[i] \in D \X Kind
      /\ \A i \in DOMAIN events : events[i] \in D \X Kind
  BY ElementOfSeq, LenProperties DEF TypeOK
<1>2. /\ \A i \in DOMAIN batch : outcome'[batch[i][1]] = outcome[batch[i][1]]
      /\ \A i \in DOMAIN events : outcome'[events[i][1]] = outcome[events[i][1]]
  BY <1>1, PendingType
<1>3. /\ \A i \in DOMAIN batch : Fits(outcome', batch[i])
      /\ \A i \in DOMAIN events : Fits(outcome', events[i])
  BY <1>2 DEF CallbacksFit, Fits
<1>4. \A i \in DOMAIN events' :
          events'[i] = <<d, k>> \/ (i \in DOMAIN events /\ events'[i] = events[i])
  <2>1. /\ DOMAIN events' = 1..(Len(events) + 1) /\ Len(events) \in Nat
        /\ DOMAIN events = 1..Len(events)
        /\ events'[Len(events) + 1] = <<d, k>>
        /\ \A i \in 1..Len(events) : events'[i] = events[i]
    BY PendingPost
  <2>2. QED
    BY <2>1
<1>5. QED
  BY <1>3, <1>4 DEF CallbacksFit

\* A worker with no callback of d waiting may decide the outcome of d.
LEMMA FitsSame ==
    ASSUME TypeOK, CallbacksFit, NEW d \in D, UNCHANGED <<batch, events>>,
           \A c \in D : outcome'[c] = outcome[c] \/ (c = d /\ Pending(d) = 0)
    PROVE  CallbacksFit'
<1>1. /\ \A i \in DOMAIN batch : batch[i] \in D \X Kind
      /\ \A i \in DOMAIN events : events[i] \in D \X Kind
  BY ElementOfSeq, LenProperties DEF TypeOK
<1>2. /\ \A i \in DOMAIN batch : outcome'[batch[i][1]] = outcome[batch[i][1]]
      /\ \A i \in DOMAIN events : outcome'[events[i][1]] = outcome[events[i][1]]
  BY <1>1, PendingType
<1>3. /\ \A i \in DOMAIN batch : Fits(outcome', batch[i])
      /\ \A i \in DOMAIN events : Fits(outcome', events[i])
  BY <1>2 DEF CallbacksFit, Fits
<1>4. QED
  BY <1>3 DEF CallbacksFit

\* The callbacks posted for d bound those waiting and the calls made; before the
\* function returned there are none.
LEMMA Budget ==
    ASSUME TypeOK, NEW d \in D, Settling(d)
    PROVE  /\ Pending(d) \in Nat
           /\ calls[d].resolve \in Nat /\ calls[d].reject \in Nat
           /\ Pending(d) + calls[d].resolve + calls[d].reject <= Posted(d)
           /\ Posted(d) \in 0..2
           /\ stage[d] \in {"none", "queued", "loaded", "callable"} =>
                 Pending(d) = 0 /\ calls[d].resolve = 0 /\ calls[d].reject = 0
<1>1. Pending(d) \in Nat
  BY PendingType
<1>2. calls[d].resolve \in Nat /\ calls[d].reject \in Nat
  BY TaskType
<1>3. Pending(d) + calls[d].resolve + calls[d].reject <= Posted(d)
  BY DEF Settling
<1>4. /\ Posted(d) \in {0, 1, 2}
      /\ stage[d] \in {"none", "queued", "loaded", "callable"} => Posted(d) = 0
  BY DEF Posted
<1>5. QED
  BY <1>1, <1>2, <1>3, <1>4

\* Callbacks that vanish leave the calls made within the callbacks posted.
LEMMA SettlingLess ==
    ASSUME TypeOK, NEW d \in D, Settling(d), Pending(d)' = 0,
           UNCHANGED <<stage, outcome, calls>>
    PROVE  Settling(d)'
<1>1. Posted(d)' = Posted(d)
  BY DEF Posted
<1>2. 0 + calls[d].resolve + calls[d].reject <= Posted(d)
  BY Budget
<1>3. QED
  BY <1>1, <1>2 DEF Settling

\* While a deferred function is in the pool the main thread has not passed the
\* wait for the pool (JSContext.cpp:51).
LEMMA PoolBusy ==
    ASSUME BacklogIsQueued, MainInOrder, NEW d \in D, stage[d] \in Stage,
           stage[d] \notin {"none", "done"}
    PROVE  phase \notin {"free", "exit", "done"} /\ MainInOrder
<1>1. CASE stage[d] = "queued"
  <2>1. d \in ToSet(backlog)
    BY <1>1 DEF BacklogIsQueued
  <2>2. backlog # << >>
    BY <2>1 DEF ToSet
  <2>3. QED
    BY <2>2 DEF MainInOrder
<1>2. CASE stage[d] # "queued"
  <2>1. d \in InPool
    BY <1>2 DEF InPool, Stage
  <2>2. QED
    BY <2>1 DEF MainInOrder
<1>3. QED
  BY <1>1, <1>2

-----------------------------------------------------------------------------
(* The script. *)

\* Nothing is constructed, posted or freed when the script starts.
LEMMA InitIInv == Init => IInv
<1>1. SUFFICES ASSUME Init PROVE IInv
  OBVIOUS
<1>2. << >> \in Seq(D) /\ << >> \in Seq(D \X Kind)
  BY EmptySeq
<1>3. TypeOK
  <2>1. shared \in [D -> Task] /\ private \in [D -> Promise] /\ calls \in [D -> Calls]
    BY <1>1 DEF Init, Task, Promise, Calls
  <2>2. QED
    BY <1>1, <1>2, <2>1 DEF Init, TypeOK, Phase, Stage, Outcome
<1>4. \A d \in D : Pending(d) = 0
  BY <1>1, CountEmpty DEF Init, Pending
<1>5. Deferreds
  BY <1>1, <1>4
     DEF Init, Deferreds, Progress, Settling, Freed, Counted, Posted, Threw
<1>6. BacklogIsQueued
  BY <1>1 DEF Init, BacklogIsQueued, IsInjective, ToSet
<1>7. CallbacksFit /\ MainInOrder
  BY <1>1 DEF Init, CallbacksFit, MainInOrder
<1>8. QED
  BY <1>3, <1>5, <1>6, <1>7 DEF IInv

\* The constructor makes the first reference and queues the task once
\* (Deferred.cpp:97-118).
LEMMA ConstructStep ==
    ASSUME IInv, NEW d \in D, Construct(d)
    PROVE  IInv'
<1>0. TypeOK /\ Deferreds /\ CallbacksFit /\ BacklogIsQueued /\ MainInOrder
  BY DEF IInv
<1>1. /\ phase = "script" /\ object[d] = "none"
      /\ object' = [object EXCEPT ![d] = "live"]
      /\ shared' = [shared EXCEPT ![d].refs = 1]
      /\ backlog' = Append(backlog, d)
      /\ stage' = [stage EXCEPT ![d] = "queued"]
      /\ crashed' = FALSE
      /\ UNCHANGED <<phase, batch, runtime, private, outcome, events, calls, lateFree>>
  BY DEF Construct, Defined, Undefined, mainVars
<1>2. /\ stage[d] = "none" /\ backlog \in Seq(D) /\ d \notin ToSet(backlog)
      /\ Progress(d) /\ Settling(d) /\ Freed(d) /\ Counted(d)
  BY <1>0, <1>1 DEF Deferreds, Progress, BacklogIsQueued, TypeOK
<1>3. \A c \in D : Pending(c)' = Pending(c) /\ Pending(c) \in Nat
  BY <1>0, <1>1, PendingSame, PendingType
<1>4. /\ backlog' \in Seq(D) /\ ToSet(backlog') = ToSet(backlog) \cup {d}
      /\ IsInjective(backlog')
  BY <1>0, <1>1, <1>2, AppendNew DEF BacklogIsQueued
<1>5. TypeOK'
  <2>1. shared' \in [D -> Task]
    BY <1>0, <1>1, TaskType DEF Task
  <2>2. QED
    BY <1>0, <1>1, <1>4, <2>1 DEF TypeOK, Stage
<1>6. /\ shared'[d].refs = 1
      /\ shared'[d].hasError = shared[d].hasError
      /\ shared'[d].result = shared[d].result
      /\ shared'[d].funcFrees = shared[d].funcFrees
      /\ shared'[d].resultFrees = shared[d].resultFrees
  BY <1>0, <1>1, TaskType DEF Task
<1>7. Progress(d)' /\ Settling(d)' /\ Freed(d)' /\ Counted(d)'
  <2>1. Pending(d) = 0 /\ calls[d].resolve = 0 /\ calls[d].reject = 0
    BY <1>0, <1>2, Budget
  <2>2. /\ object'[d] = "live" /\ stage'[d] = "queued"
        /\ outcome' = outcome /\ calls' = calls
    BY <1>0, <1>1 DEF TypeOK
  <2>3. Counted(d)'
    BY <1>3, <1>6, <2>1, <2>2 DEF Counted
  <2>4. Progress(d)' /\ Freed(d)'
    BY <1>1, <1>2, <1>6, <2>1, <2>2 DEF Progress, Freed, Counted
  <2>5. Settling(d)'
    BY <1>2, <1>3, <2>1, <2>2 DEF Settling, Posted
  <2>6. QED
    BY <2>3, <2>4, <2>5
<1>8. \A c \in D : c # d => UNCHANGED Of(c)
  BY <1>0, <1>1, <1>3 DEF TypeOK, Of
<1>9. Deferreds'
  BY <1>0, <1>7, <1>8, Untouched DEF Deferreds
<1>10. BacklogIsQueued'
  BY <1>0, <1>1, <1>2, <1>4 DEF BacklogIsQueued, TypeOK
<1>11. CallbacksFit' /\ MainInOrder'
  BY <1>0, <1>1 DEF CallbacksFit, MainInOrder
<1>12. QED
  BY <1>5, <1>9, <1>10, <1>11 DEF IInv

\* then() touches only the promise state of the object (Deferred.cpp:145-165).
LEMMA ThenStep ==
    ASSUME IInv, NEW d \in D, Then(d)
    PROVE  IInv'
<1>0. TypeOK /\ Deferreds /\ CallbacksFit /\ BacklogIsQueued /\ MainInOrder
  BY DEF IInv
<1>1. /\ private' = [private EXCEPT ![d].then =
                        IF private[d].isResolved THEN "called" ELSE "registered"]
      /\ crashed' = FALSE
      /\ UNCHANGED <<phase, batch, runtime, backlog, stage, outcome, object,
                     shared, events, calls, lateFree>>
  BY DEF Then, Defined, Undefined, mainVars, workerVars
<1>2. private' \in [D -> Promise]
  <2>1. private \in [D -> Promise]
    BY <1>0 DEF TypeOK
  <2>2. QED
    BY <1>1, <2>1 DEF Promise
<1>3. TypeOK'
  BY <1>0, <1>1, <1>2 DEF TypeOK
<1>4. \A c \in D : UNCHANGED Of(c)
  BY <1>1, PendingSame DEF Of
<1>5. Deferreds'
  BY <1>0, <1>4, Untouched DEF Deferreds
<1>6. CallbacksFit' /\ BacklogIsQueued' /\ MainInOrder'
  BY <1>0, <1>1 DEF CallbacksFit, BacklogIsQueued, MainInOrder, InPool
<1>7. QED
  BY <1>3, <1>5, <1>6 DEF IInv

\* The finalizer frees the function buffer once more than the references do
\* (Deferred.cpp:120-143).
LEMMA DropStep ==
    ASSUME IInv, NEW d \in D, Drop(d)
    PROVE  IInv'
<1>0. TypeOK /\ Deferreds /\ CallbacksFit /\ BacklogIsQueued /\ MainInOrder
  BY DEF IInv
<1>1. /\ object[d] = "live"
      /\ object' = [object EXCEPT ![d] = "finalized"]
      /\ shared' = [shared EXCEPT ![d] = [shared[d] EXCEPT !.funcFrees =
                                             shared[d].funcFrees + 1]]
      /\ crashed' \in BOOLEAN
      /\ UNCHANGED <<phase, batch, runtime, backlog, stage, outcome, private,
                     events, calls, lateFree>>
  BY DEF Drop, Finalize, FreeFunc, Undefined, mainVars, workerVars
<1>2. Progress(d) /\ Settling(d) /\ Freed(d) /\ Counted(d)
  BY <1>0 DEF Deferreds
<1>3. \A c \in D : Pending(c)' = Pending(c)
  BY <1>1, PendingSame
<1>4. /\ shared'[d].funcFrees = shared[d].funcFrees + 1
      /\ shared'[d].refs = shared[d].refs
      /\ shared'[d].hasError = shared[d].hasError
      /\ shared'[d].result = shared[d].result
      /\ shared'[d].resultFrees = shared[d].resultFrees
  BY <1>0, <1>1, TaskType DEF Task
<1>5. shared[d].funcFrees \in 0..1
  BY <1>1, <1>2 DEF Freed
<1>6. TypeOK'
  <2>1. shared' \in [D -> Task]
    BY <1>0, <1>1, <1>5, TaskType DEF Task
  <2>2. QED
    BY <1>0, <1>1, <2>1 DEF TypeOK
<1>7. Progress(d)' /\ Settling(d)' /\ Freed(d)' /\ Counted(d)'
  <2>1. /\ object'[d] = "finalized" /\ stage' = stage
        /\ outcome' = outcome /\ calls' = calls
    BY <1>0, <1>1 DEF TypeOK
  <2>2. Progress(d)' /\ Counted(d)'
    BY <1>1, <1>2, <1>3, <1>4, <2>1 DEF Progress, Counted
  <2>3. Freed(d)'
    BY <1>1, <1>2, <1>4, <2>1 DEF Freed
  <2>4. Settling(d)'
    BY <1>2, <1>3, <2>1 DEF Settling, Posted
  <2>5. QED
    BY <2>2, <2>3, <2>4
<1>8. \A c \in D : c # d => UNCHANGED Of(c)
  BY <1>0, <1>1, <1>3 DEF TypeOK, Of
<1>9. Deferreds'
  BY <1>0, <1>7, <1>8, Untouched DEF Deferreds
<1>10. CallbacksFit' /\ BacklogIsQueued' /\ MainInOrder'
  BY <1>0, <1>1 DEF CallbacksFit, BacklogIsQueued, MainInOrder, InPool
<1>11. QED
  BY <1>6, <1>9, <1>10 DEF IInv

-----------------------------------------------------------------------------
(* The worker. *)

\* A task that goes on, with nothing posted (Deferred.cpp:198-263).
LEMMA AdvanceStep ==
    ASSUME IInv, NEW d \in D, NEW s \in {"loaded", "callable"},
           stage[d] \in {"queued", "loaded"},
           stage' = [stage EXCEPT ![d] = s],
           crashed' \in BOOLEAN,
           backlog' \in Seq(D), IsInjective(backlog'),
           ToSet(backlog') = ToSet(backlog) \ {d},
           UNCHANGED <<mainVars, outcome, object, private, shared, events, calls,
                       lateFree>>
    PROVE  IInv'
<1>0. TypeOK /\ Deferreds /\ CallbacksFit /\ BacklogIsQueued /\ MainInOrder
  BY DEF IInv
<1>1. UNCHANGED <<phase, batch, runtime, outcome, object, private, shared, events,
                  calls, lateFree>>
  BY DEF mainVars
<1>2. Progress(d) /\ Settling(d) /\ Freed(d) /\ Counted(d)
  BY <1>0 DEF Deferreds
<1>3. \A c \in D : Pending(c)' = Pending(c)
  BY <1>1, PendingSame
<1>4. TypeOK'
  BY <1>0, <1>1 DEF TypeOK, Stage
<1>5. Progress(d)' /\ Settling(d)' /\ Freed(d)' /\ Counted(d)'
  <2>1. stage'[d] = s
    BY <1>0 DEF TypeOK
  <2>2. Progress(d)' /\ Freed(d)' /\ Counted(d)'
    BY <1>1, <1>2, <1>3, <2>1 DEF Progress, Freed, Counted
  <2>3. Posted(d) = 0 /\ Posted(d)' = 0
    BY <2>1 DEF Posted
  <2>4. Settling(d)'
    BY <1>1, <1>2, <1>3, <2>3 DEF Settling
  <2>5. QED
    BY <2>2, <2>4
<1>6. \A c \in D : c # d => UNCHANGED Of(c)
  BY <1>0, <1>1, <1>3 DEF TypeOK, Of
<1>7. Deferreds'
  BY <1>0, <1>5, <1>6, Untouched DEF Deferreds
<1>8. BacklogIsQueued'
  BY <1>0 DEF BacklogIsQueued, TypeOK
<1>9. CallbacksFit'
  BY <1>0, <1>1 DEF CallbacksFit
<1>10. MainInOrder'
  <2>1. phase \notin {"free", "exit", "done"}
    BY <1>0, PoolBusy DEF Stage
  <2>2. QED
    BY <1>0, <1>1, <2>1 DEF MainInOrder
<1>11. QED
  BY <1>4, <1>7, <1>8, <1>9, <1>10 DEF IInv

\* Until it has called the function the worker's reference is the only one, and
\* an error on the way posts the second.
LEMMA FailedTask ==
    ASSUME TypeOK, NEW d \in D, Settling(d), Counted(d),
           stage[d] \in {"queued", "loaded"}
    PROVE  LET t == [shared[d] EXCEPT !.hasError = TRUE, !.refs = 2]
           IN  /\ [shared EXCEPT ![d].hasError = TRUE, ![d].refs = @ + 1]
                     = [shared EXCEPT ![d] = t]
               /\ t \in Task /\ t.refs = 2 /\ t.hasError = TRUE
               /\ t.funcFrees = shared[d].funcFrees
               /\ t.result = shared[d].result
               /\ t.resultFrees = shared[d].resultFrees
<1>1. shared[d].refs = 1
  <2>1. stage[d] \notin {"none", "done"}
    OBVIOUS
  <2>2. shared[d].refs = 1 + Pending(d)
    BY <2>1 DEF Counted
  <2>3. Pending(d) = 0
    BY Budget
  <2>4. QED
    BY <2>2, <2>3
<1>2. shared \in [D -> Task] /\ shared[d] \in Task
  BY TaskType
<1> DEFINE u == [shared[d] EXCEPT !.hasError = TRUE]
           t == [u EXCEPT !.refs = 2]
<1>3. /\ u \in Task /\ u.refs = shared[d].refs /\ u.hasError
      /\ u.funcFrees = shared[d].funcFrees /\ u.result = shared[d].result
      /\ u.resultFrees = shared[d].resultFrees
  BY <1>2 DEF Task
<1>4. [shared EXCEPT ![d].hasError = TRUE, ![d].refs = @ + 1]
        = [[shared EXCEPT ![d] = u] EXCEPT ![d] = [u EXCEPT !.refs = 2]]
  BY <1>1, <1>2
<1> HIDE DEF u
<1>5. [[shared EXCEPT ![d] = u] EXCEPT ![d] = t] = [shared EXCEPT ![d] = t]
  BY <1>2
<1>6. /\ t \in Task /\ t.refs = 2 /\ t.hasError = TRUE
      /\ t.funcFrees = shared[d].funcFrees
      /\ t.result = shared[d].result
      /\ t.resultFrees = shared[d].resultFrees
  BY <1>3 DEF Task
<1>7. QED
  BY <1>4, <1>5, <1>6 DEF u

\* The function cannot be called: the worker posts a rejection at once
\* (Deferred.cpp:205-240, 250-263).
LEMMA NotCalledStep ==
    ASSUME IInv, NEW d \in D,
           stage[d] \in {"queued", "loaded"},
           stage' = [stage EXCEPT ![d] = "ending"],
           outcome' = [outcome EXCEPT ![d] = "uncalled"],
           NEW t \in Task, shared' = [shared EXCEPT ![d] = t],
           t.refs = 2, t.hasError = TRUE, t.funcFrees = shared[d].funcFrees,
           t.result = shared[d].result, t.resultFrees = shared[d].resultFrees,
           Post(d, "reject"),
           crashed' \in BOOLEAN,
           backlog' \in Seq(D), IsInjective(backlog'),
           ToSet(backlog') = ToSet(backlog) \ {d},
           UNCHANGED <<mainVars, object, private, calls, lateFree>>
    PROVE  IInv'
<1>0. TypeOK /\ Deferreds /\ CallbacksFit /\ BacklogIsQueued /\ MainInOrder
  BY DEF IInv
<1>1. UNCHANGED <<phase, batch, runtime, object, private, calls, lateFree>>
  BY DEF mainVars
<1>2. Progress(d) /\ Settling(d) /\ Freed(d) /\ Counted(d)
  BY <1>0 DEF Deferreds
<1>3. /\ Pending(d) = 0 /\ Pending(d) \in Nat
      /\ calls[d].resolve = 0 /\ calls[d].reject = 0
  BY <1>0, <1>2, Budget
<1>4. /\ events' \in Seq(D \X Kind)
      /\ Pending(d)' = Pending(d) + 1
      /\ \A c \in D : c # d => Pending(c)' = Pending(c)
  BY <1>0, <1>1, PendingPost DEF Kind
<1>6. /\ shared'[d].refs = 2 /\ shared'[d].hasError = TRUE
      /\ shared'[d].funcFrees = shared[d].funcFrees
      /\ shared'[d].result = shared[d].result
      /\ shared'[d].resultFrees = shared[d].resultFrees
      /\ shared' \in [D -> Task]
      /\ \A c \in D : c # d => shared'[c] = shared[c]
  <2>1. shared \in [D -> Task]
    BY <1>0, TaskType
  <2>2. QED
    BY <2>1
<1>7. TypeOK'
  BY <1>0, <1>1, <1>4, <1>6 DEF TypeOK, Stage, Outcome
<1>8. stage'[d] = "ending" /\ outcome'[d] = "uncalled"
  BY <1>0 DEF TypeOK
<1>9. Progress(d)' /\ Settling(d)' /\ Freed(d)' /\ Counted(d)'
  <2>1. Progress(d)'
    BY <1>1, <1>2, <1>6, <1>8 DEF Progress, Threw
  <2>2. Pending(d)' = 1
    BY <1>3, <1>4
  <2>3. Counted(d)'
    BY <1>6, <1>8, <2>2 DEF Counted
  <2>4. Freed(d)'
    BY <1>1, <1>2, <1>6, <1>8 DEF Freed, Progress
  <2>5. Posted(d)' = 1
    BY <1>8 DEF Posted
  <2>6. Settling(d)'
    BY <1>1, <1>3, <1>8, <2>2, <2>5 DEF Settling, Threw
  <2>7. QED
    BY <2>1, <2>3, <2>4, <2>6
<1>10. \A c \in D : c # d => UNCHANGED Of(c)
  BY <1>0, <1>1, <1>4, <1>6 DEF TypeOK, Of
<1>11. Deferreds'
  BY <1>0, <1>9, <1>10, Untouched DEF Deferreds
<1>12. CallbacksFit'
  <2>1. \A c \in D : outcome'[c] = outcome[c] \/ (c = d /\ Pending(d) = 0)
    BY <1>0, <1>3 DEF TypeOK
  <2>2. Fits(outcome', <<d, "reject">>)
    BY <1>8 DEF Fits
  <2>3. QED
    BY <1>0, <1>1, <2>1, <2>2, FitsAfterPost DEF Kind
<1>13. BacklogIsQueued'
  BY <1>0 DEF BacklogIsQueued, TypeOK
<1>14. MainInOrder'
  <2>1. phase \notin {"free", "exit", "done"}
    BY <1>0, PoolBusy DEF Stage
  <2>2. QED
    BY <1>0, <1>1, <2>1 DEF MainInOrder
<1>15. QED
  BY <1>7, <1>11, <1>12, <1>13, <1>14 DEF IInv

\* A worker takes the oldest task: no other worker has it (Deferred.cpp:198-240).
LEMMA StartTaskStep ==
    ASSUME IInv, StartTask
    PROVE  IInv'
<1> DEFINE d == Head(backlog)
<1>1. /\ backlog # << >> /\ backlog' = Tail(backlog) /\ crashed' \in BOOLEAN
      /\ UNCHANGED <<mainVars, object, private, calls, lateFree>>
  BY DEF StartTask, Defined, Undefined
<1>2. /\ d \in D /\ backlog' \in Seq(D) /\ IsInjective(backlog')
      /\ ToSet(backlog') = ToSet(backlog) \ {d} /\ d \in ToSet(backlog)
  BY <1>1, TakeOldest DEF IInv, TypeOK, BacklogIsQueued
<1>3. stage[d] = "queued"
  BY <1>2 DEF IInv, BacklogIsQueued
<1>4. \/ /\ stage' = [stage EXCEPT ![d] = "loaded"]
         /\ UNCHANGED <<outcome, shared, events>>
      \/ /\ stage' = [stage EXCEPT ![d] = "ending"]
         /\ outcome' = [outcome EXCEPT ![d] = "uncalled"]
         /\ shared' = [shared EXCEPT ![d].hasError = TRUE, ![d].refs = @ + 1]
         /\ Post(d, "reject")
  BY DEF StartTask
<1> HIDE DEF d
<1>5. TypeOK /\ Settling(d) /\ Counted(d)
  BY <1>2 DEF IInv, Deferreds
<1>6. QED
  BY <1>1, <1>2, <1>3, <1>4, <1>5, AdvanceStep, FailedTask, NotCalledStep

\* Reading the function buffer may fail as creating the context may
\* (Deferred.cpp:244-263).
LEMMA DeserializeStep ==
    ASSUME IInv, NEW d \in D, Deserialize(d)
    PROVE  IInv'
<1>1. /\ stage[d] = "loaded" /\ crashed' \in BOOLEAN
      /\ UNCHANGED <<mainVars, backlog, object, private, calls, lateFree>>
  BY DEF Deserialize, Undefined
<1>2. /\ backlog' \in Seq(D) /\ IsInjective(backlog')
      /\ ToSet(backlog') = ToSet(backlog) \ {d}
  BY <1>1 DEF IInv, TypeOK, BacklogIsQueued
<1>3. \/ /\ stage' = [stage EXCEPT ![d] = "callable"]
         /\ UNCHANGED <<outcome, shared, events>>
      \/ /\ stage' = [stage EXCEPT ![d] = "ending"]
         /\ outcome' = [outcome EXCEPT ![d] = "uncalled"]
         /\ shared' = [shared EXCEPT ![d].hasError = TRUE, ![d].refs = @ + 1]
         /\ Post(d, "reject")
  BY DEF Deserialize
<1>4. TypeOK /\ Settling(d) /\ Counted(d)
  BY DEF IInv, Deferreds
<1>5. QED
  BY <1>1, <1>2, <1>3, <1>4, AdvanceStep, FailedTask, NotCalledStep

\* The call and the serialization of its outcome: a fallback rejection is posted
\* only for an error that could not be serialized (Deferred.cpp:271-352).
LEMMA ExecuteStep ==
    ASSUME IInv, NEW d \in D, Execute(d)
    PROVE  IInv'
<1>0. TypeOK /\ Deferreds /\ CallbacksFit /\ BacklogIsQueued /\ MainInOrder
  BY DEF IInv
<1>1. PICK o \in {"value", "opaqueValue", "error", "opaqueError"} :
          /\ outcome' = [outcome EXCEPT ![d] = o]
          /\ shared' = [shared EXCEPT
                           ![d].hasError = Stored(o).hasError,
                           ![d].result   = Stored(o).result,
                           ![d].refs     = IF Fallback(o) THEN @ + 1 ELSE @]
          /\ IF Fallback(o) THEN Post(d, "reject") ELSE UNCHANGED events
  BY DEF Execute
<1>2. /\ stage[d] = "callable"
      /\ stage' = [stage EXCEPT ![d] = "returned"] /\ crashed' \in BOOLEAN
      /\ UNCHANGED <<phase, batch, runtime, backlog, object, private, calls, lateFree>>
  BY DEF Execute, Defined, Undefined, mainVars
<1>3. Progress(d) /\ Settling(d) /\ Freed(d) /\ Counted(d)
  BY <1>0 DEF Deferreds
<1>4. /\ Pending(d) = 0 /\ calls[d].resolve = 0 /\ calls[d].reject = 0
  BY <1>0, <1>2, <1>3, Budget
<1>5. shared[d].refs = 1
  BY <1>2, <1>3, <1>4 DEF Counted
<1>6. shared \in [D -> Task] /\ shared[d] \in Task
  BY <1>0, TaskType
<1> DEFINE h == o \in {"error", "opaqueError"}
           v == o \in {"error", "value"}
           r == IF Fallback(o) THEN 2 ELSE 1
           t == [refs |-> r, hasError |-> h, result |-> v,
                 funcFrees |-> shared[d].funcFrees,
                 resultFrees |-> shared[d].resultFrees]
<1>7. /\ t \in Task /\ t.refs = r /\ t.hasError = h /\ t.result = v
      /\ t.funcFrees = shared[d].funcFrees /\ t.resultFrees = shared[d].resultFrees
  BY <1>6 DEF Task
<1>8. shared' = [shared EXCEPT ![d] = t]
  <2> DEFINE a == [shared EXCEPT ![d].hasError = h]
             b == [a EXCEPT ![d].result = v]
             c == [b EXCEPT ![d].refs = r]
  <2>0. h \in BOOLEAN /\ v \in BOOLEAN /\ r \in 0..3
    OBVIOUS
  <2>1. shared' = c
    BY <1>1, <1>5 DEF Stored
  <2> HIDE DEF h, v, r
  <2>2. /\ a \in [D -> Task] /\ a[d] = [shared[d] EXCEPT !.hasError = h]
        /\ \A x \in D \ {d} : a[x] = shared[x]
    BY <1>6, <2>0 DEF Task
  <2>3. /\ b \in [D -> Task] /\ b[d] = [a[d] EXCEPT !.result = v]
        /\ \A x \in D \ {d} : b[x] = shared[x]
    <3> HIDE DEF a
    <3>1. QED
      BY ZenonT(30), <2>0, <2>2 DEF Task
  <2>4. /\ c \in [D -> Task] /\ c[d] = [b[d] EXCEPT !.refs = r]
        /\ \A x \in D \ {d} : c[x] = shared[x]
    <3> HIDE DEF b
    <3>1. QED
      BY ZenonT(30), <2>0, <2>3 DEF Task
  <2> HIDE DEF a, b, c
  <2>5. /\ a[d] \in Task /\ a[d].hasError = h
        /\ a[d].funcFrees = shared[d].funcFrees
        /\ a[d].resultFrees = shared[d].resultFrees
    BY <1>6, <2>2 DEF Task
  <2>6. /\ b[d] \in Task /\ b[d].hasError = h /\ b[d].result = v
        /\ b[d].funcFrees = shared[d].funcFrees
        /\ b[d].resultFrees = shared[d].resultFrees
    BY <2>3, <2>5 DEF Task
  <2>7. c[d] = t
    BY <2>4, <2>6 DEF Task
  <2>8. QED
    BY <1>6, <2>1, <2>4, <2>7
<1> HIDE DEF t
<1>9. /\ shared'[d] = t /\ shared' \in [D -> Task]
      /\ \A c \in D : c # d => shared'[c] = shared[c]
  BY <1>6, <1>7, <1>8
<1>10. stage'[d] = "returned" /\ outcome'[d] = o
  BY <1>0, <1>1, <1>2 DEF TypeOK
<1>11. \A c \in D : outcome'[c] = outcome[c] \/ (c = d /\ Pending(d) = 0)
  BY <1>0, <1>1, <1>4 DEF TypeOK
<1>12. /\ events' \in Seq(D \X Kind)
       /\ Pending(d)' = IF Fallback(o) THEN 1 ELSE 0
       /\ \A c \in D : c # d => Pending(c)' = Pending(c)
       /\ CallbacksFit'
  <2>1. CASE Fallback(o)
    <3>1. Post(d, "reject") /\ Fits(outcome', <<d, "reject">>)
      BY <1>1, <1>10, <2>1 DEF Fallback, Fits
    <3>2. /\ events' \in Seq(D \X Kind)
          /\ Pending(d)' = Pending(d) + 1
          /\ \A c \in D : c # d => Pending(c)' = Pending(c)
      BY <1>0, <1>2, <3>1, PendingPost DEF Kind
    <3>3. CallbacksFit'
      BY <1>0, <1>2, <1>11, <3>1, FitsAfterPost DEF Kind
    <3>4. QED
      BY <1>4, <2>1, <3>2, <3>3
  <2>2. CASE ~Fallback(o)
    <3>1. UNCHANGED <<batch, events>>
      BY <1>1, <1>2, <2>2
    <3>2. \A c \in D : Pending(c)' = Pending(c)
      BY <3>1, PendingSame
    <3>3. CallbacksFit'
      BY <1>0, <1>11, <3>1, FitsSame
    <3>4. QED
      BY <1>0, <1>4, <2>2, <3>1, <3>2, <3>3 DEF TypeOK
  <2>3. QED
    BY <2>1, <2>2
<1>13. TypeOK'
  BY <1>0, <1>1, <1>2, <1>9, <1>12 DEF TypeOK, Stage, Outcome
<1>14. Progress(d)' /\ Settling(d)' /\ Freed(d)' /\ Counted(d)'
  <2>1. Progress(d)'
    BY <1>2, <1>3, <1>7, <1>9, <1>10 DEF Progress, Threw
  <2>2. Counted(d)'
    BY <1>7, <1>9, <1>10, <1>12 DEF Counted
  <2>3. Freed(d)'
    BY <1>2, <1>3, <1>5, <1>7, <1>9, <1>10 DEF Freed, Progress
  <2>4. Posted(d)' = IF Fallback(o) THEN 1 ELSE 0
    BY <1>10 DEF Posted, Fallback
  <2>5. Settling(d)'
    BY <1>2, <1>4, <1>10, <1>12, <2>4 DEF Settling
  <2>6. QED
    BY <2>1, <2>2, <2>3, <2>5
<1>15. \A c \in D : c # d => UNCHANGED Of(c)
  BY <1>0, <1>1, <1>2, <1>9, <1>12 DEF TypeOK, Of
<1>16. Deferreds'
  BY <1>0, <1>14, <1>15, Untouched DEF Deferreds
<1>17. BacklogIsQueued'
  BY <1>0, <1>2 DEF BacklogIsQueued, TypeOK
<1>18. MainInOrder'
  <2>1. phase \notin {"free", "exit", "done"}
    BY <1>0, <1>2, PoolBusy DEF Stage
  <2>2. QED
    BY <1>0, <1>2, <2>1 DEF MainInOrder
<1>19. QED
  BY <1>12, <1>13, <1>16, <1>17, <1>18 DEF IInv

\* The final callback takes a reference of its own (Deferred.cpp:357).
LEMMA PostSettleStep ==
    ASSUME IInv, NEW d \in D, PostSettle(d)
    PROVE  IInv'
<1>0. TypeOK /\ Deferreds /\ CallbacksFit /\ BacklogIsQueued /\ MainInOrder
  BY DEF IInv
<1>1. /\ stage[d] = "returned"
      /\ shared' = [shared EXCEPT ![d].refs = @ + 1]
      /\ Post(d, "settle")
      /\ stage' = [stage EXCEPT ![d] = "ending"] /\ crashed' \in BOOLEAN
      /\ UNCHANGED <<phase, batch, runtime, backlog, outcome, object, private,
                     calls, lateFree>>
  BY DEF PostSettle, Defined, Undefined, mainVars
<1>2. Progress(d) /\ Settling(d) /\ Freed(d) /\ Counted(d)
  BY <1>0 DEF Deferreds
<1>3. /\ Pending(d) \in Nat /\ calls[d].resolve \in Nat /\ calls[d].reject \in Nat
      /\ Pending(d) + calls[d].resolve + calls[d].reject <= Posted(d)
  BY <1>0, <1>2, Budget
<1>4. Posted(d) \in 0..1
  BY <1>1 DEF Posted
<1>5. shared[d].refs = 1 + Pending(d) /\ Pending(d) \in 0..1
  BY <1>1, <1>2, <1>3, <1>4 DEF Counted
<1>6. shared \in [D -> Task] /\ shared[d] \in Task
  BY <1>0, TaskType
<1>7. /\ shared' \in [D -> Task]
      /\ shared'[d].refs = shared[d].refs + 1
      /\ shared'[d].hasError = shared[d].hasError
      /\ shared'[d].result = shared[d].result
      /\ shared'[d].funcFrees = shared[d].funcFrees
      /\ shared'[d].resultFrees = shared[d].resultFrees
      /\ \A c \in D : c # d => shared'[c] = shared[c]
  BY <1>1, <1>5, <1>6 DEF Task
<1>8. /\ events' \in Seq(D \X Kind)
      /\ Pending(d)' = Pending(d) + 1
      /\ \A c \in D : c # d => Pending(c)' = Pending(c)
  BY <1>0, <1>1, PendingPost DEF Kind
<1>9. TypeOK'
  BY <1>0, <1>1, <1>7, <1>8 DEF TypeOK, Stage
<1>10. stage'[d] = "ending" /\ outcome' = outcome /\ calls' = calls
  BY <1>0, <1>1 DEF TypeOK
<1>11. outcome[d] \in {"value", "opaqueValue", "error", "opaqueError"}
  BY <1>1, <1>2 DEF Progress
<1>12. Progress(d)' /\ Settling(d)' /\ Freed(d)' /\ Counted(d)'
  <2>1. Progress(d)'
    BY <1>1, <1>2, <1>7, <1>10, <1>11 DEF Progress
  <2>2. Counted(d)'
    BY <1>5, <1>7, <1>8, <1>10 DEF Counted
  <2>3. Freed(d)'
    BY <1>1, <1>2, <1>5, <1>7, <1>10 DEF Freed
  <2>4. Posted(d)' = Posted(d) + 1
    BY <1>1, <1>10 DEF Posted
  <2>5. Pending(d)' + calls'[d].resolve + calls'[d].reject <= Posted(d)'
    BY <1>3, <1>4, <1>8, <1>10, <2>4
  <2>6. Settling(d)'
    BY <1>2, <1>10, <2>5 DEF Settling
  <2>7. QED
    BY <2>1, <2>2, <2>3, <2>6
<1>13. \A c \in D : c # d => UNCHANGED Of(c)
  BY <1>0, <1>1, <1>7, <1>8 DEF TypeOK, Of
<1>14. Deferreds'
  BY <1>0, <1>12, <1>13, Untouched DEF Deferreds
<1>15. CallbacksFit'
  <2>1. Fits(outcome', <<d, "settle">>)
    BY <1>10, <1>11 DEF Fits
  <2>2. QED
    BY <1>0, <1>1, <1>10, <2>1, FitsAfterPost DEF Kind
<1>16. BacklogIsQueued'
  BY <1>0, <1>1 DEF BacklogIsQueued, TypeOK
<1>17. MainInOrder'
  <2>1. phase \notin {"free", "exit", "done"}
    BY <1>0, <1>1, PoolBusy DEF Stage
  <2>2. QED
    BY <1>0, <1>1, <2>1 DEF MainInOrder
<1>18. QED
  BY <1>9, <1>14, <1>15, <1>16, <1>17 DEF IInv

-----------------------------------------------------------------------------
(* A reference less. *)

\* Clearing the result frees it if there is one (Deferred.cpp:410-414).
LEMMA FreeResultType ==
    ASSUME NEW t \in Task, t.result => t.resultFrees = 0
    PROVE  /\ FreeResult(t) \in Task
           /\ FreeResult(t).refs = t.refs /\ FreeResult(t).hasError = t.hasError
           /\ FreeResult(t).funcFrees = t.funcFrees
           /\ FreeResult(t).result = FALSE
<1>1. t.result \in BOOLEAN /\ t.resultFrees \in 0..1
  BY DEF Task
<1>2. CASE t.result
  <2> DEFINE u == [t EXCEPT !.result = FALSE]
  <2>1. /\ u \in Task /\ u.refs = t.refs /\ u.hasError = t.hasError
        /\ u.funcFrees = t.funcFrees /\ u.result = FALSE /\ u.resultFrees = 0
    BY <1>2 DEF Task
  <2>2. FreeResult(t) = [u EXCEPT !.resultFrees = 1]
    <3>1. t.resultFrees = 0 /\ t.resultFrees + 1 = 1
      BY <1>1, <1>2
    <3>2. FreeResult(t) = [u EXCEPT !.resultFrees = t.resultFrees + 1]
      BY <1>2 DEF FreeResult
    <3>3. QED
      BY <3>1, <3>2
  <2> HIDE DEF u
  <2>3. QED
    BY <2>1, <2>2 DEF Task
<1>3. CASE ~t.result
  <2>1. FreeResult(t) = t
    BY <1>3 DEF FreeResult
  <2>2. QED
    BY <1>1, <1>3, <2>1
<1>4. QED
  BY <1>2, <1>3

\* The last reference frees both buffers (Deferred.h:57-65).
LEMMA LastReference ==
    ASSUME NEW t \in Task, t.funcFrees \in 0..1, t.result => t.resultFrees = 0
    PROVE  LET u == [FreeResult(FreeFunc(t)) EXCEPT !.refs = 0]
           IN  /\ u \in Task /\ u.refs = 0 /\ u.hasError = t.hasError
               /\ u.funcFrees = t.funcFrees + 1 /\ u.result = FALSE
<1> DEFINE f == FreeFunc(t)
           g == FreeResult(f)
           u == [g EXCEPT !.refs = 0]
<1>1. /\ f \in Task /\ f.funcFrees = t.funcFrees + 1 /\ f.hasError = t.hasError
      /\ f.result => f.resultFrees = 0
  BY DEF FreeFunc, Task
<1> HIDE DEF f
<1>2. /\ g \in Task /\ g.hasError = f.hasError /\ g.funcFrees = f.funcFrees
      /\ g.result = FALSE
  BY <1>1, FreeResultType
<1> HIDE DEF g
<1>3. /\ u \in Task /\ u.refs = 0 /\ u.hasError = g.hasError
      /\ u.funcFrees = g.funcFrees /\ u.result = FALSE
  BY <1>2 DEF Task
<1>4. QED
  BY <1>1, <1>2, <1>3 DEF f, g

\* Any reference: the last one frees the buffers, another one nothing.
LEMMA ReleaseType ==
    ASSUME NEW t \in Task, t.refs > 0, t.funcFrees \in 0..1,
           t.result => t.resultFrees = 0
    PROVE  /\ Release(t) \in Task /\ Release(t).hasError = t.hasError
           /\ Release(t).refs = t.refs - 1
           /\ t.refs = 1 => /\ Release(t).funcFrees = t.funcFrees + 1
                            /\ Release(t).result = FALSE
           /\ t.refs # 1 => /\ Release(t).funcFrees = t.funcFrees
                            /\ Release(t).result = t.result
                            /\ Release(t).resultFrees = t.resultFrees
<1>1. CASE t.refs = 1
  <2>1. Release(t) = [FreeResult(FreeFunc(t)) EXCEPT !.refs = 0]
    BY <1>1 DEF Release
  <2>2. /\ Release(t) \in Task /\ Release(t).refs = 0
        /\ Release(t).hasError = t.hasError
        /\ Release(t).funcFrees = t.funcFrees + 1 /\ Release(t).result = FALSE
    BY <2>1, LastReference
  <2>3. QED
    BY <1>1, <2>2
<1>2. CASE t.refs # 1
  <2>1. Release(t) = [t EXCEPT !.refs = t.refs - 1]
    BY <1>2 DEF Release
  <2>2. t.refs - 1 \in 0..3
    BY DEF Task
  <2>3. QED
    BY <1>2, <2>1, <2>2 DEF Task
<1>3. QED
  BY <1>1, <1>2

\* The worker destroys the closure of the pool task: its callbacks keep the
\* shared task, or nobody does and it is freed.
LEMMA EndTaskStep ==
    ASSUME IInv, NEW d \in D, EndTask(d)
    PROVE  IInv'
<1>0. TypeOK /\ Deferreds /\ CallbacksFit /\ BacklogIsQueued /\ MainInOrder
  BY DEF IInv
<1>1. /\ stage[d] = "ending"
      /\ shared' = [shared EXCEPT ![d] = Release(shared[d])]
      /\ stage' = [stage EXCEPT ![d] = "done"] /\ crashed' \in BOOLEAN
      /\ UNCHANGED <<phase, batch, runtime, backlog, outcome, object, private,
                     events, calls, lateFree>>
  BY DEF EndTask, Undefined, mainVars
<1>2. Progress(d) /\ Settling(d) /\ Freed(d) /\ Counted(d)
  BY <1>0 DEF Deferreds
<1>3. \A c \in D : Pending(c)' = Pending(c) /\ Pending(c) \in Nat
  BY <1>0, <1>1, PendingSame, PendingType
<1>4. /\ shared[d].refs = 1 + Pending(d) /\ shared[d].funcFrees \in 0..1
      /\ shared[d].result => shared[d].resultFrees = 0
  BY <1>1, <1>2 DEF Counted, Freed
<1>5. shared \in [D -> Task] /\ shared[d] \in Task /\ shared[d].refs > 0
  BY <1>0, <1>3, <1>4, TaskType
<1> DEFINE t == Release(shared[d])
<1>6. /\ t \in Task /\ t.hasError = shared[d].hasError
      /\ t.refs = shared[d].refs - 1
      /\ shared[d].refs = 1 => /\ t.funcFrees = shared[d].funcFrees + 1
                               /\ t.result = FALSE
      /\ shared[d].refs # 1 => /\ t.funcFrees = shared[d].funcFrees
                               /\ t.result = shared[d].result
                               /\ t.resultFrees = shared[d].resultFrees
  BY <1>4, <1>5, ReleaseType
<1> HIDE DEF t
<1>7. /\ shared'[d] = t /\ shared' \in [D -> Task]
      /\ \A c \in D : c # d => shared'[c] = shared[c]
  BY <1>1, <1>5, <1>6 DEF t
<1>8. TypeOK'
  BY <1>0, <1>1, <1>7 DEF TypeOK, Stage
<1>9. stage'[d] = "done" /\ outcome' = outcome /\ calls' = calls
  BY <1>0, <1>1 DEF TypeOK
<1>10. Progress(d)' /\ Settling(d)' /\ Freed(d)' /\ Counted(d)'
  <2>1. t.refs = Pending(d)
    BY <1>3, <1>4, <1>6
  <2>2. Progress(d)' /\ Counted(d)'
    BY <1>1, <1>2, <1>3, <1>6, <1>7, <1>9, <2>1 DEF Progress, Counted
  <2>3. Freed(d)'
    <3>1. CASE shared[d].refs = 1
      <4>1. t.refs = 0 /\ t.funcFrees = shared[d].funcFrees + 1 /\ t.result = FALSE
        BY <1>6, <3>1
      <4>2. QED
        BY <1>1, <1>2, <1>7, <1>9, <4>1 DEF Freed
    <3>2. CASE shared[d].refs # 1
      <4>1. t.refs # 0 /\ t.refs > 0
        BY <1>3, <1>4, <2>1, <3>2
      <4>2. QED
        BY <1>1, <1>2, <1>4, <1>6, <1>7, <1>9, <3>2, <4>1 DEF Freed
    <3>3. QED
      BY <3>1, <3>2
  <2>5. Posted(d)' = Posted(d)
    BY <1>1, <1>9 DEF Posted
  <2>6. Settling(d)'
    BY <1>2, <1>3, <1>9, <2>5 DEF Settling
  <2>7. QED
    BY <2>2, <2>3, <2>6
<1>11. \A c \in D : c # d => UNCHANGED Of(c)
  BY <1>0, <1>1, <1>3, <1>7 DEF TypeOK, Of
<1>12. Deferreds'
  BY <1>0, <1>10, <1>11, Untouched DEF Deferreds
<1>13. CallbacksFit'
  BY <1>0, <1>1 DEF CallbacksFit
<1>14. BacklogIsQueued'
  BY <1>0, <1>1 DEF BacklogIsQueued, TypeOK
<1>15. MainInOrder'
  <2>1. phase \notin {"free", "exit", "done"}
    BY <1>0, <1>1, PoolBusy DEF Stage
  <2>2. QED
    BY <1>0, <1>1, <2>1 DEF MainInOrder
<1>16. QED
  BY <1>8, <1>12, <1>13, <1>14, <1>15 DEF IInv

-----------------------------------------------------------------------------
(* The main thread. *)

\* Running a callback drops its reference: of the last one if the pool task has
\* ended and no other callback waits (Deferred.cpp:214, 311, 357-414).
LEMMA RunCallbackStep ==
    ASSUME IInv, RunCallback
    PROVE  IInv'
<1>0. TypeOK /\ Deferreds /\ CallbacksFit /\ BacklogIsQueued /\ MainInOrder
  BY DEF IInv
<1>1. /\ phase \in {"process", "last"} /\ batch # << >>
      /\ crashed' \in BOOLEAN /\ batch' = Tail(batch)
      /\ UNCHANGED <<phase, runtime, backlog, stage, outcome, object, private,
                     events, lateFree>>
  BY DEF RunCallback, Undefined, workerVars
<1>2. /\ batch \in Seq(D \X Kind) /\ batch' \in Seq(D \X Kind)
      /\ Head(batch) \in D \X Kind /\ Head(batch) = batch[1] /\ 1 \in DOMAIN batch
      /\ Len(batch) \in Nat /\ DOMAIN batch = 1..Len(batch)
      /\ DOMAIN batch' = 1..(Len(batch) - 1)
      /\ \A i \in 1..(Len(batch) - 1) : batch'[i] = batch[i + 1]
  BY <1>0, <1>1, HeadTailProperties, LenProperties, EmptySeq DEF TypeOK
<1>3. PICK d \in D, kind \in Kind :
          /\ Head(batch)[1] = d /\ Head(batch)[2] = kind
          /\ calls' = [calls EXCEPT ![d][Called(d, kind)] = @ + 1]
          /\ shared' = [shared EXCEPT ![d] = AfterCallback(d, kind)]
          /\ Fits(outcome, Head(batch))
  <2>1. Head(batch)[1] \in D /\ Head(batch)[2] \in Kind
    BY <1>2
  <2>2. Fits(outcome, Head(batch))
    BY <1>0, <1>2 DEF CallbacksFit
  <2>3. QED
    BY <2>1, <2>2 DEF RunCallback
<1>4. \A c \in D : /\ Pending(c) \in Nat /\ Pending(c)' \in Nat
                   /\ Pending(c) = Pending(c)' + (IF d = c THEN 1 ELSE 0)
  <2>1. \A c \in D : Count(batch, c) = Count(batch', c) + (IF d = c THEN 1 ELSE 0)
    BY <1>1, <1>2, <1>3, CountTail DEF Callback
  <2>2. \A c \in D : /\ Count(batch, c) \in Nat /\ Count(events, c) \in Nat
                     /\ Count(batch', c) \in Nat
    BY <1>0, <1>2, PendingType, CountType DEF Callback
  <2>3. \A c \in D : /\ Pending(c) = Count(batch, c) + Count(events, c)
                     /\ Pending(c)' = Count(batch', c) + Count(events, c)
    BY <1>1 DEF Pending, Count, Positions
  <2>4. QED
    BY <2>1, <2>2, <2>3
<1>5. /\ Called(d, kind) = "resolve" => outcome[d] \in {"value", "opaqueValue"}
      /\ Called(d, kind) = "reject" => outcome[d] \in Threw
      /\ Called(d, kind) \in {"resolve", "reject"}
  <2>1. Progress(d)
    BY <1>0, <1>3 DEF Deferreds
  <2>2. shared[d].hasError <=> outcome[d] \in Threw
    BY <2>1 DEF Progress
  <2>3. /\ kind = "settle" => outcome[d] \in {"value", "opaqueValue", "error",
                                              "opaqueError"}
        /\ kind = "reject" => outcome[d] \in {"opaqueError", "uncalled"}
        /\ kind \in {"settle", "reject"}
    BY <1>3 DEF Fits, Kind
  <2>4. QED
    BY <2>2, <2>3 DEF Called, Threw
<1>6. \/ AfterCallback(d, kind) = Release(shared[d])
      \/ AfterCallback(d, kind) = Release(FreeResult(shared[d]))
  BY DEF AfterCallback
<1>7. Progress(d) /\ Settling(d) /\ Freed(d) /\ Counted(d)
  BY <1>0, <1>3 DEF Deferreds
<1>8. /\ Pending(d) > 0 /\ Pending(d) = Pending(d)' + 1
      /\ Pending(d) \in Nat /\ Pending(d)' \in Nat
      /\ calls[d].resolve \in Nat /\ calls[d].reject \in Nat
      /\ Pending(d) + calls[d].resolve + calls[d].reject <= Posted(d)
      /\ Posted(d) \in 0..2
  BY <1>0, <1>3, <1>4, <1>7, Budget
<1>9. stage[d] # "none" /\ Posted(d) > 0
  <2>1. stage[d] = "none" => Posted(d) = 0
    BY DEF Posted
  <2>2. Posted(d) > 0
    BY <1>8
  <2>3. QED
    BY <2>1, <2>2
<1>10. /\ shared[d].refs > 0
       /\ stage[d] = "done" => shared[d].refs = Pending(d)
       /\ stage[d] # "done" => shared[d].refs = 1 + Pending(d)
  BY <1>7, <1>8, <1>9 DEF Counted
<1>11. /\ shared[d].funcFrees = IF object[d] = "finalized" THEN 1 ELSE 0
       /\ shared[d].funcFrees \in 0..1
       /\ shared[d].result => shared[d].resultFrees = 0
  BY <1>7, <1>10 DEF Freed
<1>12. shared \in [D -> Task] /\ shared[d] \in Task
  BY <1>0, <1>3, TaskType
<1>13. PICK t \in Task :
          /\ shared' = [shared EXCEPT ![d] = t]
          /\ t.hasError = shared[d].hasError /\ t.refs = shared[d].refs - 1
          /\ shared[d].refs = 1 => /\ t.funcFrees = shared[d].funcFrees + 1
                                   /\ t.result = FALSE
          /\ shared[d].refs # 1 => /\ t.funcFrees = shared[d].funcFrees
                                   /\ t.result => t.resultFrees = 0
          /\ t.result => shared[d].result
  <2>1. CASE AfterCallback(d, kind) = Release(shared[d])
    <3> DEFINE w == Release(shared[d])
    <3>1. /\ w \in Task /\ w.hasError = shared[d].hasError
          /\ w.refs = shared[d].refs - 1
          /\ shared[d].refs = 1 => /\ w.funcFrees = shared[d].funcFrees + 1
                                   /\ w.result = FALSE
          /\ shared[d].refs # 1 => /\ w.funcFrees = shared[d].funcFrees
                                   /\ w.result = shared[d].result
                                   /\ w.resultFrees = shared[d].resultFrees
      BY <1>10, <1>11, <1>12, ReleaseType
    <3>2. shared' = [shared EXCEPT ![d] = w]
      BY <1>3, <2>1
    <3> HIDE DEF w
    <3>3. (w.result => shared[d].result) /\ (w.result /\ shared[d].refs # 1 => w.resultFrees = 0)
      BY <1>11, <3>1
    <3>4. QED
      BY <3>1, <3>2, <3>3
  <2>2. CASE AfterCallback(d, kind) = Release(FreeResult(shared[d]))
    <3> DEFINE f == FreeResult(shared[d])
    <3>1. /\ f \in Task /\ f.refs = shared[d].refs
          /\ f.hasError = shared[d].hasError
          /\ f.funcFrees = shared[d].funcFrees /\ f.result = FALSE
      BY <1>11, <1>12, FreeResultType
    <3> HIDE DEF f
    <3>2. /\ Release(f) \in Task /\ Release(f).hasError = f.hasError
          /\ Release(f).refs = f.refs - 1
          /\ f.refs = 1 => /\ Release(f).funcFrees = f.funcFrees + 1
                           /\ Release(f).result = FALSE
          /\ f.refs # 1 => /\ Release(f).funcFrees = f.funcFrees
                           /\ Release(f).result = FALSE
      BY <1>10, <1>11, <3>1, ReleaseType
    <3>3. QED
      BY <1>3, <2>2, <3>1, <3>2 DEF f
  <2>3. QED
    BY <1>6, <2>1, <2>2
<1>14. /\ shared'[d] = t /\ shared' \in [D -> Task]
       /\ \A c \in D : c # d => shared'[c] = shared[c]
  BY <1>12, <1>13
<1>15. /\ calls' \in [D -> Calls]
       /\ \A c \in D : c # d => calls'[c] = calls[c]
       /\ \/ /\ calls'[d].resolve = calls[d].resolve + 1
             /\ calls'[d].reject = calls[d].reject
             /\ outcome[d] \in {"value", "opaqueValue"}
          \/ /\ calls'[d].resolve = calls[d].resolve
             /\ calls'[d].reject = calls[d].reject + 1
             /\ outcome[d] \in Threw
  <2>1. calls \in [D -> Calls] /\ calls[d] \in Calls
    BY <1>0, <1>3, TaskType
  <2>2. CASE Called(d, kind) = "resolve"
    <3>1. outcome[d] \in {"value", "opaqueValue"} /\ Posted(d) = 1
      BY <1>5, <1>9, <2>2 DEF Posted
    <3>2. calls[d].resolve = 0 /\ calls[d].reject = 0
      BY <1>8, <3>1
    <3> DEFINE u == [calls[d] EXCEPT !.resolve = calls[d].resolve + 1]
    <3>3. calls' = [calls EXCEPT ![d] = u]
      BY <1>3, <2>2
    <3>4. u \in Calls /\ u.resolve = 1 /\ u.reject = calls[d].reject
      BY <2>1, <3>2 DEF Calls
    <3> HIDE DEF u
    <3>5. calls' \in [D -> Calls] /\ calls'[d] = u
          /\ \A c \in D : c # d => calls'[c] = calls[c]
      BY <2>1, <3>3, <3>4
    <3>6. QED
      BY <3>1, <3>2, <3>4, <3>5
  <2>3. CASE Called(d, kind) = "reject"
    <3>1. outcome[d] \in Threw
      BY <1>5, <2>3
    <3>2. calls[d].reject \in 0..1
      BY <1>8
    <3> DEFINE u == [calls[d] EXCEPT !.reject = calls[d].reject + 1]
    <3>3. calls' = [calls EXCEPT ![d] = u]
      BY <1>3, <2>3
    <3>4. u \in Calls /\ u.reject = calls[d].reject + 1 /\ u.resolve = calls[d].resolve
      BY <2>1, <3>2 DEF Calls
    <3> HIDE DEF u
    <3>5. calls' \in [D -> Calls] /\ calls'[d] = u
          /\ \A c \in D : c # d => calls'[c] = calls[c]
      BY <2>1, <3>3, <3>4
    <3>6. QED
      BY <3>1, <3>4, <3>5
  <2>4. QED
    BY <1>5, <2>2, <2>3
<1>16. TypeOK'
  BY <1>0, <1>1, <1>2, <1>14, <1>15 DEF TypeOK
<1>17. Progress(d)' /\ Settling(d)' /\ Freed(d)' /\ Counted(d)'
  <2>1. Progress(d)'
    <3>1. stage[d] \notin {"none", "queued", "loaded", "callable"}
      <4>1. stage[d] \in {"none", "queued", "loaded", "callable"} => Posted(d) = 0
        BY DEF Posted
      <4>2. QED
        BY <1>8, <1>9, <4>1
    <3>2. QED
      BY <1>1, <1>7, <1>13, <1>14, <3>1 DEF Progress
  <2>2. /\ stage[d] = "done" => t.refs = Pending(d)'
        /\ stage[d] # "done" => t.refs = 1 + Pending(d)'
    BY <1>8, <1>10, <1>13
  <2>3. Counted(d)'
    BY <1>1, <1>9, <1>14, <2>2 DEF Counted
  <2>4. Freed(d)'
    <3>1. CASE shared[d].refs = 1
      <4>1. t.refs = 0 /\ t.funcFrees = shared[d].funcFrees + 1 /\ t.result = FALSE
        BY <1>13, <3>1
      <4>2. stage[d] = "done"
        BY <1>8, <1>10, <3>1
      <4>3. QED
        BY <1>1, <1>11, <1>14, <4>1, <4>2 DEF Freed
    <3>2. CASE shared[d].refs # 1
      <4>1. shared[d].refs \in 0..3
        BY <1>12 DEF Task
      <4>2. t.refs > 0 /\ t.refs # 0 /\ t.funcFrees = shared[d].funcFrees
            /\ (t.result => t.resultFrees = 0)
        BY <1>10, <1>13, <3>2, <4>1
      <4>3. QED
        BY <1>1, <1>11, <1>14, <4>2 DEF Freed
    <3>3. QED
      BY <3>1, <3>2
  <2>5. Posted(d)' = Posted(d)
    BY <1>1 DEF Posted
  <2>6. Pending(d)' + calls'[d].resolve + calls'[d].reject <= Posted(d)'
    BY <1>8, <1>15, <2>5
  <2>7. /\ calls'[d].resolve > 0 => outcome[d] \in {"value", "opaqueValue"}
        /\ calls'[d].reject > 0 => outcome[d] \in Threw
    BY <1>7, <1>8, <1>15 DEF Settling
  <2>8. Settling(d)'
    BY <1>1, <2>6, <2>7 DEF Settling
  <2>9. QED
    BY <2>1, <2>3, <2>4, <2>8
<1>18. \A c \in D : c # d => UNCHANGED Of(c)
  <2>1. \A c \in D : c # d => Pending(c)' = Pending(c)
    BY <1>4
  <2>2. QED
    BY <1>1, <1>14, <1>15, <2>1 DEF Of
<1>19. Deferreds'
  BY <1>0, <1>17, <1>18, Untouched DEF Deferreds
<1>20. CallbacksFit'
  BY <1>0, <1>1, <1>2 DEF CallbacksFit
<1>21. BacklogIsQueued' /\ MainInOrder'
  BY <1>0, <1>1 DEF BacklogIsQueued, MainInOrder, InPool
<1>22. QED
  BY <1>16, <1>19, <1>20, <1>21 DEF IInv

\* A step that only moves the main thread on keeps the invariant if the new place
\* keeps the order of main().
LEMMA GotoStep ==
    ASSUME IInv, NEW from \in Phase, NEW to \in Phase, Goto(from, to),
           to \notin {"process", "last"} => batch = << >>,
           runtime = "freed" => to \in {"exit", "done"},
           to \in {"free", "exit", "done"} => backlog = << >> /\ InPool = {}
    PROVE  IInv'
<1>0. TypeOK /\ Deferreds /\ CallbacksFit /\ BacklogIsQueued /\ MainInOrder
  BY DEF IInv
<1>1. /\ phase' = to /\ crashed' \in BOOLEAN
      /\ UNCHANGED <<batch, runtime, backlog, stage, outcome, object, private,
                     shared, events, calls, lateFree>>
  BY DEF Goto, Defined, Undefined, workerVars
<1>2. TypeOK'
  BY <1>0, <1>1 DEF TypeOK
<1>3. \A c \in D : UNCHANGED Of(c)
  BY <1>1, PendingSame DEF Of
<1>4. Deferreds'
  BY <1>0, <1>3, Untouched DEF Deferreds
<1>5. CallbacksFit' /\ BacklogIsQueued' /\ MainInOrder'
  BY <1>0, <1>1 DEF CallbacksFit, BacklogIsQueued, MainInOrder, InPool
<1>6. QED
  BY <1>2, <1>4, <1>5 DEF IInv

\* The steps of main() that run no JavaScript (main.cpp:232-254, JSContext.cpp:51).
LEMMA MainMoves ==
    ASSUME IInv, EndScript \/ Test \/ BatchDone \/ Nap \/ Drain
    PROVE  IInv'
<1>0. /\ phase \notin {"process", "last"} => batch = << >>
      /\ runtime = "freed" => phase \in {"exit", "done"}
  BY DEF IInv, MainInOrder
<1>1. CASE EndScript
  <2>1. Goto("script", "test") /\ phase = "script"
    BY <1>1 DEF EndScript, Goto
  <2>2. QED
    BY <1>0, <2>1, GotoStep DEF Phase
<1>2. CASE Test
  <2>1. (Goto("test", "swap") \/ Goto("test", "lastSwap")) /\ phase = "test"
    BY <1>2 DEF Test, Goto
  <2>2. QED
    BY <1>0, <2>1, GotoStep DEF Phase
<1>3. CASE BatchDone
  <2>1. CASE Goto("process", "nap")
    <3>1. phase = "process" /\ batch = << >>
      BY <1>3, <2>1 DEF BatchDone, Goto
    <3>2. QED
      BY <1>0, <2>1, <3>1, GotoStep DEF Phase
  <2>2. CASE Goto("last", "drain")
    <3>1. phase = "last" /\ batch = << >>
      BY <1>3, <2>2 DEF BatchDone, Goto
    <3>2. QED
      BY <1>0, <2>2, <3>1, GotoStep DEF Phase
  <2>3. QED
    BY <1>3, <2>1, <2>2 DEF BatchDone
<1>4. CASE Nap
  <2>1. (Goto("nap", "test") \/ Goto("nap", "lastSwap")) /\ phase = "nap"
    BY <1>4 DEF Nap, Goto
  <2>2. QED
    BY <1>0, <2>1, GotoStep DEF Phase
<1>5. CASE Drain
  <2>1. Goto("drain", "free") /\ phase = "drain" /\ backlog = << >> /\ InPool = {}
    BY <1>5 DEF Drain, Goto
  <2>2. QED
    BY <1>0, <2>1, GotoStep DEF Phase
<1>6. QED
  BY <1>1, <1>2, <1>3, <1>4, <1>5

\* processCallbacks() takes the whole queue: the callbacks change hands, none is
\* lost or doubled (EventLoop.cpp:24-27).
LEMMA SwapStep ==
    ASSUME IInv, Swap("swap", "process") \/ Swap("lastSwap", "last")
    PROVE  IInv'
<1>0. TypeOK /\ Deferreds /\ CallbacksFit /\ BacklogIsQueued /\ MainInOrder
  BY DEF IInv
<1>1. /\ phase \in {"swap", "lastSwap"} /\ phase' \in {"process", "last"}
      /\ batch' = events /\ events' = << >> /\ crashed' \in BOOLEAN
      /\ UNCHANGED <<runtime, backlog, stage, outcome, object, private, shared,
                     calls, lateFree>>
  BY DEF Swap, Defined, Undefined, workerVars
<1>2. batch = << >>
  BY <1>0, <1>1 DEF MainInOrder
<1>3. << >> \in Seq(D \X Kind)
  BY EmptySeq
<1>4. TypeOK'
  BY <1>0, <1>1, <1>3 DEF TypeOK, Phase
<1>5. \A c \in D : Pending(c)' = Pending(c)
  <2>1. \A c \in D : /\ Pending(c) = Count(<< >>, c) + Count(events, c)
                     /\ Pending(c)' = Count(events, c) + Count(<< >>, c)
    BY <1>1, <1>2 DEF Pending, Count, Positions
  <2>2. \A c \in D : Count(events, c) \in Nat
    BY <1>0, PendingType
  <2>3. QED
    BY <2>1, <2>2, CountEmpty
<1>6. \A c \in D : UNCHANGED Of(c)
  BY <1>1, <1>5 DEF Of
<1>7. Deferreds'
  BY <1>0, <1>6, Untouched DEF Deferreds
<1>8. CallbacksFit'
  BY <1>0, <1>1 DEF CallbacksFit
<1>9. BacklogIsQueued' /\ MainInOrder'
  BY <1>0, <1>1 DEF BacklogIsQueued, MainInOrder, InPool
<1>10. QED
  BY <1>4, <1>7, <1>8, <1>9 DEF IInv

\* Freeing the runtime finalizes every object that is still alive, after the pool
\* has been waited for (JSContext.cpp:50-55).
LEMMA FreeRuntimeStep ==
    ASSUME IInv, FreeRuntime
    PROVE  IInv'
<1>0. TypeOK /\ Deferreds /\ CallbacksFit /\ BacklogIsQueued /\ MainInOrder
  BY DEF IInv
<1>1. /\ phase = "free" /\ phase' = "exit" /\ runtime' = "freed"
      /\ object' = [d \in D |-> IF object[d] = "live" THEN "finalized"
                                                     ELSE object[d]]
      /\ shared' = [d \in D |-> IF object[d] = "live" THEN FreeFunc(shared[d])
                                                     ELSE shared[d]]
      /\ crashed' \in BOOLEAN
      /\ UNCHANGED <<batch, backlog, stage, outcome, private, events, calls, lateFree>>
  BY DEF FreeRuntime, Undefined, workerVars
<1>2. \A d \in D : Pending(d)' = Pending(d)
  BY <1>1, PendingSame
<1>3. ASSUME NEW d \in D
      PROVE  /\ shared'[d] \in Task
             /\ Progress(d)' /\ Settling(d)' /\ Freed(d)' /\ Counted(d)'
  <2>1. Progress(d) /\ Settling(d) /\ Freed(d) /\ Counted(d)
    BY <1>0 DEF Deferreds
  <2>2. shared[d] \in Task
    BY <1>0, TaskType
  <2>3. CASE object[d] = "live"
    <3>1. object'[d] = "finalized" /\ shared'[d] = FreeFunc(shared[d])
      BY <1>1, <2>3
    <3>2. shared[d].funcFrees \in 0..1
      BY <2>1, <2>3 DEF Freed
    <3>3. /\ shared'[d] \in Task
          /\ shared'[d].funcFrees = shared[d].funcFrees + 1
          /\ shared'[d].refs = shared[d].refs
          /\ shared'[d].hasError = shared[d].hasError
          /\ shared'[d].result = shared[d].result
          /\ shared'[d].resultFrees = shared[d].resultFrees
      BY <2>2, <3>1, <3>2 DEF FreeFunc, Task
    <3>4. Progress(d)' /\ Counted(d)'
      BY <1>1, <1>2, <2>1, <2>3, <3>1, <3>3 DEF Progress, Counted
    <3>5. Freed(d)'
      BY <1>1, <2>1, <2>3, <3>1, <3>3 DEF Freed
    <3>6. Settling(d)'
      BY <1>1, <1>2, <2>1 DEF Settling, Posted
    <3>7. QED
      BY <3>3, <3>4, <3>5, <3>6
  <2>4. CASE object[d] # "live"
    <3>1. object'[d] = object[d] /\ shared'[d] = shared[d]
      BY <1>1, <2>4
    <3>2. UNCHANGED Of(d)
      BY <1>1, <1>2, <3>1 DEF Of
    <3>3. QED
      BY <2>1, <2>2, <3>1, <3>2, Untouched
  <2>5. QED
    BY <2>3, <2>4
<1>4. TypeOK'
  <2>1. shared' \in [D -> Task]
    BY <1>1, <1>3
  <2>2. object' \in [D -> {"none", "live", "finalized"}]
    BY <1>0, <1>1 DEF TypeOK
  <2>3. QED
    BY <1>0, <1>1, <2>1, <2>2 DEF TypeOK, Phase
<1>5. Deferreds'
  BY <1>3 DEF Deferreds
<1>6. CallbacksFit' /\ BacklogIsQueued'
  BY <1>0, <1>1 DEF CallbacksFit, BacklogIsQueued
<1>7. MainInOrder'
  BY <1>0, <1>1 DEF MainInOrder, InPool
<1>8. QED
  BY <1>4, <1>5, <1>6, <1>7 DEF IInv

\* The static event loop destroys the callbacks nobody ran: they hold all the
\* references that are left (EventLoop.cpp:6, Deferred.h:57).
LEMMA ExitStep ==
    ASSUME IInv, Exit
    PROVE  IInv'
<1>0. TypeOK /\ Deferreds /\ CallbacksFit /\ BacklogIsQueued /\ MainInOrder
  BY DEF IInv
<1> DEFINE Waiting == {e[1] : e \in ToSet(events)}
<1>1. /\ phase = "exit" /\ phase' = "done" /\ events' = << >>
      /\ shared' = [d \in D |->
                       IF d \in Waiting
                       THEN [FreeResult(FreeFunc(shared[d])) EXCEPT !.refs = 0]
                       ELSE shared[d]]
      /\ lateFree' \in BOOLEAN /\ crashed' \in BOOLEAN
      /\ UNCHANGED <<batch, runtime, backlog, stage, outcome, object, private, calls>>
  BY DEF Exit, Undefined, workerVars
<1>2. batch = << >> /\ InPool = {} /\ backlog = << >>
  BY <1>0, <1>1 DEF MainInOrder
<1>3. << >> \in Seq(D \X Kind)
  BY EmptySeq
<1>4. \A d \in D : d \in Waiting <=> Count(events, d) # 0
  <2>1. events \in Seq(Callback)
    BY <1>0 DEF TypeOK, Callback
  <2>2. \A d \in D : Count(events, d) = 0 <=> \A i \in DOMAIN events : events[i][1] # d
    BY <2>1, CountZero
  <2>3. QED
    BY <2>2 DEF ToSet
<1> HIDE DEF Waiting
<1>5. \A d \in D : /\ Pending(d) = Count(events, d) /\ Pending(d)' = 0
                   /\ Pending(d) \in Nat
  <2>1. \A d \in D : /\ Pending(d) = Count(<< >>, d) + Count(events, d)
                     /\ Pending(d)' = Count(<< >>, d) + Count(<< >>, d)
    BY <1>1, <1>2 DEF Pending, Count, Positions
  <2>2. \A d \in D : Count(events, d) \in Nat
    BY <1>0, PendingType
  <2>3. QED
    BY <2>1, <2>2, CountEmpty
<1>6. \A d \in D : stage[d] \in {"none", "done"}
  <2>1. ToSet(backlog) = {}
    BY <1>2 DEF ToSet
  <2>2. \A d \in D : stage[d] # "queued"
    BY <1>0, <2>1 DEF BacklogIsQueued
  <2>3. \A d \in D : stage[d] \in Stage
    BY <1>0 DEF TypeOK
  <2>4. QED
    BY <1>2, <2>2, <2>3 DEF InPool, Stage
<1>7. ASSUME NEW d \in D
      PROVE  /\ shared'[d] \in Task
             /\ Progress(d)' /\ Settling(d)' /\ Freed(d)' /\ Counted(d)'
  <2>1. Progress(d) /\ Settling(d) /\ Freed(d) /\ Counted(d)
    BY <1>0 DEF Deferreds
  <2>2. shared[d] \in Task
    BY <1>0, TaskType
  <2>3. CASE d \in Waiting
    <3> DEFINE t == [FreeResult(FreeFunc(shared[d])) EXCEPT !.refs = 0]
    <3>1. shared'[d] = t
      BY <1>1, <2>3
    <3>2. Pending(d) # 0 /\ Pending(d) > 0
      BY <1>4, <1>5, <2>3
    <3>3. Posted(d) > 0 /\ stage[d] = "done"
      <4>1. Posted(d) > 0
        BY <1>0, <2>1, <3>2, Budget
      <4>2. stage[d] = "none" => Posted(d) = 0
        BY DEF Posted
      <4>3. QED
        BY <1>6, <4>1, <4>2
    <3>4. shared[d].refs > 0
      BY <2>1, <3>2, <3>3 DEF Counted
    <3>5. /\ shared[d].funcFrees = IF object[d] = "finalized" THEN 1 ELSE 0
          /\ shared[d].funcFrees \in 0..1
          /\ shared[d].result => shared[d].resultFrees = 0
      BY <2>1, <3>4 DEF Freed
    <3>6. /\ t \in Task /\ t.refs = 0 /\ t.hasError = shared[d].hasError
          /\ t.funcFrees = shared[d].funcFrees + 1 /\ t.result = FALSE
      BY <2>2, <3>5, LastReference
    <3> HIDE DEF t
    <3>7. Progress(d)'
      BY <1>1, <2>1, <3>1, <3>3, <3>6 DEF Progress
    <3>8. Counted(d)'
      BY <1>1, <1>5, <3>1, <3>3, <3>6 DEF Counted
    <3>9. Freed(d)'
      BY <1>1, <3>1, <3>3, <3>5, <3>6 DEF Freed
    <3>10. Settling(d)'
      BY <1>0, <1>1, <1>5, <2>1, SettlingLess
    <3>11. QED
      BY <3>1, <3>6, <3>7, <3>8, <3>9, <3>10
  <2>4. CASE d \notin Waiting
    <3>1. shared'[d] = shared[d] /\ Pending(d) = 0
      BY <1>1, <1>4, <1>5, <2>4
    <3>2. UNCHANGED Of(d)
      BY <1>1, <1>5, <3>1 DEF Of
    <3>3. QED
      BY <2>1, <2>2, <3>1, <3>2, Untouched
  <2>5. QED
    BY <2>3, <2>4
<1>8. TypeOK'
  <2>1. shared' \in [D -> Task]
    BY <1>1, <1>7
  <2>2. QED
    BY <1>0, <1>1, <1>3, <2>1 DEF TypeOK, Phase
<1>9. Deferreds'
  BY <1>7 DEF Deferreds
<1>10. CallbacksFit'
  BY <1>0, <1>1 DEF CallbacksFit
<1>11. BacklogIsQueued' /\ MainInOrder'
  BY <1>0, <1>1 DEF BacklogIsQueued, MainInOrder, InPool
<1>12. QED
  BY <1>8, <1>9, <1>10, <1>11 DEF IInv

-----------------------------------------------------------------------------
(* The theorems. *)

\* Every step of the specification keeps the inductive invariant.
LEMMA StepIInv == IInv /\ [Next]_vars => IInv'
<1>1. SUFFICES ASSUME IInv, [Next]_vars PROVE IInv'
  OBVIOUS
<1>2. CASE UNCHANGED vars
  <2>0. TypeOK /\ Deferreds /\ CallbacksFit /\ BacklogIsQueued /\ MainInOrder
    BY <1>1 DEF IInv
  <2>1. UNCHANGED <<phase, batch, runtime, backlog, stage, outcome, object,
                    private, shared, events, calls, lateFree, crashed>>
    BY <1>2 DEF vars, mainVars, workerVars
  <2>2. TypeOK' /\ CallbacksFit' /\ BacklogIsQueued' /\ MainInOrder'
    BY <2>0, <2>1 DEF TypeOK, CallbacksFit, BacklogIsQueued, MainInOrder, InPool
  <2>3. \A c \in D : UNCHANGED Of(c)
    BY <2>1, PendingSame DEF Of
  <2>4. Deferreds'
    BY <2>0, <2>3, Untouched DEF Deferreds
  <2>5. QED
    BY <2>2, <2>4 DEF IInv
<1>3. ASSUME NEW d \in D,
             Construct(d) \/ Then(d) \/ Drop(d) \/ WorkerStep(d)
      PROVE  IInv'
  BY <1>1, <1>3, ConstructStep, ThenStep, DropStep, DeserializeStep, ExecuteStep,
     PostSettleStep, EndTaskStep DEF WorkerStep
<1>4. CASE MainStep
  BY <1>1, <1>4, MainMoves, SwapStep, RunCallbackStep, FreeRuntimeStep, ExitStep
     DEF MainStep
<1>5. QED
  BY <1>1, <1>2, <1>3, <1>4, StartTaskStep, MainMoves DEF Next

\* The inductive invariant holds in every reachable state, whatever the set of
\* deferreds and the size of the pool.
THEOREM Invariance == Spec => []IInv
<1>1. QED
  BY InitIInv, StepIInv, PTL DEF Spec

\* Every variable keeps the values the code can give it: in particular no more
\* than three references are ever held, and no buffer is freed a third time.
THEOREM TypeCorrect == Spec => []TypeOK
<1>1. IInv => TypeOK
  BY DEF IInv
<1>2. QED
  BY <1>1, Invariance, PTL

\* A deferred is resolved only if its function returned and rejected only if it
\* threw or could not be called, never both (Deferred.cpp:357-407).
THEOREM SettledAsEnded == Spec => []SettleMatchesOutcome
<1>1. ASSUME IInv PROVE SettleMatchesOutcome
  <2>1. \A d \in D : Settling(d) /\ calls[d].resolve \in Nat /\ calls[d].reject \in Nat
    BY <1>1, TaskType DEF IInv, Deferreds
  <2>2. \A d \in D :
            /\ calls[d].resolve > 0 => outcome[d] \in {"value", "opaqueValue"}
            /\ calls[d].reject > 0 => outcome[d] \in Threw
    BY <2>1 DEF Settling
  <2>3. \A d \in D : calls[d].resolve > 0 => calls[d].reject = 0
    BY <2>1, <2>2 DEF Threw
  <2>4. QED
    BY <2>2, <2>3 DEF SettleMatchesOutcome, Threw
<1>2. QED
  BY <1>1, Invariance, PTL

\* No deferred is settled twice, except for an error that could not be serialized
\* (Deferred.cpp:306-319, 378-382).
THEOREM SettledOnce == Spec => []SettledOnceUnlessFallback
<1>1. ASSUME IInv PROVE SettledOnceUnlessFallback
  <2>1. SUFFICES ASSUME NEW d \in D
                 PROVE  calls[d].resolve + calls[d].reject <=
                            IF outcome[d] = "opaqueError" THEN 2 ELSE 1
    BY DEF SettledOnceUnlessFallback
  <2>2. TypeOK /\ Settling(d)
    BY <1>1 DEF IInv, Deferreds
  <2>3. /\ Pending(d) \in Nat
        /\ calls[d].resolve \in Nat /\ calls[d].reject \in Nat
        /\ Pending(d) + calls[d].resolve + calls[d].reject <= Posted(d)
        /\ Posted(d) \in 0..2
    BY <2>2, Budget
  <2>4. outcome[d] # "opaqueError" => Posted(d) <= 1
    BY DEF Posted
  <2>5. QED
    BY <2>3, <2>4
<1>2. QED
  BY <1>1, Invariance, PTL

\* The result of a deferred function is freed once and not left in a task that
\* has no reference (Deferred.cpp:410-414, Deferred.h:62).
THEOREM ResultFreed == Spec => []ResultFreedOnce
<1>1. ASSUME IInv PROVE ResultFreedOnce
  <2>1. \A d \in D : /\ Freed(d)
                     /\ shared[d].resultFrees \in 0..1 /\ shared[d].refs \in 0..3
    BY <1>1, TaskType DEF IInv, Deferreds
  <2>2. \A d \in D :
            shared[d].result => shared[d].resultFrees = 0 /\ shared[d].refs > 0
    BY <2>1 DEF Freed
  <2>3. QED
    BY <2>1, <2>2 DEF ResultFreedOnce
<1>2. QED
  BY <1>1, Invariance, PTL

\* The reference count of the shared task is exactly the pool task and the
\* callbacks that wait: it can neither leak nor be used after it is freed.
THEOREM ReferencesCounted == Spec => []RefsCounted
<1>1. ASSUME IInv PROVE RefsCounted
  <2>1. SUFFICES ASSUME NEW d \in D
                 PROVE  shared[d].refs =
                     (IF stage[d] \in {"none", "done"} THEN 0 ELSE 1) + Pending(d)
    BY DEF RefsCounted
  <2>2. Counted(d) /\ Pending(d) \in Nat
    BY <1>1, PendingType DEF IInv, Deferreds
  <2>3. CASE stage[d] \in {"none", "done"}
    BY <2>2, <2>3 DEF Counted
  <2>4. CASE stage[d] \notin {"none", "done"}
    BY <2>2, <2>4 DEF Counted
  <2>5. QED
    BY <2>3, <2>4
<1>2. QED
  BY <1>1, Invariance, PTL

\* Once the runtime is freed no worker is inside a deferred function and none is
\* queued, for every size of the pool (JSContext.cpp:50-55).
THEOREM NoLateWork == Spec => []NoWorkAfterRuntimeFreed
<1>1. ASSUME IInv PROVE NoWorkAfterRuntimeFreed
  BY <1>1 DEF IInv, MainInOrder, NoWorkAfterRuntimeFreed
<1>2. QED
  BY <1>1, Invariance, PTL

=============================================================================
