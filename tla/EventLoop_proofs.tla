--------------------------- MODULE EventLoop_proofs ---------------------------
(***************************************************************************)
(* Proofs about EventLoop for every set of producers and callbacks: every  *)
(* callback runs at most once and in the order of its push, and the loop   *)
(* never sleeps on a queued callback without a notification under way.     *)
(***************************************************************************)
EXTENDS EventLoop, SequenceTheorems, TLAPS

-----------------------------------------------------------------------------
(* Sequences of distinct callbacks. *)

\* A push of a new callback keeps the queue a sequence of distinct callbacks
\* (enqueueCallback, EventLoop.cpp:15).
LEMMA AppendNew ==
    ASSUME NEW S, NEW q \in Seq(S), NEW x \in S
    PROVE  /\ Append(q, x) \in Seq(S)
           /\ Append(q, x) # << >>
           /\ IsInjective(q) /\ x \notin ToSet(q) => IsInjective(Append(q, x))
<1>1. /\ Append(q, x) \in Seq(S)
      /\ Len(Append(q, x)) = Len(q) + 1
      /\ Append(q, x)[Len(q) + 1] = x
      /\ \A i \in 1..Len(q) : Append(q, x)[i] = q[i]
      /\ Len(q) \in Nat
      /\ DOMAIN q = 1..Len(q)
      /\ DOMAIN Append(q, x) = 1..(Len(q) + 1)
  BY AppendProperties, LenProperties
<1>2. Append(q, x) # << >>
  BY <1>1, EmptySeq
<1>3. IsInjective(q) /\ x \notin ToSet(q) => IsInjective(Append(q, x))
  BY <1>1 DEF IsInjective, ToSet
<1>4. QED
  BY <1>1, <1>2, <1>3

\* The beginning of a sequence of distinct callbacks has distinct callbacks:
\* what was executed is a beginning of what was pushed.
LEMMA PrefixInjective ==
    ASSUME NEW S, NEW s \in Seq(S), NEW t \in Seq(S), NEW u \in Seq(S),
           IsInjective(s \o t \o u)
    PROVE  IsInjective(s)
<1>1. /\ s \o t \in Seq(S)
      /\ Len(s) \in Nat /\ Len(t) \in Nat /\ Len(u) \in Nat
      /\ Len(s \o t) = Len(s) + Len(t)
      /\ \A i \in 1..Len(s) : (s \o t)[i] = s[i]
      /\ DOMAIN s = 1..Len(s)
  BY ConcatProperties, LenProperties
<1>2. /\ \A i \in 1..(Len(s) + Len(t)) : (s \o t \o u)[i] = (s \o t)[i]
      /\ DOMAIN (s \o t \o u) = 1..(Len(s) + Len(t) + Len(u))
  BY <1>1, ConcatProperties, LenProperties
<1>3. \A i \in 1..Len(s) : /\ i \in 1..(Len(s) + Len(t) + Len(u))
                           /\ (s \o t \o u)[i] = s[i]
  BY <1>1, <1>2
<1>4. QED
  BY <1>1, <1>2, <1>3 DEF IsInjective

\* The callback that is executed moves from the front of the batch to the end
\* of what was executed (EventLoop.cpp:28-33).
LEMMA MoveHead ==
    ASSUME NEW S, NEW e \in Seq(S), NEW b \in Seq(S), b # << >>
    PROVE  /\ Head(b) \in S /\ Tail(b) \in Seq(S)
           /\ Append(e, Head(b)) \in Seq(S)
           /\ Append(e, Head(b)) \o Tail(b) = e \o b
BY HeadTailProperties, AppendProperties, ConcatProperties, LenProperties, SMTT(30)

-----------------------------------------------------------------------------
(* The invariant. *)

\* A new loop has an empty queue, no batch and nobody asleep (EventLoop.h:55-68).
LEMMA InitIInv == Init => IInv
<1>1. SUFFICES ASSUME Init PROVE IInv
  OBVIOUS
<1>2. IsInjective(<< >>) /\ << >> \in Seq(Callback)
  BY EmptySeq DEF IsInjective
<1>3. << >> \o << >> \o << >> = << >>
  BY <1>2, ConcatEmptySeq
<1>4. QED
  BY <1>1, <1>2, <1>3
     DEF Init, IInv, TypeOK, LoopPc, LoopPlace, FifoOnce, NoStrandedCallback

\* A push keeps the order: the new callback is last among those pushed and
\* last in the queue, whatever is executed meanwhile (EventLoop.cpp:15).
LEMMA PushKeepsOrder ==
    ASSUME TypeOK, FifoOnce, NEW c \in Callback, Push(c)
    PROVE  /\ callbackQueue' \in Seq(Callback)
           /\ pushed' \in Seq(Callback) /\ IsInjective(pushed')
           /\ executed \o batch \o callbackQueue' = pushed'
<1>1. /\ callbackQueue \in Seq(Callback) /\ batch \in Seq(Callback)
      /\ executed \in Seq(Callback) /\ pushed \in Seq(Callback)
      /\ IsInjective(pushed) /\ c \notin ToSet(pushed)
      /\ callbackQueue' = Append(callbackQueue, c)
      /\ pushed' = Append(pushed, c)
  BY DEF TypeOK, Push
<1>2. /\ callbackQueue' \in Seq(Callback)
      /\ pushed' \in Seq(Callback) /\ IsInjective(pushed')
  BY <1>1, AppendNew
<1>3. executed \o batch \in Seq(Callback)
  BY <1>1, ConcatProperties
<1>4. (executed \o batch) \o Append(callbackQueue, c)
         = Append((executed \o batch) \o callbackQueue, c)
  BY <1>1, <1>3, AppendIsConcat, ConcatAssociative, ConcatProperties
<1>5. QED
  BY <1>1, <1>2, <1>4 DEF FifoOnce

\* Every step keeps what was executed, what the batch holds and what is queued,
\* in this order, equal to what was pushed, and keeps the types.
LEMMA OrderStep ==
    ASSUME IInv, [Next]_vars
    PROVE  TypeOK' /\ FifoOnce'
<1> USE DEF LoopPc
<1>1. TypeOK /\ FifoOnce /\ LoopPlace
  BY DEF IInv
<1>2. ASSUME NEW p \in Producer, NEW c \in Callback, Enqueue(p, c)
      PROVE  TypeOK' /\ FifoOnce'
  <2>1. Push(c) /\ UNCHANGED <<batch, running, asleep, loopPc, inRun,
                               stopperPc, executed>>
        /\ producerPc' = [producerPc EXCEPT ![p] = "notify"]
    BY <1>2 DEF Enqueue
  <2>2. QED
    BY <1>1, <2>1, PushKeepsOrder DEF TypeOK, FifoOnce
<1>3. ASSUME Swap
      PROVE  TypeOK' /\ FifoOnce'
  <2>1. batch = << >>
    BY <1>1, <1>3 DEF Swap, LoopPlace
  <2>2. /\ batch' = callbackQueue /\ callbackQueue' = << >>
        /\ executed \in Seq(Callback) /\ callbackQueue \in Seq(Callback)
        /\ << >> \in Seq(Callback)
        /\ UNCHANGED <<executed, pushed>>
    BY <1>1, <1>3, EmptySeq DEF Swap, TypeOK
  <2>3. executed \o << >> \o callbackQueue = executed \o callbackQueue \o << >>
    BY <2>2, ConcatEmptySeq, ConcatProperties
  <2>4. FifoOnce'
    BY <1>1, <2>1, <2>2, <2>3 DEF FifoOnce
  <2>5. TypeOK'
    BY <1>1, <1>3, <2>2 DEF Swap, TypeOK
  <2>6. QED
    BY <2>4, <2>5
<1>4. ASSUME Execute
      PROVE  TypeOK' /\ FifoOnce'
  <2>1. /\ batch # << >> /\ batch \in Seq(Callback)
        /\ executed \in Seq(Callback) /\ callbackQueue \in Seq(Callback)
        /\ executed' = Append(executed, Head(batch)) /\ batch' = Tail(batch)
    BY <1>1, <1>4 DEF Execute, TypeOK
  <2>2. /\ batch' \in Seq(Callback) /\ executed' \in Seq(Callback)
        /\ executed' \o batch' = executed \o batch
    BY <2>1, MoveHead
  <2>3. /\ callbackQueue' \in Seq(Callback)
        /\ pushed' \in Seq(Callback) /\ IsInjective(pushed')
        /\ executed \o batch \o callbackQueue' = pushed'
    <3>1. CASE UNCHANGED <<callbackQueue, pushed>>
      BY <1>1, <3>1 DEF TypeOK, FifoOnce
    <3>2. CASE \E c \in Callback : Push(c)
      BY <1>1, <3>2, PushKeepsOrder
    <3>3. QED
      BY <1>4, <3>1, <3>2 DEF Execute
  <2>4. FifoOnce'
    BY <2>2, <2>3 DEF FifoOnce
  <2>5. IsInjective(executed')
    BY <2>2, <2>3, PrefixInjective
  <2>6. TypeOK'
    BY <1>1, <1>4, <2>2, <2>3, <2>5 DEF Execute, TypeOK
  <2>7. QED
    BY <2>4, <2>6
<1>5. ASSUME \/ \E p \in Producer : NotifyOne(p)
             \/ CallProcess \/ CallRun \/ BatchDone \/ Begin \/ While
             \/ CheckFalse \/ CheckTrue \/ Sleep \/ Stop \/ StopNotify
             \/ SpuriousWakeup \/ UNCHANGED vars
      PROVE  TypeOK' /\ FifoOnce'
  <2>1. UNCHANGED <<callbackQueue, batch, executed, pushed>>
    BY <1>5 DEF NotifyOne, CallProcess, CallRun, BatchDone, Begin, While,
                CheckFalse, CheckTrue, Sleep, Stop, StopNotify, SpuriousWakeup,
                vars
  <2>2. /\ running' \in BOOLEAN /\ asleep' \in BOOLEAN /\ loopPc' \in LoopPc
        /\ inRun' \in BOOLEAN /\ stopperPc' \in {"idle", "notify"}
        /\ producerPc' \in [Producer -> {"idle", "notify"}]
    BY <1>1, <1>5 DEF TypeOK, NotifyOne, CallProcess, CallRun, BatchDone,
                Begin, While, AtCheck, CheckFalse, CheckTrue, Sleep, Stop,
                StopNotify, SpuriousWakeup, vars
  <2>3. QED
    BY <1>1, <2>1, <2>2 DEF TypeOK, FifoOnce
<1>6. QED
  BY <1>2, <1>3, <1>4, <1>5 DEF Next, LoopStep

\* The loop sleeps only in condition.wait and goes there with an empty queue,
\* because nobody pushes between the predicate and the sleep (EventLoop.cpp:49);
\* a push leaves its producer with a notification to send.
LEMMA SleepStep ==
    ASSUME IInv, [Next]_vars
    PROVE  LoopPlace' /\ NoStrandedCallback'
<1> USE DEF LoopPc
<1>1. TypeOK /\ LoopPlace /\ NoStrandedCallback
  BY DEF IInv
<1>2. ASSUME NEW p \in Producer, NEW c \in Callback, Enqueue(p, c)
      PROVE  LoopPlace' /\ NoStrandedCallback'
  <2>1. LoopPlace'
    BY <1>1, <1>2 DEF Enqueue, Push, MutexFree, LoopPlace
  <2>2. producerPc'[p] = "notify"
    BY <1>1, <1>2 DEF Enqueue, TypeOK
  <2>3. QED
    BY <2>1, <2>2 DEF NoStrandedCallback
<1>3. ASSUME NEW p \in Producer, NotifyOne(p)
      PROVE  LoopPlace' /\ NoStrandedCallback'
  BY <1>1, <1>3 DEF NotifyOne, LoopPlace, NoStrandedCallback
<1>4. ASSUME CallProcess \/ CallRun \/ Begin \/ While \/ CheckTrue
      PROVE  LoopPlace' /\ NoStrandedCallback'
  <2>1. ~asleep /\ loopPc # "batch" /\ loopPc # "sleep"
    BY <1>1, <1>4 DEF CallProcess, CallRun, Begin, While, AtCheck, CheckTrue,
                      LoopPlace
  <2>2. batch = << >> /\ UNCHANGED <<batch, asleep>> /\ loopPc' # "sleep"
    BY <1>1, <1>4, <2>1 DEF CallProcess, CallRun, Begin, While, CheckTrue,
                            LoopPlace
  <2>3. QED
    BY <2>1, <2>2 DEF LoopPlace, NoStrandedCallback
<1>5. ASSUME Swap \/ Execute \/ BatchDone
      PROVE  LoopPlace' /\ NoStrandedCallback'
  <2>1. ~asleep /\ UNCHANGED asleep /\ loopPc' # "sleep"
    BY <1>1, <1>5 DEF Swap, Execute, BatchDone, LoopPlace
  <2>2. batch' # << >> => loopPc' = "batch"
    BY <1>5 DEF Swap, Execute, BatchDone
  <2>3. QED
    BY <2>1, <2>2 DEF LoopPlace, NoStrandedCallback
<1>6. ASSUME CheckFalse
      PROVE  LoopPlace' /\ NoStrandedCallback'
  BY <1>1, <1>6 DEF CheckFalse, AtCheck, LoopPlace, NoStrandedCallback
<1>7. ASSUME Sleep
      PROVE  LoopPlace' /\ NoStrandedCallback'
  BY <1>1, <1>7 DEF Sleep, LoopPlace, NoStrandedCallback
<1>8. ASSUME Stop \/ StopNotify \/ SpuriousWakeup \/ UNCHANGED vars
      PROVE  LoopPlace' /\ NoStrandedCallback'
  BY <1>1, <1>8 DEF Stop, StopNotify, SpuriousWakeup, vars, LoopPlace,
                    NoStrandedCallback
<1>9. QED
  BY <1>2, <1>3, <1>4, <1>5, <1>6, <1>7, <1>8 DEF Next, LoopStep

-----------------------------------------------------------------------------
(* The theorems. *)

\* The inductive invariant holds in every reachable state.
THEOREM Invariance == Spec => []IInv
<1>1. IInv /\ [Next]_vars => IInv'
  BY OrderStep, SleepStep DEF IInv
<1>2. QED
  BY InitIInv, <1>1, PTL DEF Spec

\* The loop's variables keep their types, and no callback is pushed or executed
\* twice (EventLoop.h:55-68).
THEOREM TypeCorrect == Spec => []TypeOK
<1>1. IInv => TypeOK
  BY DEF IInv
<1>2. QED
  BY <1>1, Invariance, PTL

\* For any number of producers and callbacks, what was executed, followed by the
\* rest of the batch and the queue, is what was pushed (EventLoop.cpp:20-41).
THEOREM ExecutedInOrder == Spec => []FifoOnce
<1>1. IInv => FifoOnce
  BY DEF IInv
<1>2. QED
  BY <1>1, Invariance, PTL

\* The loop never sleeps on a queued callback that nobody is about to announce
\* (EventLoop.cpp:17, 49-51).
THEOREM NoLostCallbackWakeup == Spec => []NoStrandedCallback
<1>1. IInv => NoStrandedCallback
  BY DEF IInv
<1>2. QED
  BY <1>1, Invariance, PTL
=============================================================================
