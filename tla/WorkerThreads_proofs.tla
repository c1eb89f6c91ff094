------------------------ MODULE WorkerThreads_proofs -------------------------
(***************************************************************************)
(* Proofs about WorkerThreads for every set of workers and any number of   *)
(* messages: every event a worker's thread reports is delivered once and   *)
(* in order, however the threads interleave with the loop of the main      *)
(* thread, and a posted message finds the context of its worker live.      *)
(***************************************************************************)
EXTENDS WorkerThreads, SequenceTheorems, TLAPS

-----------------------------------------------------------------------------
(* The inductive invariant. *)

\* A worker has a context from its creation on and never loses the pointer; it
\* frees the context only if its file is missing; it is entered only then.
Contexts ==
    \A w \in Worker :
        /\ thread[w] \in {"none", "started"} => context[w] = "null"
        /\ InContext(w) => context[w] = "live"
        /\ thread[w] = "failed" => script[w] = "throws"
        /\ thread[w] = "cleanup" \/ context[w] = "freed" => script[w] = "missing"
        /\ inside = w => context[w] # "null"

\* The callback of a posted message finds a context, live or freed.
MessagesHaveContext ==
    \A e \in ToSet(Pending) : e.kind = "message" => context[e.worker] # "null"

\* Callbacks are taken only while they are run.
BatchInOrder == phase \notin {"process", "last"} => batch = << >>

IInv ==
    TypeOK /\ Contexts /\ BatchInOrder /\ ReportsMatchThread /\ MessagesHaveContext

-----------------------------------------------------------------------------
(* The events of a worker in a queue. *)

\* Whether callback e carries an event of worker w.
Carries(e, w) == e.worker = w /\ e.kind \in Event

\* Where an event of the report waits, as Reports says it.
Places(w, n, q, s, at) ==
    /\ at \in [n+1..Len(s) -> DOMAIN q]
    /\ \A i, j \in n+1..Len(s) : i < j => at[i] < at[j]
    /\ \A i \in n+1..Len(s) : q[at[i]] = [kind |-> s[i], worker |-> w]
    /\ \A p \in DOMAIN q : Carries(q[p], w) => \E i \in n+1..Len(s) : at[i] = p

\* Reports with its places named.
LEMMA ReportsPlaces ==
    ASSUME NEW w, NEW done, NEW q, NEW s
    PROVE  Reports(w, done, q, s) <=>
              /\ Len(done) <= Len(s)
              /\ \A i \in 1..Len(done) : done[i] = s[i]
              /\ \E at : Places(w, Len(done), q, s, at)
BY DEF Reports, Places, Carries

\* A worker that reported nothing has nothing waiting, and the other way round.
LEMMA ReportsNothing ==
    ASSUME NEW w, NEW q \in Seq(Callback), \A p \in DOMAIN q : ~Carries(q[p], w)
    PROVE  Reports(w, << >>, q, << >>)
<1> DEFINE at == [i \in {} |-> i]
<1>1. Len(<< >>) = 0 /\ 0+1..0 = {} /\ 1..0 = {}
  OBVIOUS
<1>2. Places(w, 0, q, << >>, at)
  BY <1>1 DEF Places
<1>3. QED
  BY <1>1, <1>2, ReportsPlaces

\* enqueueCallback with anything else leaves the report of w as it is.
LEMMA ReportsAppendOther ==
    ASSUME NEW w, NEW done \in Seq(Event), NEW s \in Seq(Event),
           NEW q \in Seq(Callback), NEW e \in Callback,
           Reports(w, done, q, s), ~Carries(e, w)
    PROVE  Reports(w, done, Append(q, e), s)
<1>1. /\ Len(q) \in Nat /\ DOMAIN q = 1..Len(q)
      /\ DOMAIN Append(q, e) = 1..(Len(q) + 1)
      /\ Append(q, e)[Len(q) + 1] = e
      /\ \A i \in 1..Len(q) : Append(q, e)[i] = q[i]
      /\ Len(done) \in Nat /\ Len(s) \in Nat
  BY AppendProperties, LenProperties
<1>2. PICK at : Places(w, Len(done), q, s, at)
  BY ReportsPlaces
<1> DEFINE r == Append(q, e)
           I == Len(done)+1..Len(s)
<1>3. Places(w, Len(done), r, s, at)
  <2> HIDE DEF r, I
  <2>1. /\ at \in [I -> 1..Len(q)]
        /\ \A i, j \in I : i < j => at[i] < at[j]
        /\ \A i \in I : q[at[i]] = [kind |-> s[i], worker |-> w]
        /\ \A p \in 1..Len(q) : Carries(q[p], w) => \E i \in I : at[i] = p
    BY <1>1, <1>2 DEF Places, I
  <2>2. /\ DOMAIN r = 1..(Len(q) + 1) /\ r[Len(q) + 1] = e
        /\ \A i \in 1..Len(q) : r[i] = q[i]
    BY <1>1 DEF r
  <2>3. at \in [I -> DOMAIN r] /\ \A i \in I : r[at[i]] = q[at[i]]
    BY <1>1, <2>1, <2>2
  <2>4. \A p \in DOMAIN r : p = Len(q) + 1 \/ p \in 1..Len(q)
    BY <1>1, <2>2
  <2>5. \A p \in DOMAIN r : Carries(r[p], w) => \E i \in I : at[i] = p
    BY <2>1, <2>2, <2>4
  <2>6. QED
    BY <2>1, <2>3, <2>5 DEF Places, I
<1>4. QED
  BY <1>3, ReportsPlaces

\* enqueueCallback with an event of w makes it the last of the report.
LEMMA ReportsAppendOwn ==
    ASSUME NEW w \in Worker, NEW done \in Seq(Event), NEW s \in Seq(Event),
           NEW q \in Seq(Callback), NEW k \in Event, Reports(w, done, q, s)
    PROVE  Reports(w, done, Append(q, [kind |-> k, worker |-> w]), Append(s, k))
<1> DEFINE e == [kind |-> k, worker |-> w]
           n == Len(done)
           r == Append(q, e)
           t == Append(s, k)
<1>1. /\ Len(q) \in Nat /\ DOMAIN q = 1..Len(q)
      /\ DOMAIN r = 1..(Len(q) + 1)
      /\ r[Len(q) + 1] = e
      /\ \A i \in 1..Len(q) : r[i] = q[i]
  BY AppendProperties, LenProperties DEF Callback
<1>2. /\ n \in Nat /\ Len(s) \in Nat /\ Len(t) = Len(s) + 1
      /\ t[Len(s) + 1] = k
      /\ \A i \in 1..Len(s) : t[i] = s[i]
  BY AppendProperties, LenProperties
<1>3. n <= Len(s) /\ \A i \in 1..n : done[i] = s[i]
  BY ReportsPlaces
<1>4. PICK at : Places(w, n, q, s, at)
  BY ReportsPlaces
<1> DEFINE bt == [i \in n+1..Len(s)+1 |-> IF i <= Len(s) THEN at[i] ELSE Len(q) + 1]
<1> HIDE DEF r, t, n, e
<1>5. /\ at \in [n+1..Len(s) -> 1..Len(q)]
      /\ \A i, j \in n+1..Len(s) : i < j => at[i] < at[j]
      /\ \A i \in n+1..Len(s) : q[at[i]] = [kind |-> s[i], worker |-> w]
      /\ \A p \in DOMAIN q : Carries(q[p], w) => \E i \in n+1..Len(s) : at[i] = p
  BY <1>1, <1>4 DEF Places
<1>6. /\ bt \in [n+1..Len(t) -> DOMAIN r]
      /\ \A i \in n+1..Len(s) : bt[i] = at[i] /\ bt[i] \in 1..Len(q)
      /\ Len(s) + 1 \in n+1..Len(t) /\ bt[Len(s) + 1] = Len(q) + 1
      /\ \A i \in n+1..Len(t) : i \in n+1..Len(s) \/ i = Len(s) + 1
      /\ \A i \in n+1..Len(s) : i \in n+1..Len(t) /\ i < Len(s) + 1
  <2>1. /\ Len(s) + 1 \in n+1..Len(t) /\ n+1..Len(t) = n+1..Len(s)+1
        /\ \A i \in n+1..Len(t) : i \in n+1..Len(s) \/ i = Len(s) + 1
        /\ \A i \in n+1..Len(s) : i \in n+1..Len(t) /\ i < Len(s) + 1 /\ i <= Len(s)
        /\ ~(Len(s) + 1 <= Len(s))
    BY <1>2, <1>3
  <2>2. \A i \in n+1..Len(s) : bt[i] = at[i] /\ bt[i] \in 1..Len(q)
    BY <1>5, <2>1
  <2>3. bt[Len(s) + 1] = Len(q) + 1
    BY <2>1
  <2>4. 1..Len(q) \subseteq DOMAIN r /\ Len(q) + 1 \in DOMAIN r
    BY <1>1
  <2>5. \A i \in n+1..Len(t) : bt[i] \in DOMAIN r
    BY <2>1, <2>2, <2>3, <2>4
  <2>6. bt \in [n+1..Len(t) -> DOMAIN r]
    BY <2>1, <2>5
  <2>7. QED
    BY <2>1, <2>2, <2>3, <2>6
<1> HIDE DEF bt
<1>7. \A i, j \in n+1..Len(t) : i < j => bt[i] < bt[j]
  <2>1. \A i, j \in n+1..Len(s) : i < j => bt[i] < bt[j]
    BY <1>5, <1>6
  <2>2. \A i \in n+1..Len(s) : bt[i] < bt[Len(s) + 1]
    BY <1>1, <1>6
  <2>3. \A i \in n+1..Len(s) : ~(Len(s) + 1 < i)
    BY <1>2, <1>6
  <2>4. ~(Len(s) + 1 < Len(s) + 1)
    BY <1>2
  <2>5. QED
    BY <1>6, <2>1, <2>2, <2>3, <2>4
<1>8. \A i \in n+1..Len(t) : r[bt[i]] = [kind |-> t[i], worker |-> w]
  BY SMTT(30), <1>1, <1>2, <1>3, <1>5, <1>6 DEF e
<1>9. \A p \in DOMAIN r : Carries(r[p], w) => \E i \in n+1..Len(t) : bt[i] = p
  <2>1. \A p \in DOMAIN r : p = Len(q) + 1 \/ (p \in DOMAIN q /\ r[p] = q[p])
    BY <1>1
  <2>2. QED
    BY <1>5, <1>6, <2>1
<1>10. Places(w, n, r, t, bt)
  BY <1>6, <1>7, <1>8, <1>9 DEF Places
<1>11. n <= Len(t) /\ \A i \in 1..n : done[i] = t[i]
  BY <1>2, <1>3
<1>12. QED
  BY <1>10, <1>11, ReportsPlaces DEF n, r, t, e

\* Taking a callback that is no event of w off the queue moves the others up.
LEMMA ReportsTailOther ==
    ASSUME NEW w, NEW done \in Seq(Event), NEW s \in Seq(Event),
           NEW q \in Seq(Callback), q # << >>,
           Reports(w, done, q, s), ~Carries(Head(q), w), w \in Worker
    PROVE  Reports(w, done, Tail(q), s)
<1> DEFINE n == Len(done)
           r == Tail(q)
<1>1. /\ Len(q) \in Nat \ {0} /\ DOMAIN q = 1..Len(q) /\ Head(q) = q[1]
      /\ DOMAIN r = 1..(Len(q) - 1)
      /\ \A i \in 1..(Len(q) - 1) : r[i] = q[i + 1]
      /\ n \in Nat /\ Len(s) \in Nat
  BY HeadTailProperties, LenProperties, EmptySeq
<1>2. PICK at : Places(w, n, q, s, at)
  BY ReportsPlaces
<1> DEFINE bt == [i \in n+1..Len(s) |-> at[i] - 1]
<1> HIDE DEF n, r
<1>3. /\ at \in [n+1..Len(s) -> 1..Len(q)]
      /\ \A i, j \in n+1..Len(s) : i < j => at[i] < at[j]
      /\ \A i \in n+1..Len(s) : q[at[i]] = [kind |-> s[i], worker |-> w]
      /\ \A p \in DOMAIN q : Carries(q[p], w) => \E i \in n+1..Len(s) : at[i] = p
  BY <1>1, <1>2 DEF Places
<1>4. \A i \in n+1..Len(s) : s[i] \in Event
  <2>1. \A i \in n+1..Len(s) : i \in 1..Len(s)
    BY <1>1
  <2>2. QED
    BY <2>1, ElementOfSeq
<1>5. \A i \in n+1..Len(s) : Carries(q[at[i]], w)
  <2>1. \A k \in Event : Carries([kind |-> k, worker |-> w], w)
    BY DEF Carries
  <2>2. QED
    BY <1>3, <1>4, <2>1
<1>6. \A i \in n+1..Len(s) : at[i] # 1
  BY <1>1, <1>5
<1>7. /\ bt \in [n+1..Len(s) -> DOMAIN r]
      /\ \A i \in n+1..Len(s) : bt[i] = at[i] - 1 /\ r[bt[i]] = q[at[i]]
  <2>1. \A i \in n+1..Len(s) :
            at[i] - 1 \in 1..(Len(q) - 1) /\ at[i] - 1 + 1 = at[i]
    <3>1. \A i \in n+1..Len(s) : at[i] \in 1..Len(q) /\ at[i] # 1
      BY <1>3, <1>6
    <3>2. \A x \in 1..Len(q) : x # 1 => x - 1 \in 1..(Len(q) - 1) /\ x - 1 + 1 = x
      BY <1>1
    <3>3. QED
      BY <3>1, <3>2
  <2>2. QED
    BY <1>1, <2>1
<1> HIDE DEF bt
<1>8. \A i, j \in n+1..Len(s) : i < j => bt[i] < bt[j]
  BY <1>3, <1>7
<1>9. \A p \in DOMAIN r : Carries(r[p], w) => \E i \in n+1..Len(s) : bt[i] = p
  <2>1. SUFFICES ASSUME NEW p \in DOMAIN r, Carries(r[p], w)
                 PROVE  \E i \in n+1..Len(s) : bt[i] = p
    OBVIOUS
  <2>2. p \in Nat /\ p + 1 \in DOMAIN q /\ r[p] = q[p + 1]
    BY <1>1
  <2>3. PICK i \in n+1..Len(s) : at[i] = p + 1
    BY <1>3, <2>1, <2>2
  <2>4. QED
    BY <1>7, <2>2, <2>3
<1>10. Places(w, n, r, s, bt)
  BY <1>3, <1>7, <1>8, <1>9 DEF Places
<1>11. QED
  BY <1>10, ReportsPlaces DEF n, r

\* Taking an event of w off the queue: it is the next one of the report.
LEMMA ReportsTailOwn ==
    ASSUME NEW w \in Worker, NEW done \in Seq(Event), NEW s \in Seq(Event),
           NEW q \in Seq(Callback), q # << >>,
           Reports(w, done, q, s), Carries(Head(q), w)
    PROVE  Reports(w, Append(done, Head(q).kind), Tail(q), s)
<1> DEFINE n == Len(done)
           r == Tail(q)
           f == Append(done, Head(q).kind)
<1>1. /\ Len(q) \in Nat \ {0} /\ DOMAIN q = 1..Len(q) /\ Head(q) = q[1]
      /\ DOMAIN r = 1..(Len(q) - 1)
      /\ \A i \in 1..(Len(q) - 1) : r[i] = q[i + 1]
      /\ n \in Nat /\ Len(s) \in Nat
  BY HeadTailProperties, LenProperties, EmptySeq
<1>2. /\ Len(f) = n + 1 /\ f[n + 1] = Head(q).kind
      /\ \A i \in 1..n : f[i] = done[i]
  BY AppendProperties DEF Carries
<1>3. n <= Len(s) /\ \A i \in 1..n : done[i] = s[i]
  BY ReportsPlaces
<1>4. PICK at : Places(w, n, q, s, at)
  BY ReportsPlaces
<1> DEFINE bt == [i \in n+2..Len(s) |-> at[i] - 1]
<1> HIDE DEF n, r, f
<1>5. /\ at \in [n+1..Len(s) -> 1..Len(q)]
      /\ \A i, j \in n+1..Len(s) : i < j => at[i] < at[j]
      /\ \A i \in n+1..Len(s) : q[at[i]] = [kind |-> s[i], worker |-> w]
      /\ \A p \in DOMAIN q : Carries(q[p], w) => \E i \in n+1..Len(s) : at[i] = p
  BY <1>1, <1>4 DEF Places
<1>6. n + 1 \in n+1..Len(s) /\ at[n + 1] = 1
  <2>1. PICK i \in n+1..Len(s) : at[i] = 1
    BY SMTT(30), <1>1, <1>5
  <2>2. n + 1 \in n+1..Len(s) /\ at[n + 1] \in 1..Len(q)
    BY <1>1, <1>5, <2>1
  <2>3. i = n + 1
    BY <1>1, <1>5, <2>1, <2>2
  <2>4. QED
    BY <2>1, <2>2, <2>3
<1>7. s[n + 1] = Head(q).kind
  <2>1. q[1] = [kind |-> s[n + 1], worker |-> w]
    BY <1>5, <1>6
  <2>2. [kind |-> s[n + 1], worker |-> w].kind = s[n + 1]
    OBVIOUS
  <2>3. QED
    BY <1>1, <2>1, <2>2
<1>8. Len(f) <= Len(s) /\ \A i \in 1..Len(f) : f[i] = s[i]
  <2>1. /\ n + 1 <= Len(s)
        /\ \A i \in 1..(n + 1) : i \in 1..n \/ i = n + 1
    BY <1>1, <1>6
  <2>2. \A i \in 1..n : f[i] = s[i]
    BY <1>2, <1>3
  <2>3. f[n + 1] = s[n + 1]
    BY <1>2, <1>7
  <2>4. QED
    BY <1>2, <2>1, <2>2, <2>3
<1>9. /\ \A i \in n+2..Len(s) : i \in n+1..Len(s) /\ n + 1 < i
      /\ \A i \in n+1..Len(s) : i = n + 1 \/ i \in n+2..Len(s)
      /\ n + 1 + 1 = n + 2
  BY <1>1
<1>10. /\ bt \in [n+2..Len(s) -> DOMAIN r]
       /\ \A i \in n+2..Len(s) : bt[i] = at[i] - 1 /\ r[bt[i]] = q[at[i]]
  <2>1. \A i \in n+2..Len(s) : at[i] \in 1..Len(q) /\ 1 < at[i]
    BY <1>5, <1>6, <1>9
  <2>2. QED
    BY <1>1, <2>1
<1> HIDE DEF bt
<1>11. \A i, j \in n+2..Len(s) : i < j => bt[i] < bt[j]
  <2>1. \A i \in n+2..Len(s) : i \in n+1..Len(s) /\ at[i] \in 1..Len(q)
    BY <1>5, <1>9
  <2>2. \A i, j \in n+2..Len(s) : i < j => at[i] < at[j]
    BY <1>5, <2>1
  <2>3. \A i, j \in n+2..Len(s) : at[i] < at[j] => at[i] - 1 < at[j] - 1
    BY <1>1, <2>1
  <2>4. QED
    BY <1>10, <2>2, <2>3
<1>12. \A p \in DOMAIN r : Carries(r[p], w) => \E i \in n+2..Len(s) : bt[i] = p
  <2>1. SUFFICES ASSUME NEW p \in DOMAIN r, Carries(r[p], w)
                 PROVE  \E i \in n+2..Len(s) : bt[i] = p
    OBVIOUS
  <2>2. p \in Nat \ {0} /\ p + 1 \in DOMAIN q /\ r[p] = q[p + 1] /\ p + 1 # 1
    BY <1>1
  <2>3. PICK i \in n+1..Len(s) : at[i] = p + 1
    BY <1>5, <2>1, <2>2
  <2>4. i \in n+2..Len(s)
    BY <1>6, <1>9, <2>2, <2>3
  <2>5. QED
    BY <1>10, <2>2, <2>3, <2>4
<1>13. Places(w, n + 1, r, s, bt)
  BY <1>5, <1>9, <1>10, <1>11, <1>12 DEF Places
<1>14. QED
  BY <1>2, <1>8, <1>13, ReportsPlaces DEF n, r, f

-----------------------------------------------------------------------------
(* The callbacks that wait, and what is expected of a worker. *)

\* The callbacks that wait are a queue of callbacks.
LEMMA PendingType ==
    ASSUME TypeOK
    PROVE  /\ batch \in Seq(Callback) /\ queue \in Seq(Callback)
           /\ Pending \in Seq(Callback)
           /\ \A i \in DOMAIN Pending : Pending[i] \in Callback
<1>1. batch \in Seq(Callback) /\ queue \in Seq(Callback)
  BY DEF TypeOK
<1>2. Pending \in Seq(Callback)
  BY <1>1, ConcatProperties DEF Pending
<1>3. QED
  BY <1>1, <1>2, LenProperties, ElementOfSeq

\* A callback enters at the end (EventLoop.cpp:13-18).
LEMMA PendingAppend ==
    ASSUME TypeOK, NEW e \in Callback, queue' = Append(queue, e), UNCHANGED batch
    PROVE  Pending' = Append(Pending, e) /\ queue' \in Seq(Callback)
<1>1. batch \in Seq(Callback) /\ queue \in Seq(Callback)
  BY PendingType
<1>2. batch \o Append(queue, e) = Append(batch \o queue, e)
  <2>1. <<e>> \in Seq(Callback) /\ Append(queue, e) = queue \o <<e>>
    BY <1>1, AppendIsConcat
  <2>2. batch \o queue \in Seq(Callback)
    BY <1>1, ConcatProperties
  <2>3. Append(batch \o queue, e) = (batch \o queue) \o <<e>>
    BY <2>2, AppendIsConcat
  <2>4. QED
    BY <1>1, <2>1, <2>3, ConcatAssociative
<1>3. QED
  BY <1>1, <1>2, AppendProperties DEF Pending

\* A callback leaves at the front.
LEMMA PendingTail ==
    ASSUME TypeOK, batch # << >>, batch' = Tail(batch), UNCHANGED queue
    PROVE  /\ Pending # << >> /\ Head(Pending) = Head(batch)
           /\ Pending' = Tail(Pending) /\ batch' \in Seq(Callback)
           /\ Head(batch) \in Callback
<1>1. batch \in Seq(Callback) /\ queue \in Seq(Callback) /\ Pending \in Seq(Callback)
  BY PendingType
<1>2. /\ Len(batch) \in Nat \ {0} /\ Len(queue) \in Nat
      /\ Tail(batch) \in Seq(Callback) /\ Len(Tail(batch)) = Len(batch) - 1
      /\ \A i \in 1..(Len(batch) - 1) : Tail(batch)[i] = batch[i + 1]
      /\ Head(batch) \in Callback /\ Head(batch) = batch[1]
  BY <1>1, HeadTailProperties, LenProperties, EmptySeq
<1>3. /\ Len(Pending) = Len(batch) + Len(queue)
      /\ \A i \in 1..Len(batch) + Len(queue) :
            Pending[i] = IF i <= Len(batch) THEN batch[i] ELSE queue[i - Len(batch)]
  BY <1>1, ConcatProperties DEF Pending
<1>4. Pending # << >> /\ Head(Pending) = Head(batch)
  <2>1. Len(Pending) > 0 /\ Pending[1] = batch[1]
    BY <1>2, <1>3
  <2>2. QED
    BY <1>1, <1>2, <2>1, EmptySeq
<1>5. /\ Tail(Pending) \in Seq(Callback) /\ Len(Tail(Pending)) = Len(Pending) - 1
      /\ \A i \in 1..Len(Pending) - 1 : Tail(Pending)[i] = Pending[i + 1]
  BY <1>1, <1>4, HeadTailProperties
<1> DEFINE t == Tail(batch) \o queue
<1>6. /\ t \in Seq(Callback) /\ Len(t) = Len(batch) - 1 + Len(queue)
      /\ \A i \in 1..Len(batch) - 1 + Len(queue) :
            t[i] = IF i <= Len(batch) - 1 THEN Tail(batch)[i]
                                         ELSE queue[i - (Len(batch) - 1)]
  BY <1>1, <1>2, ConcatProperties
<1> HIDE DEF t
<1>7. \A i \in 1..Len(t) : t[i] = Tail(Pending)[i]
  <2>1. SUFFICES ASSUME NEW i \in 1..Len(t) PROVE t[i] = Pending[i + 1]
    BY <1>2, <1>3, <1>5, <1>6
  <2>2. CASE i <= Len(batch) - 1
    BY <1>2, <1>3, <1>6, <2>2
  <2>3. CASE ~(i <= Len(batch) - 1)
    <3>1. /\ i - (Len(batch) - 1) = i + 1 - Len(batch)
          /\ i + 1 \in 1..Len(batch) + Len(queue) /\ ~(i + 1 <= Len(batch))
      BY <1>2, <1>6, <2>3
    <3>2. t[i] = queue[i - (Len(batch) - 1)]
      BY <1>6, <2>3
    <3>3. Pending[i + 1] = queue[i + 1 - Len(batch)]
      BY <1>3, <3>1
    <3>4. QED
      BY <3>1, <3>2, <3>3
  <2>4. QED
    BY <2>2, <2>3
<1>8. t = Tail(Pending)
  <2>1. Len(t) = Len(Tail(Pending))
    BY <1>2, <1>3, <1>5, <1>6
  <2>2. QED
    BY <1>5, <1>6, <1>7, <2>1, SeqEqual
<1>9. QED
  BY <1>2, <1>4, <1>8 DEF Pending, t

\* The whole queue changes hands and stays the same.
LEMMA PendingSwap ==
    ASSUME TypeOK, batch = << >>, batch' = queue, queue' = << >>
    PROVE  Pending' = Pending
<1>1. queue \in Seq(Callback)
  BY PendingType
<1>2. << >> \o queue = queue /\ queue \o << >> = queue
  BY <1>1, ConcatEmptySeq
<1>3. QED
  BY <1>2 DEF Pending

\* The four reports a worker may have made.
LEMMA ExpectedIs ==
    ASSUME NEW w \in Worker
    PROVE  /\ thread[w] \in {"cleanup", "failed"} => Expected(w) = <<"error">>
           /\ thread[w] = "ended" /\ context[w] # "live" => Expected(w) = <<"error">>
           /\ thread[w] = "ended" /\ context[w] = "live" /\ script[w] = "throws" =>
                 Expected(w) = <<"error", "exit">>
           /\ thread[w] = "ended" /\ context[w] = "live" /\ script[w] # "throws" =>
                 Expected(w) = <<"exit">>
           /\ thread[w] \notin {"cleanup", "failed", "ended"} => Expected(w) = << >>
BY DEF Expected

\* Events are kinds of callbacks.
LEMMA ExpectedType ==
    ASSUME NEW w \in Worker
    PROVE  Expected(w) \in Seq(Event)
<1>1. /\ << >> \in Seq(Event) /\ <<"error">> \in Seq(Event)
      /\ <<"exit">> \in Seq(Event) /\ <<"error", "exit">> \in Seq(Event)
  BY DEF Event
<1>2. QED
  BY <1>1, ExpectedIs

-----------------------------------------------------------------------------
(* What a step does to the reports. *)

\* A step that neither posts nor runs a callback, and after which every thread
\* has reported the same.
LEMMA QuietReports ==
    ASSUME ReportsMatchThread, Pending' = Pending, UNCHANGED delivered,
           \A w \in Worker : Expected(w)' = Expected(w)
    PROVE  ReportsMatchThread'
BY DEF ReportsMatchThread

\* A message for a worker is no report of any.
LEMMA MessageReports ==
    ASSUME TypeOK, ReportsMatchThread, NEW w \in Worker, Enqueue("message", w),
           UNCHANGED <<batch, delivered>>,
           \A v \in Worker : Expected(v)' = Expected(v)
    PROVE  /\ ReportsMatchThread' /\ queue' \in Seq(Callback)
           /\ Pending' = Append(Pending, [kind |-> "message", worker |-> w])
<1> DEFINE e == [kind |-> "message", worker |-> w]
<1>1. e \in Callback /\ \A v : ~Carries(e, v)
  BY DEF Callback, Carries, Event
<1>2. queue' = Append(queue, e)
  BY DEF Enqueue
<1> HIDE DEF e
<1>3. Pending' = Append(Pending, e) /\ queue' \in Seq(Callback)
  BY <1>1, <1>2, PendingAppend
<1>4. \A v \in Worker : Reports(v, delivered[v], Append(Pending, e), Expected(v))
  <2>1. \A v \in Worker : delivered[v] \in Seq(Event) /\ Expected(v) \in Seq(Event)
    BY ExpectedType DEF TypeOK
  <2>2. Pending \in Seq(Callback)
    BY PendingType
  <2>3. QED
    BY <1>1, <2>1, <2>2, ReportsAppendOther DEF ReportsMatchThread
<1>5. ReportsMatchThread'
  BY <1>3, <1>4 DEF ReportsMatchThread
<1>6. QED
  BY <1>3, <1>5 DEF e

\* A worker reports an event: it becomes the last one that waits.
LEMMA EventReports ==
    ASSUME TypeOK, ReportsMatchThread, NEW w \in Worker, NEW k \in Event,
           Enqueue(k, w), UNCHANGED <<batch, delivered>>,
           Expected(w)' = Append(Expected(w), k),
           \A v \in Worker : v # w => Expected(v)' = Expected(v)
    PROVE  /\ ReportsMatchThread' /\ queue' \in Seq(Callback)
           /\ Pending' = Append(Pending, [kind |-> k, worker |-> w])
<1> DEFINE e == [kind |-> k, worker |-> w]
<1>1. e \in Callback /\ \A v : v # w => ~Carries(e, v)
  BY DEF Callback, Carries, Event
<1>2. queue' = Append(queue, e)
  BY DEF Enqueue
<1> HIDE DEF e
<1>3. Pending' = Append(Pending, e) /\ queue' \in Seq(Callback)
  BY <1>1, <1>2, PendingAppend
<1>4. /\ \A v \in Worker : /\ delivered[v] \in Seq(Event) /\ Expected(v) \in Seq(Event)
                           /\ Reports(v, delivered[v], Pending, Expected(v))
      /\ Pending \in Seq(Callback)
  BY ExpectedType, PendingType DEF TypeOK, ReportsMatchThread
<1>5. \A v \in Worker : v # w =>
          Reports(v, delivered[v], Append(Pending, e), Expected(v))
  BY <1>1, <1>4, ReportsAppendOther
<1>6. Reports(w, delivered[w], Append(Pending, e), Append(Expected(w), k))
  BY <1>4, ReportsAppendOwn DEF e
<1>7. \A v \in Worker : Reports(v, delivered'[v], Pending', Expected(v)')
  BY <1>3, <1>5, <1>6
<1>8. ReportsMatchThread'
  BY <1>7 DEF ReportsMatchThread
<1>9. QED
  BY <1>3, <1>8 DEF e

\* Running a callback: an event is added to those delivered, a message to none.
LEMMA RunReports ==
    ASSUME TypeOK, ReportsMatchThread, batch # << >>, batch' = Tail(batch),
           UNCHANGED queue, \A v \in Worker : Expected(v)' = Expected(v),
           \/ /\ Head(batch).kind \in Event
              /\ delivered' = [delivered EXCEPT
                     ![Head(batch).worker] = Append(@, Head(batch).kind)]
           \/ Head(batch).kind \notin Event /\ delivered' = delivered
    PROVE  /\ ReportsMatchThread' /\ batch' \in Seq(Callback)
           /\ delivered' \in [Worker -> Seq(Event)]
           /\ Pending # << >> /\ Pending' = Tail(Pending)
<1>1. /\ Pending # << >> /\ Head(Pending) = Head(batch)
      /\ Pending' = Tail(Pending) /\ batch' \in Seq(Callback)
      /\ Head(batch) \in Callback
  BY PendingTail
<1>2. PICK w \in Worker, k \in Event \cup {"message"} :
          Head(batch).worker = w /\ Head(batch).kind = k
  BY <1>1 DEF Callback
<1>3. /\ delivered \in [Worker -> Seq(Event)]
      /\ \A v \in Worker : /\ delivered[v] \in Seq(Event) /\ Expected(v) \in Seq(Event)
                           /\ Reports(v, delivered[v], Pending, Expected(v))
      /\ Pending \in Seq(Callback)
  BY ExpectedType, PendingType DEF TypeOK, ReportsMatchThread
<1>4. \A v \in Worker : ~Carries(Head(Pending), v) =>
          Reports(v, delivered[v], Tail(Pending), Expected(v))
  BY <1>1, <1>3, ReportsTailOther
<1>5. CASE k \in Event /\ delivered' = [delivered EXCEPT ![w] = Append(@, k)]
  <2>1. Append(delivered[w], k) \in Seq(Event)
    BY <1>3, <1>5, AppendProperties
  <2>2. /\ delivered' \in [Worker -> Seq(Event)]
        /\ delivered'[w] = Append(delivered[w], k)
        /\ \A v \in Worker : v # w => delivered'[v] = delivered[v]
    BY <1>3, <1>5, <2>1
  <2>3. Carries(Head(Pending), w) /\ \A v : v # w => ~Carries(Head(Pending), v)
    BY <1>1, <1>2, <1>5 DEF Carries
  <2>4. Reports(w, Append(delivered[w], k), Tail(Pending), Expected(w))
    BY <1>1, <1>2, <1>3, <2>3, ReportsTailOwn
  <2>5. \A v \in Worker : Reports(v, delivered'[v], Pending', Expected(v)')
    BY <1>1, <1>4, <2>2, <2>3, <2>4
  <2>6. QED
    BY <1>1, <2>2, <2>5 DEF ReportsMatchThread
<1>6. CASE k \notin Event /\ delivered' = delivered
  <2>1. \A v : ~Carries(Head(Pending), v)
    BY <1>1, <1>2, <1>6 DEF Carries
  <2>2. \A v \in Worker : Reports(v, delivered'[v], Pending', Expected(v)')
    BY <1>1, <1>4, <1>6, <2>1
  <2>3. QED
    BY <1>1, <1>3, <1>6, <2>2 DEF ReportsMatchThread
<1>7. QED
  BY <1>2, <1>5, <1>6

-----------------------------------------------------------------------------
(* The messages. *)

\* A context once there stays there, so a message that waits keeps finding one;
\* what enters the queue is an event or a message for a worker with a context.
LEMMA MessagesKept ==
    ASSUME TypeOK, MessagesHaveContext,
           \A w \in Worker : context[w] # "null" => context'[w] # "null",
           \/ Pending' = Pending
           \/ Pending # << >> /\ Pending' = Tail(Pending)
           \/ \E e \in Callback : /\ Pending' = Append(Pending, e)
                                  /\ e.kind = "message" => context'[e.worker] # "null"
    PROVE  MessagesHaveContext'
<1>1. Pending \in Seq(Callback) /\ \A i \in DOMAIN Pending : Pending[i] \in Callback
  BY PendingType
<1>2. \A i \in DOMAIN Pending :
          Pending[i].kind = "message" => context'[Pending[i].worker] # "null"
  BY <1>1 DEF MessagesHaveContext, ToSet, Callback
<1>3. \A i \in DOMAIN Pending' :
          Pending'[i].kind = "message" => context'[Pending'[i].worker] # "null"
  <2>1. CASE Pending' = Pending
    BY <1>2, <2>1
  <2>2. CASE Pending # << >> /\ Pending' = Tail(Pending)
    <3>1. /\ Len(Pending) \in Nat \ {0} /\ DOMAIN Pending = 1..Len(Pending)
          /\ DOMAIN Tail(Pending) = 1..(Len(Pending) - 1)
          /\ \A i \in 1..(Len(Pending) - 1) : Tail(Pending)[i] = Pending[i + 1]
      BY <1>1, <2>2, HeadTailProperties, LenProperties, EmptySeq
    <3>2. \A i \in 1..(Len(Pending) - 1) : i + 1 \in DOMAIN Pending
      BY <3>1
    <3>3. \A i \in 1..(Len(Pending) - 1) :
              Tail(Pending)[i].kind = "message" =>
                  context'[Tail(Pending)[i].worker] # "null"
      BY <1>2, <3>1, <3>2
    <3>4. DOMAIN Pending' = 1..(Len(Pending) - 1)
      BY <2>2, <3>1
    <3>5. QED
      BY <2>2, <3>3, <3>4
  <2>3. ASSUME NEW e \in Callback, Pending' = Append(Pending, e),
               e.kind = "message" => context'[e.worker] # "null"
        PROVE  \A i \in DOMAIN Pending' :
                   Pending'[i].kind = "message" =>
                       context'[Pending'[i].worker] # "null"
    <3>1. /\ Len(Pending) \in Nat /\ DOMAIN Pending = 1..Len(Pending)
          /\ DOMAIN Append(Pending, e) = 1..(Len(Pending) + 1)
          /\ Append(Pending, e)[Len(Pending) + 1] = e
          /\ \A i \in 1..Len(Pending) : Append(Pending, e)[i] = Pending[i]
      BY <1>1, AppendProperties, LenProperties
    <3>2. \A i \in 1..(Len(Pending) + 1) : i = Len(Pending) + 1 \/ i \in DOMAIN Pending
      BY <3>1
    <3>3. QED
      BY <1>2, <2>3, <3>1, <3>2
  <2>4. QED
    BY <2>1, <2>2, <2>3
<1>4. QED
  BY <1>3 DEF MessagesHaveContext, ToSet

-----------------------------------------------------------------------------
(* The steps. *)

\* At the start nothing waits and nothing was reported.
LEMMA InitIInv == Init => IInv
<1>1. SUFFICES ASSUME Init PROVE IInv
  OBVIOUS
<1>2. << >> \in Seq(Callback) /\ << >> \in Seq(Event)
  BY EmptySeq
<1>3. TypeOK
  <2>1. posts \in [Worker -> 0..MaxPosts]
    BY <1>1, BoundAssumption DEF Init
  <2>2. delivered \in [Worker -> Seq(Event)]
    BY <1>1, <1>2 DEF Init
  <2>3. QED
    BY <1>1, <1>2, <2>1, <2>2 DEF Init, TypeOK, Phase, Thread, Script
<1>4. Contexts /\ BatchInOrder
  BY <1>1, WorkerAssumption DEF Init, Contexts, InContext, BatchInOrder
<1>5. Pending = << >>
  BY <1>1, <1>2, ConcatEmptySeq DEF Init, Pending
<1>6. ReportsMatchThread
  <2>1. \A w \in Worker : delivered[w] = << >> /\ Expected(w) = << >>
    BY <1>1, ExpectedIs DEF Init
  <2>2. \A w \in Worker : Reports(w, << >>, << >>, << >>)
    <3>1. DOMAIN << >> = {}
      OBVIOUS
    <3>2. QED
      BY <1>2, <3>1, ReportsNothing
  <2>3. QED
    BY <1>5, <2>1, <2>2 DEF ReportsMatchThread
<1>7. MessagesHaveContext
  BY <1>5 DEF MessagesHaveContext, ToSet
<1>8. QED
  BY <1>3, <1>4, <1>6, <1>7 DEF IInv

\* A step of JavaScript on the main thread: new Worker(), postMessage() and
\* terminate() change no report (.cpp:96-145, 310-351).
LEMMA ScriptStepKeeps ==
    ASSUME IInv, NEW w \in Worker, Construct(w) \/ PostMessage(w) \/ Terminate(w)
    PROVE  IInv'
<1>0. TypeOK /\ Contexts /\ BatchInOrder /\ ReportsMatchThread /\ MessagesHaveContext
  BY DEF IInv
<1>1. CASE Construct(w)
  <2>1. /\ thread[w] = "none" /\ thread' = [thread EXCEPT ![w] = "started"]
        /\ running' = [running EXCEPT ![w] = TRUE] /\ crashed' \in BOOLEAN
        /\ UNCHANGED <<phase, inside, batch, queue, context, posts, delivered>>
    BY <1>1 DEF Construct, ScriptStep, Defined, Undefined, mainVars
  <2>2. PICK s \in Script : script' = [script EXCEPT ![w] = s]
    BY <1>1 DEF Construct
  <2>3. TypeOK'
    BY <1>0, <2>1, <2>2 DEF TypeOK, Thread
  <2>4. Contexts' /\ BatchInOrder'
    BY <1>0, <2>1, <2>2 DEF TypeOK, Contexts, InContext, BatchInOrder
  <2>5. Pending' = Pending
    BY <2>1 DEF Pending
  <2>6. \A v \in Worker : Expected(v)' = Expected(v)
    <3>1. \A v \in Worker : v # w => thread'[v] = thread[v] /\ script'[v] = script[v]
      BY <1>0, <2>1, <2>2 DEF TypeOK
    <3>2. \A v \in Worker : v # w => Expected(v)' = Expected(v)
      BY <2>1, <3>1 DEF Expected
    <3>3. thread'[w] = "started"
      BY <1>0, <2>1 DEF TypeOK
    <3>4. Expected(w)' = << >> /\ Expected(w) = << >>
      BY <2>1, <3>3 DEF Expected
    <3>5. QED
      BY <3>2, <3>4
  <2>7. ReportsMatchThread' /\ MessagesHaveContext'
    BY <1>0, <2>1, <2>5, <2>6, QuietReports, MessagesKept
  <2>8. QED
    BY <2>3, <2>4, <2>7 DEF IInv
<1>2. CASE PostMessage(w)
  <2>1. /\ posts[w] < MaxPosts /\ posts' = [posts EXCEPT ![w] = @ + 1]
        /\ crashed' \in BOOLEAN
        /\ UNCHANGED <<phase, inside, batch, thread, context, script, running,
                       delivered>>
    BY <1>2 DEF PostMessage, ScriptStep, Defined, Undefined, mainVars, workerVars
  <2>2. posts' \in [Worker -> 0..MaxPosts]
    BY <1>0, <2>1, BoundAssumption DEF TypeOK
  <2>3. \A v \in Worker : Expected(v)' = Expected(v)
    BY <2>1 DEF Expected
  <2>4. Contexts' /\ BatchInOrder'
    BY <1>0, <2>1 DEF Contexts, InContext, BatchInOrder
  <2>5. CASE Reachable(w)
    <3>1. Enqueue("message", w) /\ context[w] # "null"
      BY <1>2, <2>5 DEF PostMessage, Reachable
    <3>2. /\ ReportsMatchThread' /\ queue' \in Seq(Callback)
          /\ Pending' = Append(Pending, [kind |-> "message", worker |-> w])
      BY <1>0, <2>1, <2>3, <3>1, MessageReports
    <3>3. [kind |-> "message", worker |-> w] \in Callback
      BY DEF Callback
    <3>4. MessagesHaveContext'
      BY <1>0, <2>1, <3>1, <3>2, <3>3, MessagesKept
    <3>5. TypeOK'
      BY <1>0, <2>1, <2>2, <3>2 DEF TypeOK
    <3>6. QED
      BY <2>4, <3>2, <3>4, <3>5 DEF IInv
  <2>6. CASE ~Reachable(w)
    <3>1. UNCHANGED queue
      BY <1>2, <2>6 DEF PostMessage
    <3>2. Pending' = Pending
      BY <2>1, <3>1 DEF Pending
    <3>3. TypeOK'
      BY <1>0, <2>1, <2>2, <3>1 DEF TypeOK
    <3>4. ReportsMatchThread' /\ MessagesHaveContext'
      BY <1>0, <2>1, <2>3, <3>2, QuietReports, MessagesKept
    <3>5. QED
      BY <2>4, <3>3, <3>4 DEF IInv
  <2>7. QED
    BY <2>5, <2>6
<1>3. CASE Terminate(w)
  <2>1. /\ running' = [running EXCEPT ![w] = FALSE] /\ crashed' \in BOOLEAN
        /\ UNCHANGED <<phase, inside, batch, thread, context, script, posts, queue,
                       delivered>>
    BY <1>3 DEF Terminate, ScriptStep, Defined, Undefined, mainVars, workerVars
  <2>2. TypeOK' /\ Contexts' /\ BatchInOrder'
    BY <1>0, <2>1 DEF TypeOK, Contexts, InContext, BatchInOrder
  <2>3. Pending' = Pending /\ \A v \in Worker : Expected(v)' = Expected(v)
    BY <2>1 DEF Pending, Expected
  <2>4. ReportsMatchThread' /\ MessagesHaveContext'
    BY <1>0, <2>1, <2>3, QuietReports, MessagesKept
  <2>5. QED
    BY <2>2, <2>4 DEF IInv
<1>4. QED
  BY <1>1, <1>2, <1>3

\* A step of the thread of w that reports nothing.
LEMMA ThreadSilent ==
    ASSUME IInv, NEW w \in Worker, NEW s \in Thread, NEW c \in {"live", "freed"},
           thread' = [thread EXCEPT ![w] = s], context' = [context EXCEPT ![w] = c],
           s \notin {"none", "started", "failed"},
           s \in {"setup", "running", "cleanup"} => c = "live",
           s = "cleanup" \/ c = "freed" => script[w] = "missing",
           Expected(w)' = Expected(w), crashed' \in BOOLEAN,
           UNCHANGED <<mainVars, scriptVars, queue, delivered>>
    PROVE  IInv'
<1>0. TypeOK /\ Contexts /\ BatchInOrder /\ ReportsMatchThread /\ MessagesHaveContext
  BY DEF IInv
<1>1. UNCHANGED <<phase, inside, batch, script, running, posts, queue, delivered>>
  BY DEF mainVars, scriptVars
<1>2. /\ thread'[w] = s /\ context'[w] = c
      /\ \A v \in Worker : v # w => thread'[v] = thread[v] /\ context'[v] = context[v]
  BY <1>0 DEF TypeOK
<1>3. TypeOK'
  BY <1>0, <1>1 DEF TypeOK
<1>4. Contexts' /\ BatchInOrder'
  BY <1>0, <1>1, <1>2 DEF Contexts, InContext, BatchInOrder, Thread
<1>5. \A v \in Worker : Expected(v)' = Expected(v)
  BY <1>1, <1>2 DEF Expected
<1>6. Pending' = Pending
  BY <1>1 DEF Pending
<1>7. \A v \in Worker : context[v] # "null" => context'[v] # "null"
  BY <1>2
<1>8. ReportsMatchThread' /\ MessagesHaveContext'
  BY <1>0, <1>1, <1>5, <1>6, <1>7, QuietReports, MessagesKept
<1>9. QED
  BY <1>3, <1>4, <1>8 DEF IInv

\* A step of the thread of w that reports an event.
LEMMA ThreadReports ==
    ASSUME IInv, NEW w \in Worker, NEW s \in {"cleanup", "failed", "ended"},
           NEW k \in Event, Enqueue(k, w),
           thread' = [thread EXCEPT ![w] = s],
           s \in {"cleanup", "failed"} => context[w] = "live",
           s = "failed" => script[w] = "throws",
           s = "cleanup" => script[w] = "missing",
           Expected(w)' = Append(Expected(w), k), crashed' \in BOOLEAN,
           UNCHANGED <<mainVars, scriptVars, context, delivered>>
    PROVE  IInv'
<1>0. TypeOK /\ Contexts /\ BatchInOrder /\ ReportsMatchThread /\ MessagesHaveContext
  BY DEF IInv
<1>1. UNCHANGED <<phase, inside, batch, script, running, posts, context, delivered>>
  BY DEF mainVars, scriptVars
<1>2. thread'[w] = s /\ \A v \in Worker : v # w => thread'[v] = thread[v]
  BY <1>0 DEF TypeOK
<1>3. \A v \in Worker : v # w => Expected(v)' = Expected(v)
  BY <1>1, <1>2 DEF Expected
<1>4. /\ ReportsMatchThread' /\ queue' \in Seq(Callback)
      /\ Pending' = Append(Pending, [kind |-> k, worker |-> w])
  BY <1>0, <1>1, <1>3, EventReports
<1>5. TypeOK'
  BY <1>0, <1>1, <1>4 DEF TypeOK, Thread
<1>6. Contexts' /\ BatchInOrder'
  BY <1>0, <1>1, <1>2 DEF Contexts, InContext, BatchInOrder
<1>7. /\ [kind |-> k, worker |-> w] \in Callback
      /\ [kind |-> k, worker |-> w].kind # "message"
  BY DEF Callback, Event
<1>8. MessagesHaveContext'
  BY <1>0, <1>1, <1>4, <1>7, MessagesKept
<1>9. QED
  BY <1>4, <1>5, <1>6, <1>8 DEF IInv

\* The thread of a worker: what it reports follows from where it is
\* (.cpp:147-294).
LEMMA ThreadStepKeeps ==
    ASSUME IInv, NEW w \in Worker, ThreadStep(w)
    PROVE  IInv'
<1>0. TypeOK /\ Contexts
  BY DEF IInv
<1>1. /\ thread \in [Worker -> Thread]
      /\ context \in [Worker -> {"null", "live", "freed"}]
  BY <1>0 DEF TypeOK
<1>2. Append(<< >>, "error") = <<"error">> /\ Append(<< >>, "exit") = <<"exit">>
      /\ Append(<<"error">>, "exit") = <<"error", "exit">>
  <2>1. /\ << >> \in Seq(Event) /\ <<"error">> \in Seq(Event)
        /\ <<"exit">> \in Seq(Event) /\ <<"error", "exit">> \in Seq(Event)
        /\ "error" \in Event /\ "exit" \in Event
    BY DEF Event
  <2>2. Append(<< >>, "error") = <<"error">>
    BY <2>1, AppendProperties, SeqEqual
  <2>3. Append(<< >>, "exit") = <<"exit">>
    BY <2>1, AppendProperties, SeqEqual
  <2>4. Append(<<"error">>, "exit") = <<"error", "exit">>
    <3> DEFINE t == Append(<<"error">>, "exit")
    <3>1. t \in Seq(Event) /\ Len(t) = 2 /\ t[1] = "error" /\ t[2] = "exit"
      BY <2>1, AppendProperties
    <3> HIDE DEF t
    <3>2. \A i \in 1..2 : t[i] = <<"error", "exit">>[i]
      BY <3>1
    <3>3. Len(<<"error", "exit">>) = 2
      OBVIOUS
    <3>4. QED
      BY <2>1, <3>1, <3>2, <3>3, SeqEqual DEF t
  <2>5. QED
    BY <2>2, <2>3, <2>4
<1>3. CASE Create(w)
  <2>1. /\ thread[w] = "started" /\ context[w] = "null" /\ Expected(w) = << >>
        /\ crashed' \in BOOLEAN
        /\ UNCHANGED <<mainVars, scriptVars, delivered>>
    BY <1>0, <1>3, ExpectedIs DEF Create, Undefined, Contexts
  <2>2. CASE /\ thread' = [thread EXCEPT ![w] = "setup"]
             /\ context' = [context EXCEPT ![w] = "live"]
             /\ UNCHANGED queue
    <3>1. thread'[w] = "setup"
      BY <1>1, <2>2
    <3>2. Expected(w)' = << >>
      BY <3>1 DEF Expected
    <3>3. QED
      BY <2>1, <2>2, <3>2, ThreadSilent DEF Thread
  <2>3. CASE /\ thread' = [thread EXCEPT ![w] = "ended"]
             /\ Enqueue("error", w)
             /\ UNCHANGED context
    <3>1. thread'[w] = "ended" /\ context'[w] # "live"
      BY <1>1, <2>1, <2>3
    <3>2. Expected(w)' = <<"error">>
      BY <3>1 DEF Expected
    <3>3. QED
      BY <1>2, <2>1, <2>3, <3>2, ThreadReports DEF Event
  <2>4. QED
    BY <1>3, <2>2, <2>3 DEF Create
<1>4. CASE Load(w)
  <2>1. /\ thread[w] = "setup" /\ context[w] = "live" /\ Expected(w) = << >>
        /\ crashed' \in BOOLEAN
        /\ UNCHANGED <<mainVars, scriptVars, context, delivered>>
    BY <1>0, <1>4, ExpectedIs DEF Load, Undefined, Contexts, InContext
  <2>2. CASE script[w] = "missing"
    <3>1. thread' = [thread EXCEPT ![w] = "cleanup"] /\ Enqueue("error", w)
      BY <1>4, <2>2 DEF Load
    <3>2. thread'[w] = "cleanup"
      BY <1>1, <3>1
    <3>3. Expected(w)' = <<"error">>
      BY <3>2 DEF Expected
    <3>4. QED
      BY <1>2, <2>1, <2>2, <3>1, <3>3, ThreadReports DEF Event
  <2>3. CASE script[w] # "missing"
    <3>1. thread' = [thread EXCEPT ![w] = "running"] /\ UNCHANGED queue
      BY <1>4, <2>3 DEF Load
    <3>2. thread'[w] = "running" /\ context' = [context EXCEPT ![w] = "live"]
      BY <1>1, <2>1, <3>1
    <3>3. Expected(w)' = << >>
      BY <3>2 DEF Expected
    <3>4. QED
      BY <2>1, <3>1, <3>2, <3>3, ThreadSilent DEF Thread
  <2>4. QED
    BY <2>2, <2>3
<1>5. CASE FreeContext(w)
  <2>1. /\ thread[w] = "cleanup" /\ Expected(w) = <<"error">>
        /\ thread' = [thread EXCEPT ![w] = "ended"]
        /\ context' = [context EXCEPT ![w] = "freed"]
        /\ crashed' \in BOOLEAN /\ script[w] = "missing"
        /\ UNCHANGED <<mainVars, scriptVars, queue, delivered>>
    BY <1>0, <1>5, ExpectedIs DEF FreeContext, Undefined, Contexts
  <2>2. thread'[w] = "ended" /\ context'[w] = "freed"
    BY <1>1, <2>1
  <2>3. Expected(w)' = <<"error">>
    BY <2>2 DEF Expected
  <2>4. QED
    BY <2>1, <2>3, ThreadSilent DEF Thread
<1>6. CASE Evaluate(w)
  <2>1. /\ thread[w] = "running" /\ context[w] = "live" /\ Expected(w) = << >>
        /\ crashed' \in BOOLEAN
        /\ UNCHANGED <<mainVars, scriptVars, context, delivered>>
    BY <1>0, <1>6, ExpectedIs DEF Evaluate, Undefined, Contexts, InContext
  <2>2. CASE /\ script[w] = "ends"
             /\ thread' = [thread EXCEPT ![w] = "ended"]
             /\ Enqueue("exit", w)
    <3>1. thread'[w] = "ended" /\ context'[w] = "live" /\ script'[w] # "throws"
      BY <1>1, <2>1, <2>2 DEF scriptVars
    <3>2. Expected(w)' = <<"exit">>
      BY <3>1 DEF Expected
    <3>3. QED
      BY <1>2, <2>1, <2>2, <3>2, ThreadReports DEF Event
  <2>3. CASE /\ script[w] = "throws"
             /\ thread' = [thread EXCEPT ![w] = "failed"]
             /\ Enqueue("error", w)
    <3>1. thread'[w] = "failed"
      BY <1>1, <2>3
    <3>2. Expected(w)' = <<"error">>
      BY <3>1 DEF Expected
    <3>3. QED
      BY <1>2, <2>1, <2>3, <3>2, ThreadReports DEF Event
  <2>4. QED
    BY <1>6, <2>2, <2>3 DEF Evaluate
<1>7. CASE PostExit(w)
  <2>1. /\ thread[w] = "failed" /\ context[w] = "live" /\ script[w] = "throws"
        /\ Expected(w) = <<"error">> /\ crashed' \in BOOLEAN
        /\ thread' = [thread EXCEPT ![w] = "ended"] /\ Enqueue("exit", w)
        /\ UNCHANGED <<mainVars, scriptVars, context, delivered>>
    BY <1>0, <1>7, ExpectedIs DEF PostExit, Undefined, Contexts, InContext
  <2>2. thread'[w] = "ended" /\ context'[w] = "live" /\ script'[w] = "throws"
    BY <1>1, <2>1 DEF scriptVars
  <2>3. Expected(w)' = <<"error", "exit">>
    BY <2>2 DEF Expected
  <2>4. QED
    BY <1>2, <2>1, <2>3, ThreadReports DEF Event
<1>8. QED
  BY <1>3, <1>4, <1>5, <1>6, <1>7 DEF ThreadStep

\* A step of main() that leaves the callbacks where they are, or takes the whole
\* queue (main.cpp:237-254, EventLoop.cpp:20-26).
LEMMA MoveKeeps ==
    ASSUME IInv, phase' \in Phase, inside' \in {inside, "none"},
           crashed' \in BOOLEAN,
           \/ /\ UNCHANGED <<batch, queue>>
              /\ phase' \notin {"process", "last"} => batch = << >>
           \/ /\ phase \notin {"process", "last"} /\ phase' \in {"process", "last"}
              /\ batch' = queue /\ queue' = << >>,
           UNCHANGED <<workerVars, scriptVars, delivered>>
    PROVE  IInv'
<1>0. TypeOK /\ Contexts /\ BatchInOrder /\ ReportsMatchThread /\ MessagesHaveContext
  BY DEF IInv
<1>1. UNCHANGED <<thread, context, script, running, posts, delivered>>
  BY DEF workerVars, scriptVars
<1>2. << >> \in Seq(Callback)
  BY EmptySeq
<1>3. TypeOK'
  BY <1>0, <1>1, <1>2 DEF TypeOK
<1>4. Contexts' /\ BatchInOrder'
  BY <1>0, <1>1, WorkerAssumption DEF Contexts, InContext, BatchInOrder
<1>5. Pending' = Pending
  <2>1. CASE UNCHANGED <<batch, queue>>
    BY <2>1 DEF Pending
  <2>2. CASE /\ phase \notin {"process", "last"}
             /\ batch' = queue /\ queue' = << >>
    <3>1. batch = << >>
      BY <1>0, <2>2 DEF BatchInOrder
    <3>2. QED
      BY <1>0, <2>2, <3>1, PendingSwap
  <2>3. QED
    BY <2>1, <2>2
<1>6. \A w \in Worker : Expected(w)' = Expected(w)
  BY <1>1 DEF Expected
<1>7. ReportsMatchThread' /\ MessagesHaveContext'
  BY <1>0, <1>1, <1>5, <1>6, QuietReports, MessagesKept
<1>8. QED
  BY <1>3, <1>4, <1>7 DEF IInv

\* Running a callback of the batch (.cpp:265-293, 324-338).
LEMMA RunKeeps ==
    ASSUME IInv, RunEvent \/ EnterWorker
    PROVE  IInv'
<1>0. TypeOK /\ Contexts /\ BatchInOrder /\ ReportsMatchThread /\ MessagesHaveContext
  BY DEF IInv
<1>1. /\ phase \in {"process", "last"} /\ batch # << >> /\ batch' = Tail(batch)
      /\ crashed' \in BOOLEAN
      /\ UNCHANGED <<phase, thread, context, script, running, posts, queue>>
  BY DEF RunEvent, EnterWorker, Undefined, workerVars, scriptVars
<1>2. Head(batch) \in Callback
  BY <1>0, <1>1, PendingTail
<1>3. inside' \in {"none", "main"} \cup Worker
  BY <1>2 DEF RunEvent, EnterWorker, Callback
<1>4. \/ /\ Head(batch).kind \in Event
         /\ delivered' = [delivered EXCEPT
                ![Head(batch).worker] = Append(@, Head(batch).kind)]
      \/ Head(batch).kind \notin Event /\ delivered' = delivered
  BY DEF RunEvent, EnterWorker, Event
<1>5. \A v \in Worker : Expected(v)' = Expected(v)
  BY <1>1 DEF Expected
<1>6. /\ ReportsMatchThread' /\ batch' \in Seq(Callback)
      /\ delivered' \in [Worker -> Seq(Event)]
      /\ Pending # << >> /\ Pending' = Tail(Pending)
  BY <1>0, <1>1, <1>4, <1>5, RunReports
<1>7. TypeOK'
  BY <1>0, <1>1, <1>3, <1>6 DEF TypeOK
<1>8. Contexts' /\ BatchInOrder'
  <2>1. \A w \in Worker : inside' = w => context[w] # "null"
    <3>1. CASE RunEvent
      BY <3>1, WorkerAssumption DEF RunEvent
    <3>2. CASE EnterWorker
      <4>1. Head(batch) \in ToSet(Pending)
        <5>1. /\ Pending \in Seq(Callback) /\ Pending # << >>
              /\ Head(Pending) = Head(batch)
          BY <1>0, <1>1, PendingType, PendingTail
        <5>2. 1 \in DOMAIN Pending /\ Pending[1] = Head(Pending)
          BY <5>1, HeadTailProperties, LenProperties, EmptySeq
        <5>3. QED
          BY <5>1, <5>2 DEF ToSet
      <4>2. Head(batch).kind = "message" /\ inside' = Head(batch).worker
        BY <3>2 DEF EnterWorker
      <4>3. QED
        BY <1>0, <4>1, <4>2 DEF MessagesHaveContext
    <3>3. QED
      BY <3>1, <3>2
  <2>2. QED
    BY <1>0, <1>1, <2>1 DEF Contexts, InContext, BatchInOrder
<1>9. MessagesHaveContext'
  BY <1>0, <1>1, <1>6, MessagesKept
<1>10. QED
  BY <1>6, <1>7, <1>8, <1>9 DEF IInv

\* The main thread after the script.
LEMMA MainStepKeeps ==
    ASSUME IInv, EndScript \/ MainStep
    PROVE  IInv'
<1>0. /\ phase \in Phase /\ inside \in {"none", "main"} \cup Worker
      /\ phase \notin {"process", "last"} => batch = << >>
  BY DEF IInv, TypeOK, BatchInOrder
<1>1. ASSUME NEW from \in Phase, NEW to \in Phase, Goto(from, to),
             to \in {"process", "last"} \/ batch = << >>
      PROVE  IInv'
  <2>1. /\ phase' = to /\ crashed' \in BOOLEAN
        /\ UNCHANGED <<inside, batch, workerVars, scriptVars, queue, delivered>>
    BY <1>1 DEF Goto, Defined, Undefined
  <2>2. QED
    BY <1>0, <1>1, <2>1, MoveKeeps
<1>2. ASSUME NEW from \in Phase, NEW to \in {"process", "last"}, Swap(from, to),
             from \notin {"process", "last"}
      PROVE  IInv'
  <2>1. /\ phase = from /\ phase' = to /\ batch' = queue /\ queue' = << >>
        /\ crashed' \in BOOLEAN
        /\ UNCHANGED <<inside, workerVars, scriptVars, delivered>>
    BY <1>2 DEF Swap, Defined, Undefined
  <2>2. to \in Phase
    BY DEF Phase
  <2>3. QED
    BY <1>0, <1>2, <2>1, <2>2, MoveKeeps
<1>3. CASE EndScript
  <2>1. /\ phase = "script" /\ phase' = "test" /\ inside' = "none"
        /\ crashed' \in BOOLEAN
        /\ UNCHANGED <<batch, workerVars, scriptVars, queue, delivered>>
    BY <1>3 DEF EndScript, Defined, Undefined
  <2>2. QED
    BY <1>0, <2>1, MoveKeeps DEF Phase
<1>4. CASE Test
  <2>1. CASE Swap("test", "process")
    BY <1>2, <2>1 DEF Phase
  <2>2. CASE Goto("test", "lastSwap")
    <3>1. batch = << >>
      BY <1>0, <2>2 DEF Goto
    <3>2. QED
      BY <1>1, <2>2, <3>1 DEF Phase
  <2>3. QED
    BY <1>4, <2>1, <2>2 DEF Test
<1>5. CASE Swap("lastSwap", "last")
  BY <1>2, <1>5 DEF Phase
<1>6. CASE Return
  <2>1. /\ phase \in {"process", "last"} /\ inside' = "none" /\ crashed' \in BOOLEAN
        /\ UNCHANGED <<phase, batch, workerVars, scriptVars, queue, delivered>>
    BY <1>6 DEF Return, Defined, Undefined
  <2>2. QED
    BY <1>0, <2>1, MoveKeeps
<1>7. CASE BatchDone
  <2>1. batch = << >> /\ (\/ Goto("process", "test") \/ Goto("process", "lastSwap")
                         \/ Goto("last", "exit"))
    BY <1>7 DEF BatchDone
  <2>2. QED
    BY <1>1, <2>1 DEF Phase
<1>8. CASE Exit
  <2>1. Goto("exit", "gone") /\ batch = << >>
    BY <1>0, <1>8 DEF Exit, Goto
  <2>2. QED
    BY <1>1, <2>1 DEF Phase
<1>9. QED
  BY <1>3, <1>4, <1>5, <1>6, <1>7, <1>8, RunKeeps DEF MainStep

-----------------------------------------------------------------------------
(* The theorems. *)

\* Every step of the specification keeps the inductive invariant.
LEMMA StepIInv == IInv /\ [Next]_vars => IInv'
<1>1. SUFFICES ASSUME IInv, [Next]_vars PROVE IInv'
  OBVIOUS
<1>2. CASE UNCHANGED vars
  <2>1. UNCHANGED <<phase, inside, batch, workerVars, scriptVars, queue, delivered,
                    crashed>>
    BY <1>2 DEF vars, mainVars
  <2>2. /\ phase \in Phase /\ inside \in {"none", "main"} \cup Worker
        /\ crashed \in BOOLEAN
        /\ phase \notin {"process", "last"} => batch = << >>
    BY <1>1 DEF IInv, TypeOK, BatchInOrder
  <2>3. QED
    BY <1>1, <2>1, <2>2, MoveKeeps
<1>3. CASE Next
  BY <1>1, <1>3, ScriptStepKeeps, ThreadStepKeeps, MainStepKeeps DEF Next
<1>4. QED
  BY <1>1, <1>2, <1>3

\* The inductive invariant holds in every reachable state, for any number of
\* workers and of messages.
THEOREM Invariance == Spec => []IInv
<1>1. QED
  BY InitIInv, StepIInv, PTL DEF Spec

\* Every variable keeps its type: only events reach the emitter of a Worker.
THEOREM TypeCorrect == Spec => []TypeOK
<1>1. IInv => TypeOK
  BY DEF IInv
<1>2. QED
  BY <1>1, Invariance, PTL

\* No event of a worker is lost, doubled or overtaken by another one on its way
\* to the main thread, whatever the other workers and the script do
\* (WorkerThreadsModule.cpp:152-293).
THEOREM ReportsDelivered == Spec => []ReportsMatchThread
<1>1. IInv => ReportsMatchThread
  BY DEF IInv
<1>2. QED
  BY <1>1, Invariance, PTL

\* From the post of a message to the return of its handler the context of the
\* worker is live, unless the file of the worker could not be opened
\* (WorkerThreadsModule.cpp:323-338).
THEOREM MessagesReachContext == Spec => []MessagesUseLiveContext
<1>1. IInv => MessagesUseLiveContext
  <2>1. SUFFICES ASSUME IInv, NEW w \in Worker, script[w] # "missing",
                        Posted(w) \/ inside = w
                 PROVE  context[w] = "live"
    BY DEF MessagesUseLiveContext
  <2>2. context[w] \in {"null", "live", "freed"} /\ Contexts /\ MessagesHaveContext
    BY <2>1 DEF IInv, TypeOK
  <2>3. context[w] # "freed"
    BY <2>1, <2>2 DEF Contexts
  <2>4. CASE Posted(w)
    BY <2>2, <2>3, <2>4 DEF Posted, MessagesHaveContext
  <2>5. CASE inside = w
    BY <2>2, <2>3, <2>5 DEF Contexts
  <2>6. QED
    BY <2>1, <2>4, <2>5
<1>2. QED
  BY <1>1, Invariance, PTL

=============================================================================
