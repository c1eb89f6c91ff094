------------------------------- MODULE Events -------------------------------
(***************************************************************************)
(* An EventEmitter (src/src/modules/events/EventsModule.cpp) and one event *)
(* of it.  emit() walks the vector of handlers with iterators taken before *)
(* the first call, while the handlers may register and remove handlers:    *)
(*  - push_back into a full vector moves it; the walk goes on in the old,  *)
(*    freed array, which is undefined as soon as it reads it;              *)
(*  - erase moves the handlers after the first one down and leaves the old *)
(*    value in the last cell, which the walk still reads.                  *)
(* The emitter holds one reference for each registration and drops it when *)
(* it removes a handler.  A handler that the script does not hold itself is*)
(* freed with its last registration, perhaps while it runs or while a stale*)
(* cell still names it; emit() holds no reference to what it calls.        *)
(***************************************************************************)
EXTENDS Naturals, Sequences

CONSTANTS
    Handler,     \* functions of the script
    MaxHandlers, \* bound: handlers registered at a time
    MaxDepth,    \* bound: emit() called by a handler
    MaxCalls     \* bound: calls of the emitter

VARIABLES
    cells,       \* the array of the vector, stale cells included
    size,        \* handlers in the vector
    capacity,    \* cells allocated: doubled when a handler does not fit
    walks,       \* emit() calls in progress, the innermost last
    lastWalk,    \* the last walk that ended, or NoWalk
    kept,        \* handlers that the script itself holds
    freed,       \* handlers whose last reference is gone
    emitterCalls,
    emitterFate  \* "fine", or "undefined" after a use of freed memory

holders == <<kept, freed>>
vars == <<cells, size, capacity, walks, lastWalk, kept, freed, emitterCalls,
          emitterFate>>

\* at, last: the positions left to visit; array: "own" if it is the array
\* of the vector, else "freed"; start: the handlers when the walk began;
\* removed: a handler was removed since.
NoWalk == [at |-> 1, last |-> 0, array |-> "own", start |-> <<>>, said |-> <<>>,
           removed |-> FALSE]

Start ==
    /\ cells = <<>> /\ size = 0 /\ capacity = 0
    /\ walks = <<>> /\ lastWalk = NoWalk
    /\ kept = Handler /\ freed = {}
    /\ emitterCalls = 0 /\ emitterFate = "fine"

listeners == SubSeq(cells, 1, size)

\* The script runs: outside of any emit(), or in a handler called by one.
MayCall == emitterFate = "fine" /\ emitterCalls < MaxCalls
InHandler == walks # <<>> => walks[Len(walks)].said # <<>>

\* The handlers that emit() has called and that have not returned.
Running ==
    {walks[i].said[Len(walks[i].said)] :
        i \in {j \in DOMAIN walks : walks[j].said # <<>>}}

\* The last reference to h goes; freeing what runs is undefined.
Free(h) ==
    /\ freed' = freed \cup {h}
    /\ emitterFate' \in {"fine"} \cup IF h \in Running THEN {"undefined"} ELSE {}

\* once() is on().  A handler can name itself while it runs.
on(h) ==
    /\ MayCall /\ InHandler /\ size < MaxHandlers
    /\ h \in kept \cup (Running \ freed)
    /\ cells' = listeners \o <<h>> \o SubSeq(cells, size + 2, Len(cells))
    /\ size' = size + 1
    /\ IF size = capacity
       THEN /\ capacity' = IF capacity = 0 THEN 1 ELSE 2 * capacity
            /\ walks' = [i \in DOMAIN walks |->
                           [walks[i] EXCEPT !.array = "freed"]]
       ELSE UNCHANGED <<capacity, walks>>
    /\ emitterCalls' = emitterCalls + 1
    /\ UNCHANGED <<lastWalk, holders, emitterFate>>

once(h) == on(h)

\* The script drops its own reference to h.
forget(h) ==
    /\ emitterFate = "fine" /\ InHandler
    /\ h \in kept /\ kept' = kept \ {h}
    /\ IF \E k \in 1..size : cells[k] = h THEN UNCHANGED <<freed, emitterFate>>
                                         ELSE Free(h)
    /\ UNCHANGED <<cells, size, capacity, walks, lastWalk, emitterCalls>>

\* The emitter drops its reference to the first handler.
Release(h) ==
    IF h \in kept \/ \E k \in 2..size : cells[k] = h
    THEN UNCHANGED <<freed, emitterFate>>
    ELSE Free(h)

\* The first handler is removed, whichever was given.
removeListener ==
    /\ MayCall /\ InHandler /\ size > 0
    /\ cells' = Tail(listeners) \o <<cells[size]>>
                    \o SubSeq(cells, size + 1, Len(cells))
    /\ size' = size - 1
    /\ walks' = [i \in DOMAIN walks |-> [walks[i] EXCEPT !.removed = TRUE]]
    /\ Release(cells[1])
    /\ emitterCalls' = emitterCalls + 1
    /\ UNCHANGED <<capacity, lastWalk, kept>>

LastCell(walk) == walk.last

emit ==
    /\ MayCall /\ InHandler /\ Len(walks) < MaxDepth
    /\ walks' = Append(walks, [NoWalk EXCEPT !.last = size, !.start = listeners])
    /\ emitterCalls' = emitterCalls + 1
    /\ UNCHANGED <<cells, size, capacity, lastWalk, holders, emitterFate>>

\* The innermost emit() calls the next handler; an exception is dropped.
callNext ==
    LET w == walks[Len(walks)] IN
    /\ walks # <<>> /\ emitterFate = "fine" /\ w.at <= LastCell(w)
    /\ IF w.array = "own" /\ cells[w.at] \notin freed
       THEN /\ walks' = [walks EXCEPT ![Len(walks)] =
                           [w EXCEPT !.at = @ + 1,
                                     !.said = Append(@, cells[w.at])]]
            /\ UNCHANGED emitterFate
       ELSE emitterFate' = "undefined" /\ UNCHANGED walks
    /\ UNCHANGED <<cells, size, capacity, lastWalk, holders, emitterCalls>>

emitReturns ==
    LET w == walks[Len(walks)] IN
    /\ walks # <<>> /\ emitterFate = "fine" /\ w.at > LastCell(w)
    /\ lastWalk' = w
    /\ walks' = SubSeq(walks, 1, Len(walks) - 1)
    /\ UNCHANGED <<cells, size, capacity, holders, emitterCalls, emitterFate>>

Next ==
    \/ \E h \in Handler : on(h) \/ once(h) \/ forget(h)
    \/ removeListener \/ emit \/ callNext \/ emitReturns

Spec == Start /\ [][Next]_vars

(***************************************************************************)
(* Properties                                                              *)
(***************************************************************************)
\* Every variable keeps its type; the vector never outgrows its array.
TypeOK ==
    /\ size \in 0..MaxHandlers /\ size <= capacity /\ Len(cells) >= size
    /\ \A i \in DOMAIN cells : cells[i] \in Handler
    /\ Len(walks) <= MaxDepth
    /\ kept \subseteq Handler /\ freed \subseteq Handler
    /\ emitterCalls \in 0..MaxCalls
    /\ emitterFate \in {"fine", "undefined"}

\* An emit() during which no handler was removed calls exactly the handlers
\* registered when it began, once each and in order, also when its handlers
\* register others or emit again.
EmitCallsThemAll == ~lastWalk.removed => lastWalk.said = lastWalk.start

\* Whatever the handlers do, an emit() that returns has made as many calls as
\* there were handlers when it began: after a removal it skips one and calls
\* a stale cell instead.
EmitCallsAsMany == Len(lastWalk.said) = Len(lastWalk.start)

\* Freed memory is used in two ways only.  A handler registered another one
\* and the vector moved while there were handlers left to call; or, in an emit()
\* during which a handler was removed, the one that runs or the one about to be
\* called was freed.  Handlers that neither register nor remove are safe,
\* whatever the script holds; so are handlers that remove and that the script
\* holds itself.
UndefinedNeedsChange ==
    emitterFate = "undefined" =>
        \E i \in DOMAIN walks :
            LET w == walks[i] IN
            \/ w.array = "freed" /\ w.at <= w.last
            \/ w.removed /\ w.said # <<>> /\ w.said[Len(w.said)] \in freed
            \/ w.removed /\ w.at <= w.last /\ cells[w.at] \in freed

\* No registered handler is freed, nor one that the script holds.
RegisteredAlive ==
    /\ \A k \in 1..size : cells[k] \notin freed
    /\ kept \cap freed = {}

\* The facts above.
Safety ==
    /\ EmitCallsThemAll /\ EmitCallsAsMany
    /\ UndefinedNeedsChange /\ RegisteredAlive

=============================================================================
