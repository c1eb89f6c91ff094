------------------------------ MODULE GCBridge ------------------------------
(***************************************************************************)
(* The bridge between QuickJS values and protoCore objects                 *)
(* (src/src/GCBridge.cpp).  Its tables are static and guarded by mapMutex, *)
(* a std::mutex, which a thread that holds it cannot take again.  The main *)
(* thread calls it, and so do the accept threads of servers when they run  *)
(* a listener of the script.                                               *)
(*                                                                         *)
(* A call in progress is a stack of frames: the first one is about to take *)
(* mapMutex.  A function that calls another one of the bridge while it     *)
(* holds the lock leaves the frame of the inner call with the lock taken,  *)
(* and what it would do after that call is never reached.                  *)
(***************************************************************************)
EXTENDS Naturals, Sequences

CONSTANTS
    Thread,     \* threads that call the bridge
    Value,      \* JS values, by the payload that makes their key
    Nullish,    \* the null and undefined ones among them
    Proto,      \* protoCore objects
    MaxCalls    \* bound: calls made from outside the bridge

VARIABLES
    mapMutex,   \* the thread that holds the lock, or Nobody
    stack,      \* [Thread -> Seq(frame)]
    forward,    \* mapping object of a JS value: key "jsval:<payload>"
    reverse,    \* protoCore objects with an entry of their own
    held,       \* [Value -> Nat]: references the bridge holds (JS_DupValue)
    wrapped,    \* the context has its JSContextWrapper as opaque
    calls       \* calls made so far

bridgeVars == <<mapMutex, stack, forward, reverse, held, wrapped, calls>>

Nobody == "nobody"
Unmapped == [proto |-> "none", isRoot |-> FALSE, isWeakRef |-> FALSE]

Frame(op, v, p) == [op |-> op, js |-> v, proto |-> p]

BridgeStart ==
    /\ mapMutex = Nobody
    /\ stack = [t \in Thread |-> <<>>]
    /\ forward = [v \in Value |-> Unmapped]
    /\ reverse = {}
    /\ held = [v \in Value |-> 0]
    /\ wrapped = FALSE
    /\ calls = 0

(***************************************************************************)
(* Calls and the lock                                                      *)
(***************************************************************************)
Idle(t) == stack[t] = <<>> /\ wrapped

Free(t) == mapMutex = Nobody

Enter(t, frame) ==
    /\ Idle(t) /\ calls < MaxCalls
    /\ stack' = [stack EXCEPT ![t] = <<frame>>]
    /\ calls' = calls + 1
    /\ UNCHANGED <<mapMutex, forward, reverse, held, wrapped>>

\* lock_guard: the body of op runs with the lock, f is its frame.
Locks(t, op) ==
    /\ stack[t] # <<>> /\ Head(stack[t]).op = op
    /\ Free(t)
    /\ UNCHANGED <<wrapped, calls>>

\* The body ends: inner calls keep the lock, without any it is released.
Ends(t, inner) ==
    /\ stack' = [stack EXCEPT ![t] = inner \o Tail(@)]
    /\ mapMutex' = IF stack'[t] = <<>> THEN Nobody ELSE t

isActiveJSValue(v) == v \notin Nullish

\* initialize() is called before the context has its opaque: getProtoContext
\* is null and it returns; only then the wrapper is stored.
JSContextWrapper ==
    /\ ~wrapped
    /\ wrapped' = TRUE
    /\ UNCHANGED <<mapMutex, stack, forward, reverse, held, calls>>

(***************************************************************************)
(* Mappings                                                                *)
(***************************************************************************)
\* A slip: the value is stored without a reference of its own.
StoredPlain(v) == held

Stored(v) == [held EXCEPT ![v] = @ + 1]

registerMapping(t) ==
    LET f == Head(stack[t]) IN
    /\ Locks(t, "registerMapping")
    /\ isActiveJSValue(f.js)
    /\ forward' = [forward EXCEPT ![f.js] =
                     [proto |-> f.proto, isRoot |-> FALSE, isWeakRef |-> FALSE]]
    /\ held' = Stored(f.js)
    /\ reverse' = reverse \cup {f.proto}
    /\ Ends(t, <<Frame("registerRoot", f.js, f.proto)>>)

\* A null or undefined value: registerMapping returns before it locks.
registerNothing(t) ==
    /\ stack[t] # <<>> /\ Head(stack[t]).op = "registerMapping"
    /\ ~isActiveJSValue(Head(stack[t]).js)
    /\ stack' = [stack EXCEPT ![t] = Tail(@)]
    /\ UNCHANGED <<mapMutex, forward, reverse, held, wrapped, calls>>

\* The reference taken by registerMapping is not given back.
unregisterMapping(t) ==
    LET v == Head(stack[t]).js IN
    /\ Locks(t, "unregisterMapping")
    /\ IF forward[v].isRoot
       THEN /\ Ends(t, <<Frame("unregisterRoot", v, "none")>>)
            /\ UNCHANGED <<forward, reverse>>
       ELSE /\ forward' = [forward EXCEPT ![v] = Unmapped]
            /\ reverse' = reverse \ {forward[v].proto}
            /\ Ends(t, <<>>)
    /\ UNCHANGED held

registerRoot(t) ==
    LET f == Head(stack[t]) IN
    /\ Locks(t, "registerRoot")
    /\ IF forward[f.js] # Unmapped
       THEN /\ forward' = [forward EXCEPT ![f.js].isRoot = TRUE]
            /\ Ends(t, <<>>)
       ELSE /\ Ends(t, <<[f EXCEPT !.op = "registerMapping"], f>>)
            /\ UNCHANGED forward
    /\ UNCHANGED <<reverse, held>>

unregisterRoot(t) ==
    LET v == Head(stack[t]).js IN
    /\ Locks(t, "unregisterRoot")
    /\ forward' = [forward EXCEPT ![v].isRoot = FALSE]
    /\ Ends(t, <<>>)
    /\ UNCHANGED <<reverse, held>>

\* A weak reference takes a reference like any other, and no reverse entry.
registerWeakRef(t) ==
    LET f == Head(stack[t]) IN
    /\ Locks(t, "registerWeakRef")
    /\ forward' = [forward EXCEPT ![f.js] =
                     [proto |-> f.proto, isRoot |-> FALSE, isWeakRef |-> TRUE]]
    /\ held' = Stored(f.js)
    /\ Ends(t, <<>>)
    /\ UNCHANGED reverse

unregisterWeakRef(t) ==
    LET v == Head(stack[t]).js IN
    /\ Locks(t, "unregisterWeakRef")
    /\ forward' = IF forward[v].isWeakRef
                  THEN [forward EXCEPT ![v] = Unmapped] ELSE forward
    /\ Ends(t, <<>>)
    /\ UNCHANGED <<reverse, held>>

\* getProtoObject, getJSValue (null: the pointer cannot be read back),
\* detectLeaks and scanRoots read the tables under the lock.
Reads == {"getProtoObject", "getJSValue", "detectLeaks", "scanRoots"}

readTables(t) ==
    /\ \E op \in Reads : Locks(t, op)
    /\ Ends(t, <<>>)
    /\ UNCHANGED <<forward, reverse, held>>

\* getMemoryStats counts under the lock and then calls detectLeaks.
getMemoryStats(t) ==
    /\ Locks(t, "getMemoryStats")
    /\ Ends(t, <<Frame("detectLeaks", Head(stack[t]).js, "none")>>)
    /\ UNCHANGED <<forward, reverse, held>>

\* cleanup() drops the tables, not the references.
cleanup(t) ==
    /\ Locks(t, "cleanup")
    /\ forward' = [v \in Value |-> Unmapped]
    /\ reverse' = {}
    /\ Ends(t, <<>>)
    /\ UNCHANGED held

\* The functions of the bridge that its callers use.
Public == Reads \cup {"registerMapping", "unregisterMapping", "registerRoot",
              "unregisterRoot", "registerWeakRef", "unregisterWeakRef",
              "getMemoryStats", "cleanup"}

BridgeStep(t) ==
    \/ registerMapping(t) \/ registerNothing(t) \/ unregisterMapping(t)
    \/ registerRoot(t) \/ unregisterRoot(t) \/ registerWeakRef(t)
    \/ unregisterWeakRef(t) \/ readTables(t) \/ getMemoryStats(t)
    \/ cleanup(t)

BridgeCall(t) ==
    \E op \in Public, v \in Value, p \in Proto : Enter(t, Frame(op, v, p))

BridgeNext ==
    \/ JSContextWrapper
    \/ \E t \in Thread : BridgeCall(t) \/ BridgeStep(t)

BridgeSpec == BridgeStart /\ [][BridgeNext]_bridgeVars

(***************************************************************************)
(* Properties                                                              *)
(***************************************************************************)
\* Every variable keeps its type; no call nests deeper than one inner call.
BridgeTypeOK ==
    /\ mapMutex \in Thread \cup {Nobody}
    /\ \A t \in Thread : Len(stack[t]) <= 2
    /\ forward \in [Value -> [proto : Proto \cup {"none"}, isRoot : BOOLEAN,
                              isWeakRef : BOOLEAN]]
    /\ reverse \subseteq Proto
    /\ held \in [Value -> 0..MaxCalls]
    /\ wrapped \in BOOLEAN
    /\ calls \in 0..MaxCalls

\* The key of a mapping is the payload of the value: as long as a value has
\* one the bridge holds a reference, so that no other value gets its payload.
MappedIsPinned == \A v \in Value : forward[v] # Unmapped => held[v] > 0

\* Only registerWeakRef makes a mapping that can become a root: the root flag
\* of a mapping made by registerMapping is never set, since registerMapping
\* waits in registerRoot for the lock it holds.
RootsAreWeak ==
    \A v \in Value : forward[v].isRoot => forward[v].isWeakRef

\* The lock stays taken exactly when a thread waits for itself, and then a
\* value was registered, a root was, a root was given up or the statistics
\* were asked for.
HolderWaitsForItself ==
    mapMutex # Nobody =>
        Head(stack[mapMutex]).op
            \in {"registerRoot", "registerMapping", "unregisterRoot",
                 "detectLeaks"}

\* The three facts above.
BridgeSafety == MappedIsPinned /\ RootsAreWeak /\ HolderWaitsForItself

=============================================================================
