---------------------------- MODULE MCLibraries -----------------------------
(***************************************************************************)
(* The libraries of the runtime that run on the thread of their caller,    *)
(* and the bridge to protoCore below them, side by side.  They share no    *)
(* state, and a behaviour exercises one of them: part names it.  The       *)
(* bridge is exercised by itself, with every function of it, and below the *)
(* protoCore global of scripts.  The constants are parameters of the       *)
(* instances.                                                              *)
(***************************************************************************)
EXTENDS Integers, Sequences, FiniteSets

CONSTANTS
    Thread, Value, Nullish, Proto, MaxBridgeCalls,      \* GCBridge
    Sample, Index, MaxInt32, MaxOps,                    \* ProtoCore
    Versions, VersionRange,                             \* Semver
    Package, Version, Concurrency, MaxInstalls, MaxPublished,  \* Packages
    Handler, MaxHandlers, MaxDepth, MaxEmitterCalls,    \* Events
    Chunk, highWaterMark, MaxWrites,                    \* Streams
    Buf, Number, Position, MaxSize, SizeMod,            \* Buffer
    Depth, MaxFsChanges                                 \* Resolver

VARIABLES
    part,
    mapMutex, stack, forward, reverse, held, wrapped, calls,
    class, protoSet, protoMultiset, sparseList, ops, members, copies, stored,
    published,
    registry, changes, cache, call, maxConcurrency, todo, resolved, task,
    fetched, word, seen, overlapped, dir, tmp, reply, made,
    cells, size, capacity, walks, lastWalk, kept, freed, emitterCalls,
    emitterFate,
    kind, emitter, global, buffer, streamEnded, offered, writes, streamFate,
    bytes, bufferFate,
    place, json, entries, fsChanges

bridgeVars   == <<mapMutex, stack, forward, reverse, held, wrapped, calls>>
coreVars     == <<class, protoSet, protoMultiset, sparseList, ops, members,
                  copies, stored>>
packageVars  == <<registry, changes, cache, call, maxConcurrency, todo,
                  resolved, task, fetched, word, seen, overlapped, dir, tmp,
                  reply, made>>
emitterVars  == <<cells, size, capacity, walks, lastWalk, kept, freed,
                  emitterCalls, emitterFate>>
streamVars   == <<kind, emitter, global, buffer, streamEnded, offered, writes,
                  streamFate>>
bufferVars   == <<bytes, bufferFate>>
resolverVars == <<place, json, entries, fsChanges>>
vars == <<part, bridgeVars, coreVars, published, packageVars, emitterVars,
          streamVars, bufferVars, resolverVars>>

\* JS values: small, odd (a half) and large numbers, functions f and g.
Js(type, x) == [type |-> type, x |-> x]
Values ==
    {Js("undefined", 0), Js("null", 0), Js("number", 2), Js("number", 1),
     Js("number", 6), Js("bigint", 1), Js("bigint", 3), Js("array", 6),
     Js("array", 1), Js("string", 0), Js("object", "none"), Js("object", "f"),
     Js("function", "g")}

\* What a JS value is to the collections.
IsJs(v) ==
    /\ v = Js(v.type, v.x)
    /\ v.type \in {"undefined", "null", "number", "bigint", "array", "string",
                  "object", "function"}
    /\ v.type \in {"number", "bigint", "array"} => v.x \in Int
    /\ v.type \in {"undefined", "null"} => v.x = 0

\* Versions of a package in the order of their names, one that is no version.
Release(major, minor, patch, pre) ==
    [parsed |-> TRUE, n |-> <<major, minor, patch>>, pre |-> pre]
Releases ==
    <<Release(0, 1, 0, 0), Release(0, 1, 2, 0), Release(0, 2, 0, 0),
      Release(1, 0, 0, 0), Release(1, 0, 0, 1), Release(1, 10, 0, 0),
      Release(1, 2, 0, 0), Release(2, 0, 0, 0),
      [parsed |-> FALSE, n |-> <<0, 0, 0>>, pre |-> 0]>>
Ranges ==
    [op : {"=", ">", ">=", "<", "<=", "~", "^"}, target : DOMAIN Releases]
        \cup [op : {"*", "latest"}, target : {1}]

\* Positions before, inside, at and behind the end of a buffer.
Positions == {-2, -1, 0, 1, 3}

C == INSTANCE ProtoCore WITH MaxCalls <- MaxBridgeCalls
V == INSTANCE Semver WITH Range <- VersionRange
L == INSTANCE Packages WITH MaxCalls <- MaxInstalls, MaxChanges <- MaxPublished
E == INSTANCE Events WITH MaxCalls <- MaxEmitterCalls
S == INSTANCE Streams
B == INSTANCE Buffer
R == INSTANCE Resolver WITH
        Specifier <- {<<"a", "b">>, <<"a", "b", "c">>},
        Candidate <- {<<"file", "">>, <<"ext", ".node">>, <<"index", ".mjs">>},
        MaxChanges <- MaxFsChanges

\* Bounds and levels are numbers; no thread is called nobody; the values that
\* scripts pass to protoCore are JS values and the bridge can map their functions;
\* packages and versions are numbered in the order of their names, and there is a
\* last one among the published versions; the numbers of a release and the rank
\* of its prerelease are natural, and the version that a range names is listed.
ASSUME LibraryAssumption ==
    /\ C!Nobody \notin Thread /\ "p" \in Proto
    /\ \A v \in Sample : IsJs(v) /\ C!FunctionsOf(v) \subseteq Value
    /\ MaxBridgeCalls \in Nat /\ MaxInt32 \in Int /\ MaxOps \in Nat
    /\ Versions \in Seq([parsed : BOOLEAN, n : Nat \X Nat \X Nat, pre : Nat])
    /\ \A r \in VersionRange : r.target \in DOMAIN Versions
    /\ Package \subseteq Nat /\ IsFiniteSet(Package)
    /\ Version \subseteq Nat \ {0} /\ Concurrency \subseteq Nat \ {0}
    /\ \A set \in SUBSET Version :
          set # {} => \E v \in set : \A w \in set : w <= v
    /\ MaxHandlers \in Nat /\ MaxDepth \in Nat /\ MaxEmitterCalls \in Nat
    /\ highWaterMark \in Nat /\ MaxWrites \in Nat
    /\ Number \subseteq Int
    /\ Position \subseteq Int /\ MaxSize \in Nat /\ SizeMod \in Nat
    /\ MaxSize < SizeMod
    /\ Depth \in Nat

Parts == {"bridge", "protoCore", "semver", "packages", "events", "streams",
          "buffer", "resolver"}

Init ==
    /\ part \in Parts
    /\ C!Start /\ V!Start /\ L!Start /\ E!Start /\ S!Start /\ B!Start /\ R!Start
    /\ class # "Set" => part = "protoCore"

Only(which) == part = which /\ UNCHANGED part

Next ==
    \/ /\ Only("bridge") /\ C!BridgeNext
       /\ UNCHANGED <<coreVars, published, packageVars, emitterVars, streamVars,
                      bufferVars, resolverVars>>
    \/ /\ Only("protoCore") /\ C!Next
       /\ UNCHANGED <<published, packageVars, emitterVars, streamVars,
                      bufferVars, resolverVars>>
    \/ /\ Only("semver") /\ V!Next
       /\ UNCHANGED <<bridgeVars, coreVars, packageVars, emitterVars,
                      streamVars, bufferVars, resolverVars>>
    \/ /\ Only("packages") /\ L!Next
       /\ UNCHANGED <<bridgeVars, coreVars, published, emitterVars, streamVars,
                      bufferVars, resolverVars>>
    \/ /\ Only("events") /\ E!Next
       /\ UNCHANGED <<bridgeVars, coreVars, published, packageVars, streamVars,
                      bufferVars, resolverVars>>
    \/ /\ Only("streams") /\ S!Next
       /\ UNCHANGED <<bridgeVars, coreVars, published, packageVars,
                      emitterVars, bufferVars, resolverVars>>
    \/ /\ Only("buffer") /\ B!Next
       /\ UNCHANGED <<bridgeVars, coreVars, published, packageVars,
                      emitterVars, streamVars, resolverVars>>
    \/ /\ Only("resolver") /\ R!Next
       /\ UNCHANGED <<bridgeVars, coreVars, published, packageVars,
                      emitterVars, streamVars, bufferVars>>

Spec == Init /\ [][Next]_vars

\* The variables of every module keep their types, and no more downloads run
\* than the call allows.
TypesOK ==
    C!TypeOK /\ L!TypeOK /\ E!TypeOK /\ S!TypeOK /\ B!TypeOK /\ R!TypeOK

\* The bridge keeps the values it maps, and only a call that waits for its own
\* lock keeps the lock (GCBridge!BridgeSafety).
MappingSafety == C!BridgeSafety

\* The collections of protoCore answer as their operations say for every value
\* that survives its conversion (ProtoCore!CoreSafety).
CollectionSafety == part = "protoCore" => C!CoreSafety

\* The bridge to protoCore and what scripts build on it: the two facts above.
BridgeSafety == MappingSafety /\ CollectionSafety

\* npm chooses the newest version in the range (Semver!ResolvesHighest).
VersionSafety == part = "semver" => V!ResolvesHighest

\* npm: what a call reports as installed is, also when parallel downloads race
\* for their results (Packages!Safety).
InstallSafety == L!Safety

\* The package manager: the two facts above.
PackageSafety == VersionSafety /\ InstallSafety

\* An emit() calls the handlers it began with, and uses freed memory only after
\* its handlers registered or removed one (Events!Safety).
EmitterSafety == E!Safety

\* A stream keeps what was written before its end (Streams!Safety).
StreamSafety == S!Safety

\* The index arithmetic of Buffer stays in the buffers, and a buffer comes back
\* from its hexadecimal text, and from its utf8 text if it holds one
\* (Buffer!Safety).
BufferSafety == part = "buffer" => B!Safety

\* A file that is found exists and the nearest usable package decides
\* (Resolver!Safety).
ResolverSafety == part = "resolver" => R!Safety

\* What scripts and require() use: the four facts above.
ScriptSafety ==
    EmitterSafety /\ StreamSafety /\ BufferSafety /\ ResolverSafety

=============================================================================
