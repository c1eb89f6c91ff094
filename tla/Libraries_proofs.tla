-------------------------- MODULE Libraries_proofs ---------------------------
(***************************************************************************)
(* Proofs about the libraries of MCLibraries for every value of their      *)
(* constants: the tables of the bridge to protoCore and the collections    *)
(* above it, versions and the package manager, emitters, streams, buffers  *)
(* and the resolver.                                                       *)
(***************************************************************************)
EXTENDS MCLibraries, FiniteSetTheorems, SequenceTheorems, WellFoundedInduction, TLAPS

LEMMA Bounds ==
    /\ MaxHandlers \in Nat /\ MaxDepth \in Nat /\ MaxEmitterCalls \in Nat
    /\ highWaterMark \in Nat /\ MaxWrites \in Nat
    /\ Depth \in Nat
BY LibraryAssumption

\* A set of natural numbers has a smallest element.
LEMMA Smallest == ASSUME NEW T, T \subseteq Nat, T # {}
                  PROVE  \E x \in T : \A y \in T : x <= y
<1>1. PICK x \in T : \A y \in T : ~(<<y, x>> \in OpToRel(<, Nat))
  BY WFMin, NatLessThanWellFounded
<1>2. \A y \in T : ~(y < x)
  BY <1>1 DEF OpToRel
<1>3. \A y \in T : x <= y
  <2> TAKE y \in T
  <2>1. x \in Nat /\ y \in Nat
    OBVIOUS
  <2> QED  BY <1>2, <2>1
<1> QED  BY <1>3

-----------------------------------------------------------------------------
(* stream                                                                  *)

\* Only a Writable that was not finalized has chunks or has ended, and an
\* emitter was freed only if there was one.
StreamState ==
    /\ offered \in Seq(Chunk)
    /\ streamEnded \in BOOLEAN /\ global \in BOOLEAN
    /\ kind = "none" => offered = << >>
    /\ kind # "Writable" => buffer = << >> /\ streamEnded = FALSE
    /\ emitter = "freed" => global

StreamInv == S!TypeOK /\ StreamState /\ S!Safety

LEMMA StreamStart == ASSUME S!Start
                     PROVE  StreamInv
<1>1. << >> \in Seq(Chunk)
  BY EmptySeq
<1>2. S!TypeOK
  BY <1>1, Bounds DEF S!Start, S!TypeOK
<1>3. StreamState
  BY <1>1 DEF S!Start, StreamState
<1>4. S!Safety
  BY DEF S!Start, S!Safety, S!BufferIsWhatWasWritten, S!ReadableIsSilent,
     S!readableRead, S!UndefinedNeedsGlobal
<1> QED  BY <1>2, <1>3, <1>4 DEF StreamInv

LEMMA StreamStutter == ASSUME StreamInv, UNCHANGED streamVars
                       PROVE  StreamInv'
BY DEF streamVars, StreamInv, S!TypeOK, StreamState, S!Safety,
   S!BufferIsWhatWasWritten, S!ReadableIsSilent, S!readableRead, S!UndefinedNeedsGlobal

\* What a class of streams may hold decides what read() says.
LEMMA StreamSilent == ASSUME StreamState'
                      PROVE  S!ReadableIsSilent'
BY DEF StreamState, S!ReadableIsSilent, S!readableRead

LEMMA StreamWrite == ASSUME StreamInv, NEW c \in Chunk, S!writableWrite(c)
                     PROVE  StreamInv'
<1>0. S!TypeOK /\ StreamState /\ S!BufferIsWhatWasWritten /\ S!UndefinedNeedsGlobal
  BY DEF StreamInv, S!Safety
<1>1. Append(buffer, c) \in Seq(Chunk) /\ Append(offered, c) \in Seq(Chunk)
  BY <1>0, AppendProperties DEF S!TypeOK, StreamState
<1>2. /\ buffer' = S!Pushed(c) /\ UNCHANGED <<kind, emitter, global, streamEnded>>
      /\ offered' = (IF streamEnded THEN offered ELSE Append(offered, c))
      /\ kind \in {"Writable", "Duplex", "Transform"}
  BY DEF S!writableWrite
<1>3. S!TypeOK'
  BY <1>0, <1>1, <1>2, Bounds DEF S!TypeOK, S!writableWrite, S!Pushed
<1>4. StreamState'
  BY <1>0, <1>1, <1>2 DEF StreamState, S!Pushed, S!Accepts
<1>5. S!BufferIsWhatWasWritten'
  BY <1>0, <1>2 DEF S!BufferIsWhatWasWritten, S!Pushed, S!Accepts
<1>6. S!UndefinedNeedsGlobal'
  BY <1>0, <1>2 DEF S!UndefinedNeedsGlobal, S!writableWrite, S!UsesFreed, StreamState
<1> QED  BY <1>3, <1>4, <1>5, <1>6, StreamSilent DEF StreamInv, S!Safety

\* end(), with a chunk or without one.
LEMMA StreamEnd ==
    ASSUME StreamInv, NEW w \in Seq(Chunk), w = << >> \/ \E c \in Chunk : w = <<c>>,
           S!writableEnd(w)
    PROVE  StreamInv'
<1>0. S!TypeOK /\ StreamState /\ S!BufferIsWhatWasWritten /\ S!UndefinedNeedsGlobal
  BY DEF StreamInv, S!Safety
<1>1. /\ kind = "Writable" /\ streamEnded' = TRUE /\ UNCHANGED <<kind, emitter, global>>
      /\ buffer' = (IF w = << >> THEN buffer ELSE S!Pushed(w[1]))
      /\ offered' = IF streamEnded THEN offered ELSE offered \o w
  BY DEF S!writableEnd
<1>2. buffer = offered
  BY <1>0, <1>1 DEF S!BufferIsWhatWasWritten
<1>3. buffer' = offered' /\ offered' \in Seq(Chunk)
  <2>1. CASE w = << >>
    <3>1. offered \o << >> = offered
      BY <1>0, ConcatEmptySeq DEF StreamState
    <3> QED  BY <1>0, <1>1, <1>2, <2>1, <3>1 DEF StreamState
  <2>2. ASSUME NEW c \in Chunk, w = <<c>>
        PROVE  buffer' = offered' /\ offered' \in Seq(Chunk)
    <3>1. offered \o <<c>> = Append(offered, c) /\ Append(offered, c) \in Seq(Chunk)
      BY <1>0 DEF StreamState
    <3>2. w # << >> /\ w[1] = c
      BY <2>2
    <3>3. buffer' = IF streamEnded THEN buffer ELSE Append(buffer, c)
      BY <1>1, <3>2 DEF S!Pushed, S!Accepts
    <3> QED  BY <1>0, <1>1, <1>2, <2>2, <3>1, <3>3 DEF StreamState
  <2> QED  BY <2>1, <2>2
<1>4. S!TypeOK'
  <2>1. writes < MaxWrites /\ writes' = writes + 1 /\ streamFate' \in {"fine", "undefined"}
    BY DEF S!writableEnd
  <2>2. buffer' \in Seq(Chunk) /\ kind' = kind
    BY <1>1, <1>3
  <2> QED  BY <1>0, <2>1, <2>2, Bounds DEF S!TypeOK
<1>5. StreamState'
  BY <1>0, <1>1, <1>3 DEF StreamState
<1>6. S!UndefinedNeedsGlobal'
  BY <1>0, <1>1 DEF S!UndefinedNeedsGlobal, S!writableEnd, S!UsesFreed, StreamState
<1> QED
  BY <1>3, <1>4, <1>5, <1>6, StreamSilent DEF StreamInv, S!Safety, S!BufferIsWhatWasWritten

LEMMA StreamStep == ASSUME StreamInv, S!Next
                    PROVE  StreamInv'
<1>0. S!TypeOK /\ StreamState /\ S!BufferIsWhatWasWritten /\ S!UndefinedNeedsGlobal
  BY DEF StreamInv, S!Safety
<1> USE DEF StreamInv, S!Safety
<1>1. CASE S!DefineGlobal
  <2>1. S!TypeOK' /\ StreamState'
    BY <1>0, <1>1 DEF S!DefineGlobal, S!TypeOK, StreamState
  <2>2. S!BufferIsWhatWasWritten' /\ S!UndefinedNeedsGlobal'
    BY <1>0, <1>1 DEF S!DefineGlobal, S!BufferIsWhatWasWritten, S!UndefinedNeedsGlobal
  <2> QED  BY <2>1, <2>2, StreamSilent
<1>2. ASSUME NEW k \in {"Readable", "Writable", "Duplex", "Transform"},
             NEW e \in BOOLEAN, S!Construct(k, e)
      PROVE  StreamInv'
  <2>1. S!TypeOK' /\ StreamState'
    BY <1>0, <1>2 DEF S!Construct, S!TypeOK, StreamState
  <2>2. S!BufferIsWhatWasWritten' /\ S!UndefinedNeedsGlobal'
    BY <1>0, <1>2 DEF S!Construct, S!BufferIsWhatWasWritten, S!UndefinedNeedsGlobal,
       StreamState
  <2> QED  BY <2>1, <2>2, StreamSilent
<1>3. CASE S!Finalize
  <2>1. S!TypeOK' /\ StreamState'
    BY <1>0, <1>3, EmptySeq DEF S!Finalize, S!TypeOK, StreamState
  <2>2. S!BufferIsWhatWasWritten' /\ S!UndefinedNeedsGlobal'
    BY <1>0, <1>3 DEF S!Finalize, S!BufferIsWhatWasWritten, S!UndefinedNeedsGlobal,
       StreamState, S!UsesFreed
  <2> QED  BY <2>1, <2>2, StreamSilent
<1>4. ASSUME NEW c \in Chunk, S!writableEnd(<<c>>)
      PROVE  StreamInv'
  <2>1. <<c>> \in Seq(Chunk)
    OBVIOUS
  <2> QED  BY <1>4, <2>1, StreamEnd
<1>5. CASE S!writableEnd(<< >>)
  <2>1. << >> \in Seq(Chunk)
    BY EmptySeq
  <2> QED  BY <1>5, <2>1, StreamEnd
<1> QED
  BY <1>1, <1>2, <1>3, <1>4, <1>5, StreamWrite
  DEF S!Next, S!ReadableStreamConstructor, S!WritableStreamConstructor,
      S!DuplexStreamConstructor, S!TransformStreamConstructor, S!PassThroughConstructor

LEMMA StreamNext == ASSUME [Next]_vars
                    PROVE  S!Next \/ UNCHANGED streamVars
BY DEF Next, vars

\* StreamSafety (MCLibraries) for every high-water mark and any chunks: a
\* Writable holds exactly what was written before its first end(), a Readable
\* says nothing, and freed memory is used only with a global EventEmitter.
THEOREM WritesKept == Spec => []StreamSafety
<1>1. Init => StreamInv
  BY StreamStart DEF Init
<1>2. StreamInv /\ [Next]_vars => StreamInv'
  BY StreamNext, StreamStep, StreamStutter
<1>3. StreamInv => StreamSafety
  BY DEF StreamInv, StreamSafety
<1> QED  BY <1>1, <1>2, <1>3, PTL DEF Spec

-----------------------------------------------------------------------------
(* The bridge to protoCore                                                 *)

BridgeFrame == [op : C!Public, js : Value, proto : Proto \cup {"none"}]

Mapping == [proto : Proto \cup {"none"}, isRoot : BOOLEAN, isWeakRef : BOOLEAN]

\* The calls that a holder of the lock can be stuck in: an inner call, and
\* below the registerMapping of an unknown root its registerRoot.
Waits(s) ==
    \/ \E f \in BridgeFrame :
          s = <<f>> /\ f.op \in {"registerRoot", "unregisterRoot", "detectLeaks"}
    \/ \E f \in BridgeFrame : \E g \in BridgeFrame :
          s = <<f, g>> /\ f.op = "registerMapping" /\ g.op = "registerRoot"

\* A thread without the lock is outside of the bridge or about to take it.
Before(s) == s = << >> \/ \E f \in BridgeFrame : s = <<f>>

BridgeStacks ==
    /\ mapMutex \in Thread \cup {C!Nobody}
    /\ DOMAIN stack = Thread
    /\ \A t \in Thread : IF t = mapMutex THEN Waits(stack[t]) ELSE Before(stack[t])

\* A mapping that is no weak reference was made by a call that has not returned.
StrongIsHeld ==
    mapMutex = C!Nobody =>
        \A v \in Value : forward[v] = C!Unmapped \/ forward[v].isWeakRef

BridgeTables ==
    /\ forward \in [Value -> Mapping]
    /\ held \in [Value -> Nat]
    /\ C!MappedIsPinned /\ C!RootsAreWeak
    /\ StrongIsHeld

BridgeInv == BridgeStacks /\ BridgeTables

LEMMA UnmappedIsMapping == C!Unmapped \in Mapping /\ ~C!Unmapped.isRoot
BY DEF C!Unmapped, Mapping

LEMMA SameMapping ==
    ASSUME NEW m \in Mapping, NEW n \in Mapping,
           m.proto = n.proto, m.isRoot = n.isRoot, m.isWeakRef = n.isWeakRef
    PROVE  m = n
BY DEF Mapping

LEMMA BridgeStarts == ASSUME C!Start
                      PROVE  BridgeInv
<1>1. BridgeStacks
  BY LibraryAssumption DEF C!Start, C!BridgeStart, BridgeStacks, Before
<1>2. forward \in [Value -> Mapping] /\ held \in [Value -> Nat]
  BY UnmappedIsMapping DEF C!Start, C!BridgeStart
<1>3. \A v \in Value : forward[v] = C!Unmapped
  BY DEF C!Start, C!BridgeStart
<1>4. BridgeTables
  BY <1>2, <1>3, UnmappedIsMapping
  DEF BridgeTables, C!MappedIsPinned, C!RootsAreWeak, StrongIsHeld
<1> QED  BY <1>1, <1>4 DEF BridgeInv

LEMMA BridgeStutter == ASSUME BridgeInv, UNCHANGED <<mapMutex, stack, forward, held>>
                       PROVE  BridgeInv'
BY DEF BridgeInv, BridgeStacks, BridgeTables, C!MappedIsPinned, C!RootsAreWeak,
   StrongIsHeld

\* A step under the lock finds one frame and the lock free.
LEMMA LockedStep ==
    ASSUME BridgeInv, NEW t \in Thread, NEW o, C!Locks(t, o)
    PROVE  /\ mapMutex = C!Nobody /\ t # mapMutex
           /\ Head(stack[t]) \in BridgeFrame /\ stack[t] = <<Head(stack[t])>>
           /\ Head(stack[t]).op = o /\ Head(stack[t]).js \in Value
<1>1. mapMutex = C!Nobody /\ stack[t] # << >> /\ Head(stack[t]).op = o
  BY DEF C!Locks, C!Free
<1>2. t # mapMutex
  BY <1>1, LibraryAssumption
<1>3. Before(stack[t])
  BY <1>2 DEF BridgeInv, BridgeStacks
<1>4. PICK f \in BridgeFrame : stack[t] = <<f>>
  BY <1>1, <1>3 DEF Before
<1>5. Head(stack[t]) = f
  BY <1>4
<1>6. f.js \in Value
  BY DEF BridgeFrame
<1> QED  BY <1>1, <1>2, <1>4, <1>5, <1>6

\* The end of a body without inner calls gives the lock back; with inner calls
\* its thread waits for it.
LEMMA BodyEnds ==
    ASSUME BridgeInv, NEW t \in Thread, NEW o, C!Locks(t, o), NEW inner,
           inner = << >> \/ Waits(inner), C!Ends(t, inner)
    PROVE  /\ BridgeStacks'
           /\ mapMutex' = IF inner = << >> THEN C!Nobody ELSE t
<1>1. /\ mapMutex = C!Nobody /\ t # mapMutex
      /\ Head(stack[t]) \in BridgeFrame /\ stack[t] = <<Head(stack[t])>>
  BY LockedStep
<1>2. Tail(stack[t]) = << >>
  <2>1. PICK f \in BridgeFrame : stack[t] = <<f>>
    BY <1>1
  <2>2. Tail(<<f>>) = << >>
    OBVIOUS
  <2> QED  BY <2>1, <2>2
<1>3. inner \in Seq(BridgeFrame)
  <2>1. \A f \in BridgeFrame : <<f>> \in Seq(BridgeFrame)
    OBVIOUS
  <2>2. \A f \in BridgeFrame : \A g \in BridgeFrame : <<f, g>> \in Seq(BridgeFrame)
    OBVIOUS
  <2>3. << >> \in Seq(BridgeFrame)
    BY EmptySeq
  <2> QED  BY <2>1, <2>2, <2>3, Zenon DEF Waits
<1>4. inner \o << >> = inner
  BY <1>3, ConcatEmptySeq
<1>5. DOMAIN stack = Thread
  BY DEF BridgeInv, BridgeStacks
<1>6. stack' = [stack EXCEPT ![t] = inner]
  BY <1>2, <1>4 DEF C!Ends
<1>7. /\ DOMAIN stack' = Thread /\ stack'[t] = inner
      /\ \A u \in Thread : u # t => stack'[u] = stack[u]
  BY <1>5, <1>6
<1>8. mapMutex' = IF inner = << >> THEN C!Nobody ELSE t
  BY <1>7 DEF C!Ends
<1>9. \A u \in Thread : u # mapMutex
  BY <1>1, LibraryAssumption
<1>10. \A u \in Thread : Before(stack[u])
  BY <1>9 DEF BridgeInv, BridgeStacks
<1>11. Waits(inner) => inner # << >>
  BY DEF Waits
<1>12. ASSUME NEW u \in Thread
       PROVE  IF u = mapMutex' THEN Waits(stack'[u]) ELSE Before(stack'[u])
  <2>1. CASE u = t
    BY <1>1, <1>7, <1>8, <1>11, <2>1, LibraryAssumption DEF Before
  <2>2. CASE u # t
    BY <1>7, <1>8, <1>10, <2>2, LibraryAssumption
  <2> QED  BY <2>1, <2>2
<1> QED
  BY <1>7, <1>8, <1>12 DEF BridgeStacks

\* A body that changes the mapping of one value.
LEMMA MappingSet ==
    ASSUME BridgeInv, NEW v \in Value, NEW m \in Mapping,
           forward' = [forward EXCEPT ![v] = m],
           held' = held \/ held' = C!Stored(v),
           m = C!Unmapped \/ held' = C!Stored(v) \/ (forward[v] # C!Unmapped),
           m.isRoot => m.isWeakRef,
           m = C!Unmapped \/ m.isWeakRef \/ mapMutex' # C!Nobody,
           mapMutex = C!Nobody
    PROVE  BridgeTables'
<1>1. /\ forward \in [Value -> Mapping] /\ held \in [Value -> Nat]
      /\ \A w \in Value : forward[w] # C!Unmapped => held[w] > 0
      /\ \A w \in Value : forward[w].isRoot => forward[w].isWeakRef
      /\ \A w \in Value : forward[w] = C!Unmapped \/ forward[w].isWeakRef
  BY DEF BridgeInv, BridgeTables, C!MappedIsPinned, C!RootsAreWeak, StrongIsHeld
<1>2. /\ forward' \in [Value -> Mapping] /\ forward'[v] = m
      /\ \A w \in Value : w # v => forward'[w] = forward[w]
  BY <1>1
<1>3. /\ held' \in [Value -> Nat]
      /\ \A w \in Value : held'[w] >= held[w]
      /\ held' = C!Stored(v) => held'[v] > 0
  BY <1>1 DEF C!Stored
<1>4. ASSUME NEW w \in Value, forward'[w] # C!Unmapped
      PROVE  held'[w] > 0
  <2>1. CASE w = v
    <3>1. CASE held' = C!Stored(v)
      BY <1>3, <2>1, <3>1
    <3>2. CASE forward[v] # C!Unmapped
      <4>1. held[v] > 0 /\ held[v] \in Nat /\ held'[v] \in Nat /\ held'[v] >= held[v]
        BY <1>1, <1>3, <3>2
      <4> QED  BY <2>1, <4>1
    <3> QED  BY <1>2, <1>4, <2>1, <3>1, <3>2
  <2>2. CASE w # v
    <3>1. held[w] > 0 /\ held[w] \in Nat /\ held'[w] \in Nat /\ held'[w] >= held[w]
      BY <1>1, <1>2, <1>3, <1>4, <2>2
    <3> QED  BY <3>1
  <2> QED  BY <2>1, <2>2
<1>5. \A w \in Value : forward'[w].isRoot => forward'[w].isWeakRef
  BY <1>1, <1>2
<1>6. StrongIsHeld'
  BY <1>1, <1>2 DEF StrongIsHeld
<1> QED
  BY <1>2, <1>3, <1>4, <1>5, <1>6 DEF BridgeTables, C!MappedIsPinned, C!RootsAreWeak

\* A body that leaves the tables as they are, or drops them.
LEMMA TablesKept ==
    ASSUME BridgeInv, held' = held, mapMutex = C!Nobody,
           forward' = forward \/ forward' = [v \in Value |-> C!Unmapped]
    PROVE  BridgeTables'
<1>1. CASE forward' = forward
  BY <1>1
  DEF BridgeInv, BridgeTables, C!MappedIsPinned, C!RootsAreWeak, StrongIsHeld
<1>2. CASE forward' = [v \in Value |-> C!Unmapped]
  <2>1. \A v \in Value : forward'[v] = C!Unmapped
    BY <1>2
  <2>2. forward' \in [Value -> Mapping] /\ held' \in [Value -> Nat]
    BY <1>2, UnmappedIsMapping DEF BridgeInv, BridgeTables
  <2> QED
    BY <2>1, <2>2, UnmappedIsMapping
    DEF BridgeTables, C!MappedIsPinned, C!RootsAreWeak, StrongIsHeld
<1> QED  BY <1>1, <1>2

LEMMA WaitsAlone ==
    ASSUME NEW f \in BridgeFrame,
           f.op \in {"registerRoot", "unregisterRoot", "detectLeaks"}
    PROVE  Waits(<<f>>) /\ <<f>> # << >>
BY DEF Waits

LEMMA Framed ==
    ASSUME NEW o \in C!Public, NEW v \in Value, NEW p \in Proto \cup {"none"}
    PROVE  C!Frame(o, v, p) \in BridgeFrame /\ C!Frame(o, v, p).op = o
BY DEF C!Frame, BridgeFrame

LEMMA RegisterMapping == ASSUME BridgeInv, NEW t \in Thread, C!registerMapping(t)
                         PROVE  BridgeInv'
<1> DEFINE f == Head(stack[t])
           g == C!Frame("registerRoot", f.js, f.proto)
           m == [proto |-> f.proto, isRoot |-> FALSE, isWeakRef |-> FALSE]
<1>1. /\ C!Locks(t, "registerMapping") /\ C!Ends(t, <<g>>)
      /\ forward' = [forward EXCEPT ![f.js] = m] /\ held' = C!Stored(f.js)
  BY DEF C!registerMapping
<1>2. mapMutex = C!Nobody /\ f \in BridgeFrame /\ f.js \in Value
  BY <1>1, LockedStep
<1>3. f.proto \in Proto \cup {"none"}
  BY <1>2 DEF BridgeFrame
<1>4. g \in BridgeFrame /\ g.op = "registerRoot"
  BY <1>2, <1>3, Framed DEF C!Public
<1> HIDE DEF f, g
<1>5. BridgeStacks' /\ mapMutex' = t
  BY <1>1, <1>4, BodyEnds, WaitsAlone
<1>6. m \in Mapping
  BY <1>3 DEF Mapping
<1>7. mapMutex' # C!Nobody
  BY <1>5, LibraryAssumption
<1>8. BridgeTables'
  <2>1. ~m.isRoot
    OBVIOUS
  <2> HIDE DEF m
  <2> QED  BY <1>1, <1>2, <1>6, <1>7, <2>1, MappingSet
<1> QED  BY <1>5, <1>8 DEF BridgeInv

LEMMA UnregisterMapping == ASSUME BridgeInv, NEW t \in Thread, C!unregisterMapping(t)
                           PROVE  BridgeInv'
<1> DEFINE v == Head(stack[t]).js
           g == C!Frame("unregisterRoot", v, "none")
<1>1. C!Locks(t, "unregisterMapping") /\ held' = held
  BY DEF C!unregisterMapping
<1>2. mapMutex = C!Nobody /\ v \in Value
  BY <1>1, LockedStep
<1>3. g \in BridgeFrame /\ g.op = "unregisterRoot"
  BY <1>2, Framed DEF C!Public
<1>4. CASE forward[v].isRoot
  <2>1. C!Ends(t, <<g>>) /\ forward' = forward
    BY <1>4 DEF C!unregisterMapping
  <2> HIDE DEF v, g
  <2> QED  BY <1>1, <1>2, <1>3, <2>1, BodyEnds, WaitsAlone, TablesKept DEF BridgeInv
<1>5. CASE ~forward[v].isRoot
  <2>1. C!Ends(t, << >>) /\ forward' = [forward EXCEPT ![v] = C!Unmapped]
    BY <1>5 DEF C!unregisterMapping
  <2> HIDE DEF v, g
  <2>2. BridgeStacks'
    BY <1>1, <2>1, BodyEnds
  <2>3. BridgeTables'
    BY <1>1, <1>2, <2>1, UnmappedIsMapping, MappingSet
  <2> QED  BY <2>2, <2>3 DEF BridgeInv
<1> QED  BY <1>4, <1>5

LEMMA RegisterRoot == ASSUME BridgeInv, NEW t \in Thread, C!registerRoot(t)
                      PROVE  BridgeInv'
<1> DEFINE f == Head(stack[t])
           r == [f EXCEPT !.op = "registerMapping"]
<1>1. C!Locks(t, "registerRoot") /\ held' = held
  BY DEF C!registerRoot
<1>2. mapMutex = C!Nobody /\ f \in BridgeFrame /\ f.js \in Value /\ f.op = "registerRoot"
  BY <1>1, LockedStep
<1>3. CASE forward[f.js] # C!Unmapped
  <2> DEFINE m == [forward[f.js] EXCEPT !.isRoot = TRUE]
  <2>1. C!Ends(t, << >>) /\ forward' = [forward EXCEPT ![f.js].isRoot = TRUE]
    BY <1>3 DEF C!registerRoot
  <2>2. BridgeStacks'
    BY <1>1, <2>1, BodyEnds
  <2>3. forward[f.js] \in Mapping /\ forward[f.js].isWeakRef
    BY <1>2, <1>3 DEF BridgeInv, BridgeTables, StrongIsHeld
  <2> HIDE DEF f
  <2>4. m \in Mapping /\ m.isWeakRef
    BY <2>3 DEF Mapping
  <2>5. forward' = [forward EXCEPT ![f.js] = m]
    BY <1>2, <2>1 DEF BridgeInv, BridgeTables
  <2> HIDE DEF m
  <2>6. BridgeTables'
    BY <1>1, <1>2, <1>3, <2>4, <2>5, MappingSet
  <2> QED  BY <2>2, <2>6 DEF BridgeInv
<1>4. CASE forward[f.js] = C!Unmapped
  <2>1. C!Ends(t, <<r, f>>) /\ forward' = forward
    BY <1>4 DEF C!registerRoot
  <2>2. r \in BridgeFrame /\ r.op = "registerMapping"
    <3> HIDE DEF f
    <3> QED  BY <1>2 DEF BridgeFrame, C!Public
  <2> HIDE DEF f, r
  <2>3. Waits(<<r, f>>)
    BY <1>2, <2>2 DEF Waits
  <2> QED  BY <1>1, <1>2, <2>1, <2>3, BodyEnds, TablesKept DEF BridgeInv
<1> QED  BY <1>3, <1>4

LEMMA UnregisterRoot == ASSUME BridgeInv, NEW t \in Thread, C!unregisterRoot(t)
                        PROVE  BridgeInv'
<1> DEFINE v == Head(stack[t]).js
           m == [forward[v] EXCEPT !.isRoot = FALSE]
<1>1. /\ C!Locks(t, "unregisterRoot") /\ held' = held /\ C!Ends(t, << >>)
      /\ forward' = [forward EXCEPT ![v].isRoot = FALSE]
  BY DEF C!unregisterRoot
<1>2. mapMutex = C!Nobody /\ v \in Value
  BY <1>1, LockedStep
<1>3. BridgeStacks'
  BY <1>1, BodyEnds
<1> HIDE DEF v
<1>4. forward[v] \in Mapping /\ (forward[v] = C!Unmapped \/ forward[v].isWeakRef)
  BY <1>2 DEF BridgeInv, BridgeTables, StrongIsHeld
<1>5. m \in Mapping /\ ~m.isRoot /\ m.isWeakRef = forward[v].isWeakRef
  BY <1>4 DEF Mapping
<1>6. forward[v] = C!Unmapped => m = C!Unmapped
  <2>1. ASSUME forward[v] = C!Unmapped
        PROVE  m = C!Unmapped
    <3>1. m.proto = C!Unmapped.proto /\ m.isRoot = C!Unmapped.isRoot
          /\ m.isWeakRef = C!Unmapped.isWeakRef
      BY <1>4, <2>1 DEF C!Unmapped, Mapping
    <3> HIDE DEF m
    <3> QED  BY <1>5, <3>1, SameMapping, UnmappedIsMapping
  <2> QED  BY <2>1
<1>7. forward' = [forward EXCEPT ![v] = m]
  BY <1>1, <1>2 DEF BridgeInv, BridgeTables
<1> HIDE DEF m
<1>8. BridgeTables'
  BY <1>1, <1>2, <1>4, <1>5, <1>6, <1>7, MappingSet
<1> QED  BY <1>3, <1>8 DEF BridgeInv

LEMMA RegisterWeakRef == ASSUME BridgeInv, NEW t \in Thread, C!registerWeakRef(t)
                         PROVE  BridgeInv'
<1> DEFINE f == Head(stack[t])
           m == [proto |-> f.proto, isRoot |-> FALSE, isWeakRef |-> TRUE]
<1>1. /\ C!Locks(t, "registerWeakRef") /\ C!Ends(t, << >>)
      /\ forward' = [forward EXCEPT ![f.js] = m] /\ held' = C!Stored(f.js)
  BY DEF C!registerWeakRef
<1>2. mapMutex = C!Nobody /\ f \in BridgeFrame /\ f.js \in Value
  BY <1>1, LockedStep
<1>3. BridgeStacks'
  BY <1>1, BodyEnds
<1>4. m \in Mapping /\ m.isWeakRef
  BY <1>2 DEF Mapping, BridgeFrame
<1> HIDE DEF f, m
<1>5. BridgeTables'
  BY <1>1, <1>2, <1>4, MappingSet
<1> QED  BY <1>3, <1>5 DEF BridgeInv

LEMMA UnregisterWeakRef == ASSUME BridgeInv, NEW t \in Thread, C!unregisterWeakRef(t)
                           PROVE  BridgeInv'
<1> DEFINE v == Head(stack[t]).js
<1>1. /\ C!Locks(t, "unregisterWeakRef") /\ C!Ends(t, << >>) /\ held' = held
      /\ forward' = forward \/ forward' = [forward EXCEPT ![v] = C!Unmapped]
  BY DEF C!unregisterWeakRef
<1>2. mapMutex = C!Nobody /\ v \in Value
  BY <1>1, LockedStep
<1>3. BridgeStacks'
  BY <1>1, BodyEnds
<1> HIDE DEF v
<1>4. BridgeTables'
  BY <1>1, <1>2, UnmappedIsMapping, MappingSet, TablesKept
<1> QED  BY <1>3, <1>4 DEF BridgeInv

\* The bodies that only read, and cleanup().
LEMMA ReadsAndCleanup ==
    ASSUME BridgeInv, NEW t \in Thread,
           C!readTables(t) \/ C!getMemoryStats(t) \/ C!cleanup(t)
    PROVE  BridgeInv'
<1>1. CASE C!readTables(t)
  <2>1. PICK o \in C!Reads : C!Locks(t, o)
    BY <1>1 DEF C!readTables
  <2>2. C!Ends(t, << >>) /\ forward' = forward /\ held' = held
    BY <1>1 DEF C!readTables
  <2> QED  BY <2>1, <2>2, LockedStep, BodyEnds, TablesKept DEF BridgeInv
<1>2. CASE C!getMemoryStats(t)
  <2> DEFINE g == C!Frame("detectLeaks", Head(stack[t]).js, "none")
  <2>1. C!Locks(t, "getMemoryStats") /\ C!Ends(t, <<g>>) /\ forward' = forward /\ held' = held
    BY <1>2 DEF C!getMemoryStats
  <2>2. mapMutex = C!Nobody /\ Head(stack[t]).js \in Value
    BY <2>1, LockedStep
  <2>3. g \in BridgeFrame /\ g.op = "detectLeaks"
    BY <2>2, Framed DEF C!Public, C!Reads
  <2> HIDE DEF g
  <2> QED  BY <2>1, <2>2, <2>3, BodyEnds, WaitsAlone, TablesKept DEF BridgeInv
<1>3. CASE C!cleanup(t)
  <2>1. /\ C!Locks(t, "cleanup") /\ C!Ends(t, << >>) /\ held' = held
        /\ forward' = [v \in Value |-> C!Unmapped]
    BY <1>3 DEF C!cleanup
  <2> QED  BY <2>1, LockedStep, BodyEnds, TablesKept DEF BridgeInv
<1> QED  BY <1>1, <1>2, <1>3

\* registerMapping of null leaves the thread with one frame less: outside of
\* the bridge, or in the registerRoot that called it.
LEMMA RegisterNothing == ASSUME BridgeInv, NEW t \in Thread, C!registerNothing(t)
                         PROVE  BridgeInv'
<1>1. /\ stack[t] # << >> /\ Head(stack[t]).op = "registerMapping"
      /\ stack' = [stack EXCEPT ![t] = Tail(@)]
      /\ UNCHANGED <<mapMutex, forward, held>>
  BY DEF C!registerNothing
<1>2. BridgeStacks
  BY DEF BridgeInv
<1>3. /\ DOMAIN stack' = Thread /\ stack'[t] = Tail(stack[t])
      /\ \A u \in Thread : u # t => stack'[u] = stack[u]
  BY <1>1, <1>2 DEF BridgeStacks
<1>4. ASSUME NEW f \in BridgeFrame, stack[t] = <<f>>
      PROVE  Tail(stack[t]) = << >> /\ f.op = "registerMapping"
  <2>1. Head(<<f>>) = f /\ Tail(<<f>>) = << >>
    OBVIOUS
  <2> QED  BY <1>1, <1>4, <2>1
<1>5. ASSUME NEW f \in BridgeFrame, NEW g \in BridgeFrame, stack[t] = <<f, g>>
      PROVE  Tail(stack[t]) = <<g>>
  <2>1. Tail(<<f, g>>) = <<g>>
    OBVIOUS
  <2> QED  BY <1>5, <2>1
<1>s. ASSUME IF t = mapMutex THEN Waits(stack'[t]) ELSE Before(stack'[t])
      PROVE  BridgeStacks'
  <2>1. ASSUME NEW u \in Thread
        PROVE  IF u = mapMutex' THEN Waits(stack'[u]) ELSE Before(stack'[u])
    <3>1. CASE u = t
      BY <1>1, <1>s, <3>1
    <3>2. CASE u # t
      <4>1. stack'[u] = stack[u] /\ mapMutex' = mapMutex
        BY <1>1, <1>3, <3>2
      <4>2. IF u = mapMutex THEN Waits(stack[u]) ELSE Before(stack[u])
        BY <1>2 DEF BridgeStacks
      <4> QED  BY <4>1, <4>2
    <3> QED  BY <3>1, <3>2
  <2>2. mapMutex' \in Thread \cup {C!Nobody} /\ DOMAIN stack' = Thread
    BY <1>1, <1>2, <1>3 DEF BridgeStacks
  <2> QED  BY <2>1, <2>2 DEF BridgeStacks
<1>6. ASSUME t = mapMutex
      PROVE  BridgeStacks'
  <2>1. Waits(stack[t])
    BY <1>2, <1>6 DEF BridgeStacks
  <2>2. PICK f \in BridgeFrame : \E g \in BridgeFrame :
            stack[t] = <<f, g>> /\ g.op = "registerRoot"
    BY <1>4, <2>1 DEF Waits
  <2>3. PICK g \in BridgeFrame : stack[t] = <<f, g>> /\ g.op = "registerRoot"
    BY <2>2
  <2>4. Waits(stack'[t])
    BY <1>3, <1>5, <2>3, WaitsAlone
  <2> QED  BY <1>6, <1>s, <2>4
<1>7. ASSUME t # mapMutex
      PROVE  BridgeStacks'
  <2>1. Before(stack[t])
    BY <1>2, <1>7 DEF BridgeStacks
  <2>2. PICK f \in BridgeFrame : stack[t] = <<f>>
    BY <1>1, <2>1 DEF Before
  <2>3. Before(stack'[t])
    BY <1>3, <1>4, <2>2 DEF Before
  <2> QED  BY <1>7, <1>s, <2>3
<1>8. BridgeStacks'
  BY <1>6, <1>7
<1>9. BridgeTables'
  BY <1>1
  DEF BridgeInv, BridgeTables, C!MappedIsPinned, C!RootsAreWeak, StrongIsHeld
<1> QED  BY <1>8, <1>9 DEF BridgeInv

\* A call from outside of the bridge.
LEMMA BridgeEnter ==
    ASSUME BridgeInv, NEW t \in Thread, NEW f \in BridgeFrame, C!Enter(t, f)
    PROVE  BridgeInv'
<1>1. /\ stack[t] = << >> /\ stack' = [stack EXCEPT ![t] = <<f>>]
      /\ UNCHANGED <<mapMutex, forward, held>>
  BY DEF C!Enter, C!Idle
<1>2. BridgeStacks
  BY DEF BridgeInv
<1>3. t # mapMutex
  BY <1>1, <1>2, WaitsAlone DEF BridgeStacks, Waits
<1>4. BridgeStacks'
  BY <1>1, <1>2, <1>3 DEF BridgeStacks, Before
<1>5. BridgeTables'
  BY <1>1
  DEF BridgeInv, BridgeTables, C!MappedIsPinned, C!RootsAreWeak, StrongIsHeld
<1> QED  BY <1>4, <1>5 DEF BridgeInv

LEMMA BridgeSteps == ASSUME BridgeInv, NEW t \in Thread, C!BridgeStep(t)
                     PROVE  BridgeInv'
BY RegisterMapping, RegisterNothing, UnregisterMapping, RegisterRoot, UnregisterRoot,
   RegisterWeakRef, UnregisterWeakRef, ReadsAndCleanup DEF C!BridgeStep

\* What scripts do with the collections, as the bridge sees it.
LEMMA CollectionSteps ==
    ASSUME NEW t \in Thread, NEW v \in Sample, C!Operation(t, v)
    PROVE  \/ UNCHANGED bridgeVars
           \/ \E f \in C!FunctionsOf(v) : C!Enter(t, C!Frame("registerMapping", f, "p"))
<1>1. ASSUME NEW c, C!Does(t, c, v)
      PROVE  UNCHANGED bridgeVars
  BY <1>1 DEF C!Does, C!bridgeVars, bridgeVars
<1>2. ASSUME C!Stays(t, v)
      PROVE  \E f \in C!FunctionsOf(v) : C!Enter(t, C!Frame("registerMapping", f, "p"))
  BY <1>2 DEF C!Stays
<1>3. C!SetConstructor(t, v) \/ C!SetAdd(t, v) \/ C!SetRemove(t, v) => C!Does(t, "Set", v)
  BY DEF C!SetConstructor, C!SetAdd, C!SetRemove
<1>4. C!MultisetConstructor(t, v) \/ C!MultisetAdd(t, v) \/ C!MultisetRemove(t, v)
         => C!Does(t, "Multiset", v)
  BY DEF C!MultisetConstructor, C!MultisetAdd, C!MultisetRemove
<1>5. \A i : C!SparseListSet(t, i, v) => C!Does(t, "SparseList", v)
  BY DEF C!SparseListSet
<1> QED
  BY <1>1, <1>2, <1>3, <1>4, <1>5
  DEF C!Operation, C!SetHas, C!MultisetCount, C!Tuple, C!ImmutableObject,
      C!MutableObject, C!IsImmutable, C!MakeImmutable, C!MakeMutable

LEMMA BridgeStep == ASSUME BridgeInv, [Next]_vars
                    PROVE  BridgeInv'
<1>1. CASE C!BridgeNext
  <2>1. ASSUME NEW t \in Thread, C!BridgeCall(t)
        PROVE  BridgeInv'
    <3>1. PICK o \in C!Public : \E v \in Value, p \in Proto : C!Enter(t, C!Frame(o, v, p))
      BY <2>1 DEF C!BridgeCall
    <3>2. PICK v \in Value : \E p \in Proto : C!Enter(t, C!Frame(o, v, p))
      BY <3>1
    <3>3. PICK p \in Proto : C!Enter(t, C!Frame(o, v, p))
      BY <3>2
    <3> QED  BY <3>3, Framed, BridgeEnter
  <2> QED
    BY <1>1, <2>1, BridgeSteps, BridgeStutter DEF C!BridgeNext, C!JSContextWrapper
<1>2. CASE C!Next
  <2>1. ASSUME NEW t \in Thread, NEW v \in Sample, C!Operation(t, v)
        PROVE  BridgeInv'
    <3>1. ASSUME NEW f \in C!FunctionsOf(v), C!Enter(t, C!Frame("registerMapping", f, "p"))
          PROVE  BridgeInv'
      <4>1. f \in Value /\ "p" \in Proto
        BY LibraryAssumption
      <4>2. C!Frame("registerMapping", f, "p") \in BridgeFrame
        BY <4>1, Framed DEF C!Public
      <4> QED  BY <3>1, <4>2, BridgeEnter
    <3> QED  BY <2>1, <3>1, CollectionSteps, BridgeStutter DEF bridgeVars
  <2>2. ASSUME NEW t \in Thread, C!SparseListConstructor(t)
        PROVE  BridgeInv'
    BY <2>2, BridgeStutter DEF C!SparseListConstructor, C!Does, C!bridgeVars
  <2> QED
    BY <1>2, <2>1, <2>2, RegisterMapping, BridgeStutter DEF C!Next, C!JSContextWrapper
<1>3. CASE UNCHANGED <<mapMutex, stack, forward, held>>
  BY <1>3, BridgeStutter
<1> QED  BY <1>1, <1>2, <1>3 DEF Next, vars, bridgeVars

\* MappingSafety (MCLibraries) for any threads, values and objects: a value that
\* has a mapping is referenced, only weak references are roots, and the lock is
\* kept only by a thread that waits for itself.
THEOREM MappingsPinned == Spec => []MappingSafety
<1>1. Init => BridgeInv
  BY BridgeStarts DEF Init
<1>2. BridgeInv /\ [Next]_vars => BridgeInv'
  BY BridgeStep
<1>3. BridgeInv => MappingSafety
  <2> SUFFICES ASSUME BridgeInv, mapMutex # C!Nobody
               PROVE  Head(stack[mapMutex]).op
                        \in {"registerRoot", "registerMapping", "unregisterRoot", "detectLeaks"}
    BY DEF MappingSafety, C!BridgeSafety, C!HolderWaitsForItself, BridgeInv, BridgeTables
  <2>1. mapMutex \in Thread /\ Waits(stack[mapMutex])
    BY DEF BridgeInv, BridgeStacks
  <2>2. \A f \in BridgeFrame : Head(<<f>>) = f
    OBVIOUS
  <2>3. \A f \in BridgeFrame : \A g \in BridgeFrame : Head(<<f, g>>) = f
    OBVIOUS
  <2> QED  BY <2>1, <2>2, <2>3, Zenon DEF Waits
<1> QED  BY <1>1, <1>2, <1>3, PTL DEF Spec

-----------------------------------------------------------------------------
(* events                                                                  *)

Walk == [at : Nat, last : Nat, array : {"own", "freed"}, start : Seq(Handler),
         said : Seq(Handler), removed : BOOLEAN]

\* An emit() in progress over the vector with cells c and n handlers: it has
\* made a call for each position it has passed.  While it walks over the
\* vector's own array its end lies in it; while no handler was removed the
\* handlers it began with are still the first ones of the vector, wherever that
\* is by now, and it has called the first of them.
WalkFits(w, c, n) ==
    /\ w \in Walk
    /\ w.at \in 1..w.last + 1
    /\ Len(w.start) = w.last /\ Len(w.said) = w.at - 1
    /\ w.array = "own" => w.last <= Len(c)
    /\ ~w.removed => \A k \in 1..w.at - 1 : w.said[k] = w.start[k]
    /\ ~w.removed => w.last <= n /\ \A k \in 1..w.last : c[k] = w.start[k]

EmitterVector ==
    /\ cells \in Seq(Handler)
    /\ size \in 0..MaxHandlers /\ capacity \in Nat
    /\ size <= capacity /\ size <= Len(cells)
    /\ kept \subseteq Handler /\ freed \subseteq Handler
    /\ emitterCalls \in 0..MaxEmitterCalls
    /\ emitterFate \in {"fine", "undefined"}

EmitterWalks ==
    /\ walks \in Seq(Walk) /\ Len(walks) <= MaxDepth
    /\ \A i \in DOMAIN walks : WalkFits(walks[i], cells, size)

EmitterInv == EmitterVector /\ EmitterWalks /\ E!Safety

LEMMA WalkFields ==
    ASSUME NEW w \in Walk
    PROVE  /\ w.at \in Nat /\ w.last \in Nat /\ w.array \in {"own", "freed"}
           /\ w.start \in Seq(Handler) /\ w.said \in Seq(Handler) /\ w.removed \in BOOLEAN
BY DEF Walk

LEMMA EmitterStart == ASSUME E!Start
                      PROVE  EmitterInv
<1>1. EmitterVector
  BY EmptySeq, Bounds DEF E!Start, EmitterVector
<1>2. walks = << >> /\ << >> \in Seq(Walk) /\ Len(<< >>) = 0 /\ DOMAIN << >> = {}
  BY EmptySeq DEF E!Start
<1>3. EmitterWalks
  BY <1>2, Bounds DEF EmitterWalks
<1>4. E!Safety
  BY EmptySeq
  DEF E!Start, E!NoWalk, E!Safety, E!EmitCallsThemAll, E!EmitCallsAsMany,
      E!UndefinedNeedsChange, E!RegisteredAlive
<1> QED  BY <1>1, <1>3, <1>4 DEF EmitterInv

LEMMA EmitterStutter == ASSUME EmitterInv, UNCHANGED emitterVars
                        PROVE  EmitterInv'
BY DEF emitterVars, EmitterInv, EmitterVector, EmitterWalks, WalkFits, E!Safety,
   E!EmitCallsThemAll, E!EmitCallsAsMany, E!UndefinedNeedsChange, E!RegisteredAlive

\* The invariant of the vector makes its type invariant.
LEMMA EmitterTypes == ASSUME EmitterInv
                      PROVE  E!TypeOK
<1>1. \A i \in DOMAIN cells : cells[i] \in Handler
  BY ElementOfSeq, LenProperties DEF EmitterInv, EmitterVector
<1> QED
  BY <1>1 DEF EmitterInv, EmitterVector, EmitterWalks, E!TypeOK

Grown(c, n, h) == SubSeq(c, 1, n) \o <<h>> \o SubSeq(c, n + 2, Len(c))
Shrunk(c, n) == Tail(SubSeq(c, 1, n)) \o <<c[n]>> \o SubSeq(c, n + 1, Len(c))

GrownFrom(d, c, n, h) ==
    /\ d \in Seq(Handler) /\ Len(d) >= Len(c) /\ Len(d) >= n + 1
    /\ \A k \in 1..n : d[k] = c[k]
    /\ d[n + 1] = h

\* push_back: the handlers before the new one stay where they are, and the
\* array does not shrink.
LEMMA PushBack ==
    ASSUME NEW c \in Seq(Handler), NEW n \in Nat, n <= Len(c), NEW h \in Handler,
           NEW d, d = Grown(c, n, h)
    PROVE  GrownFrom(d, c, n, h)
<1>1. Len(c) \in Nat /\ DOMAIN c = 1..Len(c) /\ \A i \in 1..Len(c) : c[i] \in Handler
  BY LenProperties, ElementOfSeq
<1> DEFINE a == SubSeq(c, 1, n)
           b == SubSeq(c, n + 2, Len(c))
           ah == a \o <<h>>
<1>2. a \in Seq(Handler) /\ Len(a) = n /\ \A i \in 1..n : a[i] = c[i]
  <2>1. \A i \in 1..n : c[i] \in Handler
    BY <1>1
  <2>2. /\ a \in Seq(Handler) /\ Len(a) = (IF 1 <= n THEN n - 1 + 1 ELSE 0)
        /\ \A i \in 1..n - 1 + 1 : a[i] = c[1 + i - 1]
    BY <2>1, SubSeqProperties
  <2>3. \A i \in 1..n : i \in 1..n - 1 + 1 /\ 1 + i - 1 = i
    OBVIOUS
  <2> HIDE DEF a
  <2> QED  BY <2>2, <2>3
<1>3. /\ b \in Seq(Handler)
      /\ Len(b) = IF n + 2 <= Len(c) THEN Len(c) - (n + 2) + 1 ELSE 0
  <2>1. \A i \in n + 2..Len(c) : c[i] \in Handler
    BY <1>1
  <2> QED  BY <1>1, <2>1, SubSeqProperties
<1> HIDE DEF a, b
<1>4. /\ ah \in Seq(Handler) /\ Len(ah) = n + 1
      /\ ah[n + 1] = h /\ \A i \in 1..n : ah[i] = a[i]
  <2>1. <<h>> \in Seq(Handler) /\ Len(<<h>>) = 1
    OBVIOUS
  <2>2. /\ ah \in Seq(Handler) /\ Len(ah) = Len(a) + 1
        /\ \A i \in 1..Len(a) + 1 : ah[i] = IF i <= Len(a) THEN a[i] ELSE <<h>>[i - Len(a)]
    BY <1>2, <2>1, ConcatProperties
  <2> HIDE DEF ah
  <2> QED  BY <1>2, <2>2
<1>5. d = ah \o b
  BY DEF a, b, ah, Grown
<1> HIDE DEF ah
<1>6. /\ d \in Seq(Handler) /\ Len(d) = Len(ah) + Len(b)
      /\ \A i \in 1..Len(ah) + Len(b) : d[i] = IF i <= Len(ah) THEN ah[i] ELSE b[i - Len(ah)]
  <2>1. /\ ah \o b \in Seq(Handler) /\ Len(ah \o b) = Len(ah) + Len(b)
        /\ \A i \in 1..Len(ah) + Len(b) :
              (ah \o b)[i] = IF i <= Len(ah) THEN ah[i] ELSE b[i - Len(ah)]
    BY <1>3, <1>4, ConcatProperties, Zenon
  <2> QED  BY <1>5, <2>1, Zenon
<1>7. Len(b) \in Nat /\ Len(d) = n + 1 + Len(b)
  <2>1. Len(b) \in Nat
    BY <1>3, LenProperties
  <2>2. Len(d) = Len(ah) + Len(b) /\ Len(ah) = n + 1
    BY <1>4, <1>6
  <2> QED  BY <2>1, <2>2
<1>8. Len(d) >= Len(c) /\ Len(d) >= n + 1
  <2>1. Len(c) \in Nat
    BY <1>1
  <2>2. CASE n + 2 <= Len(c)
    BY <1>3, <1>7, <2>1, <2>2
  <2>3. CASE ~(n + 2 <= Len(c))
    BY <1>3, <1>7, <2>1, <2>3
  <2> QED  BY <2>2, <2>3
<1>9. ASSUME NEW k \in 1..n
      PROVE  d[k] = c[k]
  <2>1. k \in 1..Len(ah) + Len(b) /\ k <= Len(ah)
    BY <1>4, <1>7
  <2> QED  BY <1>2, <1>4, <1>6, <2>1
<1>10. d[n + 1] = h
  <2>1. n + 1 \in 1..Len(ah) + Len(b) /\ n + 1 <= Len(ah)
    BY <1>4, <1>7
  <2> QED  BY <1>4, <1>6, <2>1
<1> QED  BY <1>6, <1>8, <1>9, <1>10, Zenon DEF GrownFrom

\* erase of the first handler: the others move down, and the array keeps its
\* length.
LEMMA EraseFirst ==
    ASSUME NEW c \in Seq(Handler), NEW n \in Nat \ {0}, n <= Len(c),
           NEW d, d = Shrunk(c, n)
    PROVE  /\ d \in Seq(Handler) /\ Len(d) = Len(c)
           /\ \A k \in 1..n - 1 : d[k] = c[k + 1]
<1>1. Len(c) \in Nat /\ \A i \in 1..Len(c) : c[i] \in Handler
  BY LenProperties, ElementOfSeq
<1> DEFINE a == SubSeq(c, 1, n)
           t == Tail(a)
           m == t \o <<c[n]>>
           b == SubSeq(c, n + 1, Len(c))
<1>2. a \in Seq(Handler) /\ Len(a) = n /\ \A i \in 1..n : a[i] = c[i]
  <2>1. \A i \in 1..n : c[i] \in Handler
    BY <1>1
  <2>2. /\ a \in Seq(Handler) /\ Len(a) = (IF 1 <= n THEN n - 1 + 1 ELSE 0)
        /\ \A i \in 1..n - 1 + 1 : a[i] = c[1 + i - 1]
    BY <2>1, SubSeqProperties
  <2>3. \A i \in 1..n : i \in 1..n - 1 + 1 /\ 1 + i - 1 = i
    OBVIOUS
  <2> HIDE DEF a
  <2> QED  BY <2>2, <2>3
<1>3. b \in Seq(Handler) /\ Len(b) = Len(c) - n
  <2>1. \A i \in n + 1..Len(c) : c[i] \in Handler
    BY <1>1
  <2>2. b \in Seq(Handler)
        /\ Len(b) = IF n + 1 <= Len(c) THEN Len(c) - (n + 1) + 1 ELSE 0
    BY <1>1, <2>1, SubSeqProperties
  <2> HIDE DEF b
  <2> QED  BY <1>1, <2>2
<1>4. a # << >>
  BY <1>2, EmptySeq
<1> HIDE DEF a, b
<1>5. t \in Seq(Handler) /\ Len(t) = n - 1 /\ \A i \in 1..n - 1 : t[i] = a[i + 1]
  BY <1>2, <1>4, HeadTailProperties
<1> HIDE DEF t
<1>6. m \in Seq(Handler) /\ Len(m) = n /\ \A i \in 1..n - 1 : m[i] = t[i]
  <2>1. <<c[n]>> \in Seq(Handler) /\ Len(<<c[n]>>) = 1
    BY <1>1
  <2>2. /\ m \in Seq(Handler) /\ Len(m) = Len(t) + 1
        /\ \A i \in 1..Len(t) + 1 : m[i] = IF i <= Len(t) THEN t[i] ELSE <<c[n]>>[i - Len(t)]
    BY <1>5, <2>1, ConcatProperties
  <2>3. \A i \in 1..n - 1 : i \in 1..Len(t) + 1 /\ i <= Len(t)
    BY <1>5
  <2> HIDE DEF m
  <2> QED  BY <1>5, <2>2, <2>3
<1>7. d = m \o b
  BY DEF a, b, t, m, Shrunk
<1> HIDE DEF m
<1>8. /\ d \in Seq(Handler) /\ Len(d) = Len(m) + Len(b)
      /\ \A i \in 1..Len(m) + Len(b) : d[i] = IF i <= Len(m) THEN m[i] ELSE b[i - Len(m)]
  <2>1. /\ m \o b \in Seq(Handler) /\ Len(m \o b) = Len(m) + Len(b)
        /\ \A i \in 1..Len(m) + Len(b) :
              (m \o b)[i] = IF i <= Len(m) THEN m[i] ELSE b[i - Len(m)]
    BY <1>3, <1>6, ConcatProperties, Zenon
  <2> QED  BY <1>7, <2>1, Zenon
<1>9. ASSUME NEW k \in 1..n - 1
      PROVE  d[k] = c[k + 1]
  <2>1. k \in 1..Len(m) + Len(b) /\ k <= Len(m) /\ k + 1 \in 1..n
    BY <1>1, <1>3, <1>6
  <2>2. d[k] = m[k]
    BY <1>8, <2>1
  <2> QED  BY <1>2, <1>5, <1>6, <2>1, <2>2
<1> QED  BY <1>1, <1>3, <1>6, <1>8, <1>9

\* A walk goes on when the vector grows in place; when it moved the walk is in
\* the old array.
LEMMA WalkGrows ==
    ASSUME NEW c \in Seq(Handler), NEW d \in Seq(Handler), NEW n \in Nat,
           Len(d) >= Len(c), \A k \in 1..n : d[k] = c[k],
           NEW w, WalkFits(w, c, n)
    PROVE  /\ WalkFits(w, d, n + 1)
           /\ WalkFits([w EXCEPT !.array = "freed"], d, n + 1)
<1>0. /\ w \in Walk /\ w.at \in 1..w.last + 1
      /\ Len(w.start) = w.last /\ Len(w.said) = w.at - 1
      /\ w.array = "own" => w.last <= Len(c)
      /\ ~w.removed => \A k \in 1..w.at - 1 : w.said[k] = w.start[k]
      /\ ~w.removed => w.last <= n /\ \A k \in 1..w.last : c[k] = w.start[k]
  BY DEF WalkFits
<1>1. w.at \in Nat /\ w.last \in Nat /\ Len(c) \in Nat /\ Len(d) \in Nat
  BY <1>0, WalkFields, LenProperties
<1>2. w.array = "own" => w.last <= Len(d)
  BY <1>0, <1>1
<1>3. ~w.removed => w.last <= n + 1 /\ \A k \in 1..w.last : d[k] = w.start[k]
  <2>1. SUFFICES ASSUME ~w.removed
                 PROVE  w.last <= n + 1 /\ \A k \in 1..w.last : d[k] = w.start[k]
    OBVIOUS
  <2>2. w.last <= n /\ \A k \in 1..w.last : c[k] = w.start[k]
    BY <1>0, <2>1
  <2>3. \A k \in 1..w.last : k \in 1..n
    BY <1>1, <2>2
  <2> QED  BY <1>1, <2>2, <2>3
<1>4. WalkFits(w, d, n + 1)
  BY <1>0, <1>2, <1>3 DEF WalkFits
<1> DEFINE v == [w EXCEPT !.array = "freed"]
<1>5. /\ v \in Walk /\ v.at = w.at /\ v.last = w.last /\ v.start = w.start
      /\ v.said = w.said /\ v.removed = w.removed /\ v.array = "freed"
  BY <1>0 DEF Walk
<1> HIDE DEF v
<1>6. WalkFits(v, d, n + 1)
  BY <1>0, <1>5 DEF WalkFits
<1> QED  BY <1>4, <1>6 DEF v

\* After a removal a walk only keeps inside of the array.
LEMMA WalkShrinks ==
    ASSUME NEW c \in Seq(Handler), NEW d \in Seq(Handler), NEW n, NEW m,
           Len(d) = Len(c), NEW w, WalkFits(w, c, n)
    PROVE  WalkFits([w EXCEPT !.removed = TRUE], d, m)
<1>0. /\ w \in Walk /\ w.at \in 1..w.last + 1
      /\ Len(w.start) = w.last /\ Len(w.said) = w.at - 1
      /\ w.array = "own" => w.last <= Len(c)
  BY DEF WalkFits
<1> DEFINE v == [w EXCEPT !.removed = TRUE]
<1>1. /\ v \in Walk /\ v.at = w.at /\ v.last = w.last /\ v.start = w.start
      /\ v.said = w.said /\ v.removed = TRUE /\ v.array = w.array
  BY <1>0 DEF Walk
<1> HIDE DEF v
<1>2. WalkFits(v, d, m)
  BY <1>0, <1>1 DEF WalkFits
<1> QED  BY <1>2 DEF v

\* What an invariant step of the walks leaves to show.
LEMMA EmitterOn == ASSUME EmitterInv, NEW h \in Handler, E!on(h)
                   PROVE  EmitterInv'
<1>0. EmitterVector /\ EmitterWalks /\ E!Safety
  BY DEF EmitterInv
<1>1. /\ cells' = Grown(cells, size, h) /\ size' = size + 1 /\ size < MaxHandlers
      /\ emitterCalls < MaxEmitterCalls /\ emitterCalls' = emitterCalls + 1
      /\ UNCHANGED <<lastWalk, emitterFate, kept, freed>> /\ emitterFate = "fine"
      /\ h \in kept \cup (E!Running \ freed)
  BY DEF E!on, E!listeners, Grown, E!MayCall, E!holders
<1>2. /\ cells \in Seq(Handler) /\ size \in Nat /\ size <= Len(cells) /\ size <= capacity
      /\ capacity \in Nat
  BY <1>0, Bounds DEF EmitterVector
<1>3. /\ cells' \in Seq(Handler) /\ Len(cells') >= Len(cells) /\ Len(cells') >= size + 1
      /\ \A k \in 1..size : cells'[k] = cells[k]
      /\ cells'[size + 1] = h
  <2>1. GrownFrom(cells', cells, size, h)
    BY <1>1, <1>2, PushBack
  <2> QED  BY <2>1, Zenon DEF GrownFrom
<1>4. capacity' \in Nat /\ size + 1 <= capacity'
  <2>1. CASE size = capacity
    BY <1>2, <2>1 DEF E!on
  <2>2. CASE size # capacity
    BY <1>2, <2>2 DEF E!on
  <2> QED  BY <2>1, <2>2
<1>5. EmitterVector'
  BY <1>0, <1>1, <1>3, <1>4, Bounds DEF EmitterVector
<1>6. /\ Len(walks) \in Nat /\ DOMAIN walks = 1..Len(walks) /\ walks \in Seq(Walk)
      /\ \A i \in 1..Len(walks) : WalkFits(walks[i], cells, size)
  BY <1>0, LenProperties DEF EmitterWalks
<1>7. \A i \in 1..Len(walks) :
          /\ WalkFits(walks[i], cells', size + 1)
          /\ WalkFits([walks[i] EXCEPT !.array = "freed"], cells', size + 1)
  BY <1>2, <1>3, <1>6, WalkGrows
<1>8. EmitterWalks'
  <2>1. CASE walks' = walks
    BY <1>0, <1>1, <1>6, <1>7, <2>1 DEF EmitterWalks
  <2>2. CASE walks' = [i \in DOMAIN walks |-> [walks[i] EXCEPT !.array = "freed"]]
    <3>1. /\ DOMAIN walks' = 1..Len(walks)
          /\ \A i \in 1..Len(walks) : walks'[i] = [walks[i] EXCEPT !.array = "freed"]
      BY <1>6, <2>2
    <3>2. \A i \in 1..Len(walks) : WalkFits(walks'[i], cells', size')
      BY <1>1, <1>7, <3>1
    <3>3. walks' \in Seq(Walk) /\ Len(walks') = Len(walks)
      <4>1. \A i \in 1..Len(walks) : [walks[i] EXCEPT !.array = "freed"] \in Walk
        BY <1>7 DEF WalkFits
      <4>2. walks' = [i \in 1..Len(walks) |-> [walks[i] EXCEPT !.array = "freed"]]
        BY <1>6, <2>2
      <4> QED  BY <1>6, <4>1, <4>2
    <3> QED  BY <1>0, <3>1, <3>2, <3>3 DEF EmitterWalks
  <2>3. walks' = walks \/ walks' = [i \in DOMAIN walks |-> [walks[i] EXCEPT !.array = "freed"]]
    BY DEF E!on
  <2> QED  BY <2>1, <2>2, <2>3
<1>9. E!RegisteredAlive'
  <2>1. h \notin freed
    BY <1>0, <1>1 DEF E!Safety, E!RegisteredAlive
  <2>2. \A k \in 1..size' : k \in 1..size \/ k = size + 1
    BY <1>1, <1>2
  <2>3. \A k \in 1..size' : cells'[k] \notin freed'
    BY <1>0, <1>1, <1>3, <2>1, <2>2 DEF E!Safety, E!RegisteredAlive
  <2> QED  BY <1>0, <1>1, <2>3 DEF E!Safety, E!RegisteredAlive
<1>10. E!Safety'
  BY <1>0, <1>1, <1>9
  DEF E!Safety, E!EmitCallsThemAll, E!EmitCallsAsMany, E!UndefinedNeedsChange
<1> QED  BY <1>5, <1>8, <1>10 DEF EmitterInv

LEMMA EmitterRemove == ASSUME EmitterInv, E!removeListener
                       PROVE  EmitterInv'
<1>0. EmitterVector /\ EmitterWalks /\ E!Safety
  BY DEF EmitterInv
<1>1. /\ cells' = Shrunk(cells, size) /\ size' = size - 1 /\ size > 0
      /\ emitterCalls < MaxEmitterCalls /\ emitterCalls' = emitterCalls + 1
      /\ UNCHANGED <<lastWalk, capacity, kept>> /\ emitterFate = "fine"
      /\ E!Release(cells[1])
      /\ walks' = [i \in DOMAIN walks |-> [walks[i] EXCEPT !.removed = TRUE]]
  BY DEF E!removeListener, E!listeners, Shrunk, E!MayCall
<1>2. /\ cells \in Seq(Handler) /\ size \in Nat \ {0} /\ size <= Len(cells)
      /\ Len(cells) \in Nat
  BY <1>0, <1>1, Bounds, LenProperties DEF EmitterVector
<1>3. /\ cells' \in Seq(Handler) /\ Len(cells') = Len(cells)
      /\ \A k \in 1..size - 1 : cells'[k] = cells[k + 1]
  BY <1>1, <1>2, EraseFirst
<1>f. \/ UNCHANGED <<freed, emitterFate>>
      \/ /\ cells[1] \notin kept /\ \A k \in 2..size : cells[k] # cells[1]
         /\ freed' = freed \cup {cells[1]}
         /\ emitterFate' \in {"fine", "undefined"}
         /\ emitterFate' = "undefined" => cells[1] \in E!Running
  BY <1>1 DEF E!Release, E!Free
<1>c. cells[1] \in Handler
  <2>1. 1 \in 1..Len(cells)
    BY <1>2
  <2> QED  BY <1>2, <2>1, ElementOfSeq
<1>4. EmitterVector'
  BY <1>0, <1>1, <1>2, <1>3, <1>f, <1>c, Bounds DEF EmitterVector
<1>5. /\ Len(walks) \in Nat /\ DOMAIN walks = 1..Len(walks) /\ walks \in Seq(Walk)
      /\ \A i \in 1..Len(walks) : WalkFits(walks[i], cells, size)
  BY <1>0, LenProperties DEF EmitterWalks
<1>6. \A i \in 1..Len(walks) : WalkFits([walks[i] EXCEPT !.removed = TRUE], cells', size')
  BY <1>2, <1>3, <1>5, WalkShrinks
<1>7. walks' \in Seq(Walk) /\ Len(walks') = Len(walks)
  <2>1. \A i \in 1..Len(walks) : [walks[i] EXCEPT !.removed = TRUE] \in Walk
    BY <1>6 DEF WalkFits
  <2>2. walks' = [i \in 1..Len(walks) |-> [walks[i] EXCEPT !.removed = TRUE]]
    BY <1>1, <1>5
  <2> QED  BY <1>5, <2>1, <2>2
<1>8. EmitterWalks'
  <2>1. /\ DOMAIN walks' = 1..Len(walks)
        /\ \A i \in 1..Len(walks) : walks'[i] = [walks[i] EXCEPT !.removed = TRUE]
    BY <1>1, <1>5
  <2>2. \A i \in 1..Len(walks) : WalkFits(walks'[i], cells', size')
    BY <1>6, <2>1
  <2> QED  BY <1>0, <1>7, <2>1, <2>2 DEF EmitterWalks
<1>9. E!RegisteredAlive'
  <2>1. \A k \in 1..size : cells[k] \notin freed
    BY <1>0 DEF E!Safety, E!RegisteredAlive
  <2>2. kept \cap freed = {}
    BY <1>0 DEF E!Safety, E!RegisteredAlive
  <2>3. ASSUME NEW k \in 1..size'
        PROVE  cells'[k] \notin freed'
    <3>1. k \in 1..size - 1 /\ k + 1 \in 2..size /\ k + 1 \in 1..size
      BY <1>1, <1>2
    <3> QED  BY <1>3, <1>f, <2>1, <3>1
  <2>4. kept' \cap freed' = {}
    BY <1>1, <1>f, <2>2
  <2> QED  BY <2>3, <2>4 DEF E!RegisteredAlive
<1>10. E!UndefinedNeedsChange'
  <2>1. SUFFICES ASSUME emitterFate' = "undefined"
                 PROVE  \E i \in DOMAIN walks' :
                            /\ walks'[i].removed /\ walks'[i].said # << >>
                            /\ walks'[i].said[Len(walks'[i].said)] \in freed'
    BY DEF E!UndefinedNeedsChange
  <2>2. cells[1] \in E!Running /\ cells[1] \in freed'
    BY <1>1, <1>f, <2>1
  <2>3. PICK i \in DOMAIN walks :
            walks[i].said # << >> /\ walks[i].said[Len(walks[i].said)] = cells[1]
    BY <2>2, Zenon DEF E!Running
  <2>4. i \in DOMAIN walks' /\ walks'[i] = [walks[i] EXCEPT !.removed = TRUE]
    BY <1>1
  <2>5. walks[i] \in Walk
    BY <1>5 DEF WalkFits
  <2>6. walks'[i].removed = TRUE /\ walks'[i].said = walks[i].said
    BY <2>4, <2>5 DEF Walk
  <2> QED  BY <2>2, <2>3, <2>4, <2>6
<1>11. E!Safety'
  BY <1>0, <1>1, <1>9, <1>10 DEF E!Safety, E!EmitCallsThemAll, E!EmitCallsAsMany
<1> QED  BY <1>4, <1>8, <1>11 DEF EmitterInv

\* Every handler that runs in a walk without removals is registered.
LEMMA RunningRegistered ==
    ASSUME EmitterInv, NEW i \in DOMAIN walks, ~walks[i].removed,
           walks[i].said # << >>
    PROVE  \E k \in 1..size : cells[k] = walks[i].said[Len(walks[i].said)]
<1> DEFINE w == walks[i]
           k == Len(w.said)
<1>1. w \in Walk /\ WalkFits(w, cells, size) /\ size \in Nat
  BY Bounds DEF EmitterInv, EmitterWalks, EmitterVector, WalkFits
<1> HIDE DEF w
<1>2. /\ w.at \in Nat /\ w.last \in Nat /\ w.said \in Seq(Handler)
  BY <1>1, WalkFields
<1>3. k \in Nat /\ k # 0
  BY <1>2, EmptySeq, LenProperties DEF w
<1>4. /\ k = w.at - 1 /\ w.at \in 1..w.last + 1 /\ w.last <= size
      /\ \A j \in 1..w.at - 1 : w.said[j] = w.start[j]
      /\ \A j \in 1..w.last : cells[j] = w.start[j]
  BY <1>1 DEF WalkFits, w
<1>5. k \in 1..w.at - 1 /\ k \in 1..w.last /\ k \in 1..size
  BY <1>1, <1>2, <1>3, <1>4
<1>6. cells[k] = w.said[k]
  BY <1>4, <1>5
<1> QED  BY <1>5, <1>6 DEF w

LEMMA EmitterForget == ASSUME EmitterInv, NEW h \in Handler, E!forget(h)
                       PROVE  EmitterInv'
<1>0. EmitterVector /\ EmitterWalks /\ E!Safety
  BY DEF EmitterInv
<1>1. /\ UNCHANGED <<cells, size, capacity, walks, lastWalk, emitterCalls>>
      /\ emitterFate = "fine" /\ kept' = kept \ {h} /\ h \in kept
  BY DEF E!forget
<1>2. \/ UNCHANGED <<freed, emitterFate>>
      \/ /\ \A k \in 1..size : cells[k] # h
         /\ freed' = freed \cup {h}
         /\ emitterFate' \in {"fine", "undefined"}
         /\ emitterFate' = "undefined" => h \in E!Running
  BY DEF E!forget, E!Free
<1>3. EmitterVector'
  BY <1>0, <1>1, <1>2 DEF EmitterVector
<1>4. EmitterWalks'
  BY <1>0, <1>1 DEF EmitterWalks
<1>5. E!RegisteredAlive'
  BY <1>0, <1>1, <1>2 DEF E!Safety, E!RegisteredAlive
<1>6. E!UndefinedNeedsChange'
  <2>1. SUFFICES ASSUME emitterFate' = "undefined"
                 PROVE  \E i \in DOMAIN walks :
                            /\ walks[i].removed /\ walks[i].said # << >>
                            /\ walks[i].said[Len(walks[i].said)] \in freed'
    BY <1>1 DEF E!UndefinedNeedsChange
  <2>2. h \in E!Running /\ h \in freed' /\ \A k \in 1..size : cells[k] # h
    BY <1>1, <1>2, <2>1
  <2>3. PICK i \in DOMAIN walks :
            walks[i].said # << >> /\ walks[i].said[Len(walks[i].said)] = h
    BY <2>2, Zenon DEF E!Running
  <2>4. walks[i].removed
    BY <2>2, <2>3, RunningRegistered
  <2> QED  BY <2>2, <2>3, <2>4
<1>7. E!Safety'
  BY <1>0, <1>1, <1>5, <1>6 DEF E!Safety, E!EmitCallsThemAll, E!EmitCallsAsMany
<1> QED  BY <1>3, <1>4, <1>7 DEF EmitterInv


LEMMA EmitterEmit == ASSUME EmitterInv, E!emit
                     PROVE  EmitterInv'
<1>0. EmitterVector /\ EmitterWalks /\ E!Safety
  BY DEF EmitterInv
<1> DEFINE w == [E!NoWalk EXCEPT !.last = size, !.start = E!listeners]
<1>1. /\ walks' = Append(walks, w) /\ Len(walks) < MaxDepth
      /\ emitterCalls < MaxEmitterCalls /\ emitterCalls' = emitterCalls + 1
      /\ UNCHANGED <<cells, size, capacity, lastWalk, emitterFate, kept, freed>>
      /\ emitterFate = "fine"
  BY DEF E!emit, E!MayCall, E!holders
<1>2. /\ cells \in Seq(Handler) /\ size \in Nat /\ size <= Len(cells) /\ Len(cells) \in Nat
  BY <1>0, Bounds, LenProperties DEF EmitterVector
<1>3. /\ E!listeners \in Seq(Handler) /\ Len(E!listeners) = size
      /\ \A k \in 1..size : E!listeners[k] = cells[k]
  <2>1. \A i \in 1..size : cells[i] \in Handler
    BY <1>2, ElementOfSeq
  <2>2. /\ SubSeq(cells, 1, size) \in Seq(Handler)
        /\ Len(SubSeq(cells, 1, size)) = (IF 1 <= size THEN size - 1 + 1 ELSE 0)
        /\ \A i \in 1..size - 1 + 1 : SubSeq(cells, 1, size)[i] = cells[1 + i - 1]
    BY <1>2, <2>1, SubSeqProperties
  <2>3. \A i \in 1..size : i \in 1..size - 1 + 1 /\ 1 + i - 1 = i
    BY <1>2
  <2>4. (IF 1 <= size THEN size - 1 + 1 ELSE 0) = size
    BY <1>2
  <2>5. \A i \in 1..size : SubSeq(cells, 1, size)[i] = cells[i]
    BY <2>2, <2>3, Zenon
  <2>6. SubSeq(cells, 1, size) = E!listeners
    BY DEF E!listeners
  <2>7. Len(SubSeq(cells, 1, size)) = size
    BY <1>2, <2>2
  <2> QED  BY <2>2, <2>5, <2>6, <2>7, Zenon
<1>4. /\ w \in Walk /\ w.at = 1 /\ w.last = size /\ w.array = "own" /\ w.removed = FALSE
      /\ w.start = E!listeners /\ w.said = << >> /\ Len(w.said) = 0
  BY <1>2, <1>3, EmptySeq DEF Walk, E!NoWalk
<1> HIDE DEF w
<1>5. WalkFits(w, cells, size)
  BY <1>2, <1>3, <1>4 DEF WalkFits
<1>6. EmitterVector'
  BY <1>0, <1>1, Bounds DEF EmitterVector
<1>7. EmitterWalks'
  <2>1. /\ Len(walks) \in Nat /\ DOMAIN walks = 1..Len(walks) /\ walks \in Seq(Walk)
        /\ \A i \in 1..Len(walks) : WalkFits(walks[i], cells, size)
    BY <1>0, LenProperties DEF EmitterWalks
  <2>2. /\ walks' \in Seq(Walk) /\ Len(walks') = Len(walks) + 1
        /\ \A i \in 1..Len(walks) : walks'[i] = walks[i]
        /\ walks'[Len(walks) + 1] = w
    BY <1>1, <1>4, <2>1, AppendProperties
  <2>3. DOMAIN walks' = 1..Len(walks) + 1
    BY <2>2, LenProperties
  <2>4. \A i \in 1..Len(walks) + 1 : i \in 1..Len(walks) \/ i = Len(walks) + 1
    BY <2>1
  <2>5. \A i \in DOMAIN walks' : WalkFits(walks'[i], cells', size')
    BY <1>1, <1>5, <2>1, <2>2, <2>3, <2>4
  <2> QED  BY <1>1, <2>1, <2>2, <2>5, Bounds DEF EmitterWalks
<1>8. E!Safety'
  BY <1>0, <1>1
  DEF E!Safety, E!EmitCallsThemAll, E!EmitCallsAsMany, E!UndefinedNeedsChange, E!RegisteredAlive
<1> QED  BY <1>6, <1>7, <1>8 DEF EmitterInv

\* The innermost walk makes its next call.
LEMMA EmitterCall == ASSUME EmitterInv, E!callNext
                     PROVE  EmitterInv'
<1>0. EmitterVector /\ EmitterWalks /\ E!Safety
  BY DEF EmitterInv
<1> DEFINE n == Len(walks)
           w == walks[n]
           v == [w EXCEPT !.at = @ + 1, !.said = Append(@, cells[w.at])]
<1>1. /\ walks # << >> /\ emitterFate = "fine" /\ w.at <= w.last
      /\ UNCHANGED <<cells, size, capacity, lastWalk, emitterCalls, kept, freed>>
  BY DEF E!callNext, E!LastCell, E!holders
<1>2. /\ n \in Nat \ {0} /\ DOMAIN walks = 1..n /\ walks \in Seq(Walk)
      /\ \A i \in 1..n : WalkFits(walks[i], cells, size)
  BY <1>0, <1>1, LenProperties, EmptySeq DEF EmitterWalks
<1>3. n \in DOMAIN walks /\ WalkFits(w, cells, size)
  BY <1>2
<1>4. CASE w.array # "own" \/ cells[w.at] \in freed
  <2>1. walks' = walks /\ emitterFate' = "undefined"
    BY <1>4 DEF E!callNext
  <2>2. w.array = "freed" \/ (w.removed /\ cells[w.at] \in freed)
    <3>1. w \in Walk /\ w.array \in {"own", "freed"}
      BY <1>3, WalkFields DEF WalkFits
    <3>2. CASE w.array = "own" /\ ~w.removed
      <4>1. /\ w.at \in 1..w.last + 1 /\ w.last <= size
            /\ \A k \in 1..size : cells[k] \notin freed
        BY <1>0, <1>3, <3>2 DEF WalkFits, E!Safety, E!RegisteredAlive
      <4>2. w.at \in 1..size
        <5>1. w.at \in Nat /\ w.last \in Nat /\ size \in Nat
          BY <1>0, <3>1, WalkFields, Bounds DEF EmitterVector
        <5> QED  BY <1>1, <4>1, <5>1
      <4> QED  BY <1>4, <3>2, <4>1, <4>2
    <3> QED  BY <1>4, <3>1, <3>2
  <2>3. EmitterVector' /\ EmitterWalks'
    BY <1>0, <1>1, <2>1 DEF EmitterVector, EmitterWalks
  <2>4. E!UndefinedNeedsChange'
    BY <1>1, <1>3, <2>1, <2>2, Zenon DEF E!UndefinedNeedsChange
  <2> QED
    BY <1>0, <1>1, <2>3, <2>4
    DEF EmitterInv, E!Safety, E!EmitCallsThemAll, E!EmitCallsAsMany, E!RegisteredAlive
<1>5. CASE w.array = "own" /\ cells[w.at] \notin freed
  <2>1. walks' = [walks EXCEPT ![n] = v] /\ emitterFate' = emitterFate
    BY <1>5 DEF E!callNext
  <2> HIDE DEF n
  <2>2. /\ w \in Walk /\ w.at \in 1..w.last + 1 /\ w.last <= Len(cells)
        /\ Len(w.start) = w.last /\ Len(w.said) = w.at - 1
        /\ ~w.removed => \A k \in 1..w.at - 1 : w.said[k] = w.start[k]
        /\ ~w.removed => w.last <= size /\ \A k \in 1..w.last : cells[k] = w.start[k]
    BY <1>3, <1>5 DEF WalkFits
  <2> HIDE DEF w
  <2>3. w.at \in Nat /\ w.last \in Nat /\ w.said \in Seq(Handler) /\ w.at \in 1..w.last
    BY <1>1, <2>2, WalkFields
  <2>4. cells \in Seq(Handler) /\ Len(cells) \in Nat
    BY <1>0, LenProperties DEF EmitterVector
  <2>5. cells[w.at] \in Handler
    <3>1. w.at \in 1..Len(cells)
      BY <2>2, <2>3, <2>4
    <3> QED  BY <2>4, <3>1, ElementOfSeq
  <2> DEFINE said == Append(w.said, cells[w.at])
  <2>6. /\ said \in Seq(Handler) /\ Len(said) = w.at - 1 + 1 /\ said[w.at - 1 + 1] = cells[w.at]
        /\ \A k \in 1..w.at - 1 : said[k] = w.said[k]
    BY <2>2, <2>3, <2>5, AppendProperties
  <2>7. /\ v \in Walk /\ v.at = w.at + 1 /\ v.last = w.last /\ v.start = w.start
        /\ v.said = said /\ v.removed = w.removed /\ v.array = w.array
    <3>1. said \in Seq(Handler) /\ w.at + 1 \in Nat /\ w \in Walk
      BY <2>2, <2>3, <2>6
    <3>2. v = [w EXCEPT !.at = w.at + 1, !.said = said]
      OBVIOUS
    <3> HIDE DEF said, v
    <3> QED  BY <3>1, <3>2 DEF Walk
  <2> HIDE DEF said, v
  <2>8. w.at - 1 + 1 = w.at /\ w.at + 1 - 1 = w.at /\ w.at + 1 \in 1..w.last + 1
    BY <2>3
  <2>9. \A k \in 1..w.at : k \in 1..w.at - 1 \/ k = w.at
    BY <2>3
  <2>10. ~w.removed => \A k \in 1..w.at : said[k] = w.start[k]
    BY <2>2, <2>3, <2>6, <2>8, <2>9
  <2>11. WalkFits(v, cells, size)
    BY <2>2, <2>6, <2>7, <2>8, <2>10, <1>5 DEF WalkFits
  <2>12. walks' \in Seq(Walk) /\ Len(walks') = n /\ DOMAIN walks' = 1..n
    <3>1. n \in 1..Len(walks) /\ Len(walks) = n
      BY <1>2 DEF n
    <3>2. walks' \in Seq(Walk) /\ Len(walks') = Len(walks)
      BY <1>2, <2>1, <2>7, <3>1, ExceptSeq
    <3> QED  BY <3>1, <3>2, LenProperties
  <2>13. \A i \in 1..n : walks'[i] = IF i = n THEN v ELSE walks[i]
    BY <1>2, <2>1
  <2>14. \A i \in 1..n : WalkFits(walks'[i], cells', size')
    BY <1>1, <1>2, <2>11, <2>13
  <2>15. EmitterWalks'
    <3>1. n <= MaxDepth
      BY <1>0 DEF EmitterWalks, n
    <3> QED  BY <2>12, <2>14, <3>1 DEF EmitterWalks
  <2>16. EmitterVector' /\ E!Safety'
    BY <1>0, <1>1, <2>1
    DEF EmitterVector, E!Safety, E!EmitCallsThemAll, E!EmitCallsAsMany,
        E!UndefinedNeedsChange, E!RegisteredAlive
  <2> QED  BY <2>15, <2>16 DEF EmitterInv
<1> QED  BY <1>4, <1>5

\* A walk that is over has made all of its calls.
LEMMA EmitterReturn == ASSUME EmitterInv, E!emitReturns
                       PROVE  EmitterInv'
<1>0. EmitterVector /\ EmitterWalks /\ E!Safety
  BY DEF EmitterInv
<1> DEFINE n == Len(walks)
           w == walks[n]
<1>1. /\ walks # << >> /\ emitterFate = "fine" /\ w.at > w.last
      /\ lastWalk' = w /\ walks' = SubSeq(walks, 1, n - 1)
      /\ UNCHANGED <<cells, size, capacity, emitterCalls, emitterFate, kept, freed>>
  BY DEF E!emitReturns, E!LastCell, E!holders
<1>2. /\ n \in Nat \ {0} /\ n <= MaxDepth /\ DOMAIN walks = 1..n /\ walks \in Seq(Walk)
      /\ \A i \in 1..n : WalkFits(walks[i], cells, size)
      /\ \A i \in 1..n : walks[i] \in Walk
  BY <1>0, <1>1, LenProperties, EmptySeq, ElementOfSeq DEF EmitterWalks
<1>3. WalkFits(w, cells, size)
  BY <1>2
<1> HIDE DEF n
<1>4. /\ w \in Walk /\ w.at \in 1..w.last + 1
      /\ Len(w.start) = w.last /\ Len(w.said) = w.at - 1
      /\ ~w.removed => \A k \in 1..w.at - 1 : w.said[k] = w.start[k]
  BY <1>3 DEF WalkFits
<1> HIDE DEF w
<1>5. w.last \in Nat /\ w.at - 1 = w.last /\ w.said \in Seq(Handler) /\ w.start \in Seq(Handler)
  BY <1>1, <1>4, WalkFields
<1>6. Len(w.said) = Len(w.start)
  BY <1>4, <1>5
<1>7. ~w.removed => w.said = w.start
  BY <1>4, <1>5, <1>6, SeqEqual
<1>8. E!Safety'
  BY <1>0, <1>1, <1>6, <1>7
  DEF E!Safety, E!EmitCallsThemAll, E!EmitCallsAsMany, E!UndefinedNeedsChange,
      E!RegisteredAlive
<1>9. EmitterVector'
  BY <1>0, <1>1 DEF EmitterVector
<1>10. EmitterWalks'
  <2>1. \A i \in 1..n - 1 : walks[i] \in Walk /\ WalkFits(walks[i], cells, size)
    BY <1>2
  <2>2. /\ SubSeq(walks, 1, n - 1) \in Seq(Walk)
        /\ Len(SubSeq(walks, 1, n - 1)) = (IF 1 <= n - 1 THEN n - 1 - 1 + 1 ELSE 0)
        /\ \A i \in 1..n - 1 - 1 + 1 : SubSeq(walks, 1, n - 1)[i] = walks[1 + i - 1]
    BY <1>2, <2>1, SubSeqProperties
  <2>3. (IF 1 <= n - 1 THEN n - 1 - 1 + 1 ELSE 0) = n - 1 /\ n - 1 <= MaxDepth
    BY <1>2, Bounds
  <2>4. \A i \in 1..n - 1 : i \in 1..n - 1 - 1 + 1 /\ 1 + i - 1 = i
    BY <1>2
  <2>5. walks' \in Seq(Walk) /\ Len(walks') = n - 1
    BY <1>1, <2>2, <2>3, Zenon
  <2>6. \A i \in 1..n - 1 : walks'[i] = walks[i]
    BY <1>1, <2>2, <2>4, Zenon
  <2>7. DOMAIN walks' = 1..n - 1
    BY <2>5, LenProperties
  <2> QED  BY <1>1, <2>1, <2>3, <2>5, <2>6, <2>7 DEF EmitterWalks
<1> QED  BY <1>8, <1>9, <1>10 DEF EmitterInv

LEMMA EmitterNext == ASSUME EmitterInv, [Next]_vars
                     PROVE  EmitterInv'
<1>1. E!Next \/ UNCHANGED emitterVars
  BY DEF Next, vars
<1> QED
  BY <1>1, EmitterOn, EmitterForget, EmitterRemove, EmitterEmit, EmitterCall, EmitterReturn,
     EmitterStutter DEF E!Next, E!once

\* EmitterSafety (MCLibraries) for every bound: an emit() during which no
\* handler was removed calls exactly the handlers it began with, in order, any
\* emit() as many of them; no registered handler is freed; and freed memory is
\* used only after a registration that moved the vector under a walk, or in a
\* walk during which a handler was removed that the script does not hold
\* (EventsModule.cpp on, emit, removeListener).
THEOREM HandlersCalled == Spec => []EmitterSafety
<1>1. Init => EmitterInv
  BY EmitterStart DEF Init
<1>2. EmitterInv /\ [Next]_vars => EmitterInv'
  BY EmitterNext
<1>3. EmitterInv => EmitterSafety
  BY DEF EmitterInv, EmitterSafety
<1> QED  BY <1>1, <1>2, <1>3, PTL DEF Spec

-----------------------------------------------------------------------------
(* npm                                                                     *)

\* The steps of a download, and those between its beginning and its end.
Busy == {"ready", "fetch", "download", "read", "write", "done"}
Steps == Busy \cup {"none", "installed", "failed"}

PackageTypes ==
    /\ registry \in [Package -> SUBSET Version]
    /\ cache \in [Package -> SUBSET Version]
    /\ call \in {"none", "installPackages", "installPackage", "updatePackage"}
    /\ maxConcurrency \in Nat
    /\ todo \subseteq Package
    /\ resolved \in [Package -> Version \cup {0}]
    /\ task \in [Package -> Steps]
    /\ fetched \subseteq Package
    /\ seen \in [Package -> SUBSET Package]
    /\ dir \in [Package -> SUBSET Version]
    /\ tmp \subseteq Package
    /\ reply.ok \in BOOLEAN

PackageBatch == Cardinality(L!Running) <= maxConcurrency

\* A .tmp directory belongs to a download in progress, and downloads to a call.
PackageFiles ==
    /\ \A p \in tmp : task[p] \in Busy
    /\ call = "none" => \A p \in Package : task[p] \notin Busy

\* No task reads or writes the bit of a download that did not happen, and a
\* bit is missing only while its task has not written it, or after an overlap.
PackageBits ==
    /\ word \subseteq fetched
    /\ \A p \in Package : seen[p] \subseteq fetched
    /\ (call = "installPackages" /\ ~overlapped) =>
            \A p \in fetched : task[p] \in {"read", "write"} \/ p \in word

\* A task begins when its version is resolved, and leaves that version behind.
PackageVersions ==
    /\ \A p \in todo : task[p] = "none"
    /\ \A p \in Package : task[p] # "none" => resolved[p] \in Version
    /\ call # "none" =>
            \A p \in Package : task[p] = "installed" => resolved[p] \in dir[p]
    /\ L!TrueMeansInstalled

PackageInv ==
    PackageTypes /\ PackageBatch /\ PackageFiles /\ PackageBits /\ PackageVersions

LEMMA PackageNumbers ==
    /\ Package \subseteq Nat /\ IsFiniteSet(Package)
    /\ Version \subseteq Nat \ {0} /\ Concurrency \subseteq Nat \ {0}
BY LibraryAssumption

\* Highest: a set of versions has a last one, and 0 says there are none.
LEMMA HighestChosen ==
    ASSUME NEW set \in SUBSET Version
    PROVE  /\ L!Highest(set) \in Version \cup {0}
           /\ L!Highest(set) # 0 => L!Highest(set) \in Version
<1>1. CASE set = {}
  BY <1>1 DEF L!Highest
<1>2. CASE set # {}
  <2>1. PICK v \in set : \A w \in set : w <= v
    BY <1>2, LibraryAssumption
  <2>2. L!Highest(set) \in set
    BY <1>2, <2>1 DEF L!Highest
  <2> QED  BY <2>2
<1> QED  BY <1>1, <1>2

LEMMA PackageStart == ASSUME L!Start
                      PROVE  PackageInv
<1>1. PackageTypes
  BY DEF L!Start, PackageTypes, Steps
<1>2. PackageBatch
  <2>1. L!Running = {}
    BY DEF L!Start, L!Running
  <2> QED  BY <2>1, FS_EmptySet DEF PackageBatch, L!Start
<1>3. PackageFiles /\ PackageBits
  BY DEF L!Start, PackageFiles, PackageBits, Busy
<1>4. PackageVersions
  BY DEF L!Start, PackageVersions, L!TrueMeansInstalled
<1> QED  BY <1>1, <1>2, <1>3, <1>4 DEF PackageInv

LEMMA PackageStutter == ASSUME PackageInv, UNCHANGED packageVars
                        PROVE  PackageInv'
BY DEF packageVars, PackageInv, PackageTypes, PackageBatch, L!Running, PackageFiles,
   PackageBits, PackageVersions, L!TrueMeansInstalled

\* A step that starts no download keeps a batch within its size.
LEMMA RunningShrinks ==
    ASSUME PackageBatch, L!Running' \subseteq L!Running, maxConcurrency \in Nat,
           maxConcurrency' = maxConcurrency
    PROVE  PackageBatch'
<1>1. L!Running \subseteq Package
  BY DEF L!Running
<1>2. IsFiniteSet(L!Running) /\ IsFiniteSet(L!Running')
  BY <1>1, PackageNumbers, FS_Subset
<1>3. Cardinality(L!Running') <= Cardinality(L!Running)
  BY <1>2, FS_Subset
<1>4. Cardinality(L!Running) \in Nat /\ Cardinality(L!Running') \in Nat
  BY <1>2, FS_CardinalityType
<1> QED  BY <1>3, <1>4 DEF PackageBatch

LEMMA PackageRegistry ==
    ASSUME PackageInv, NEW p \in Package,
           \/ \E set \in SUBSET Version : L!RegistryChanges(p, set)
           \/ L!CacheExpires(p)
    PROVE  PackageInv'
<1>1. UNCHANGED <<L!callVars, L!taskVars, L!fileVars>>
  BY DEF L!RegistryChanges, L!CacheExpires
<1>2. /\ registry' \in [Package -> SUBSET Version]
      /\ cache' \in [Package -> SUBSET Version]
  BY DEF L!RegistryChanges, L!CacheExpires, L!netVars, PackageInv, PackageTypes
<1> QED
  BY <1>1, <1>2 DEF L!callVars, L!taskVars, L!fileVars, PackageInv, PackageTypes,
     PackageBatch, L!Running, PackageFiles, PackageBits, PackageVersions,
     L!TrueMeansInstalled

\* A call begins with no download; its directories may have lost files.
LEMMA PackageBegin ==
    ASSUME PackageInv, NEW set \in SUBSET Package, NEW n \in Nat,
           NEW op \in {"installPackages", "installPackage", "updatePackage"},
           L!Begin(op, set, n), dir' \in [Package -> SUBSET Version], tmp' = tmp
    PROVE  PackageInv'
<1>1. /\ call' = op /\ maxConcurrency' = n /\ todo' = set
      /\ resolved' = [p \in Package |-> 0] /\ task' = [p \in Package |-> "none"]
      /\ fetched' = {} /\ word' = {} /\ seen' = [p \in Package |-> {}]
      /\ UNCHANGED <<registry, cache, reply>>
      /\ call = "none"
  BY DEF L!Begin, L!netVars
<1>2. PackageTypes'
  BY <1>1 DEF PackageInv, PackageTypes, Steps
<1>3. PackageBatch'
  <2>1. L!Running' = {}
    BY <1>1 DEF L!Running
  <2> QED  BY <1>1, <2>1, FS_EmptySet DEF PackageBatch
<1>4. PackageFiles'
  <2>1. tmp = {}
    BY <1>1 DEF PackageInv, PackageFiles, PackageTypes
  <2> QED  BY <1>1, <2>1 DEF PackageFiles
<1>5. PackageBits'
  BY <1>1 DEF PackageBits
<1>6. PackageVersions'
  BY <1>1 DEF PackageVersions, L!TrueMeansInstalled
<1> QED  BY <1>2, <1>3, <1>4, <1>5, <1>6 DEF PackageInv

LEMMA PackageUninstall == ASSUME PackageInv, NEW p \in Package, L!uninstallPackage(p)
                          PROVE  PackageInv'
<1>1. /\ call = "none" /\ dir' = [dir EXCEPT ![p] = {}]
      /\ reply' = [ok |-> TRUE, of |-> {}]
      /\ UNCHANGED <<registry, cache, call, maxConcurrency, todo, resolved, task,
                     fetched, word, seen, overlapped, tmp>>
  BY DEF L!uninstallPackage, L!netVars, L!taskVars
<1>2. PackageTypes'
  BY <1>1 DEF PackageInv, PackageTypes
<1>3. PackageBatch' /\ PackageFiles' /\ PackageBits'
  BY <1>1 DEF PackageInv, PackageBatch, L!Running, PackageFiles, PackageBits
<1>4. PackageVersions'
  BY <1>1 DEF PackageInv, PackageVersions, L!TrueMeansInstalled
<1> QED  BY <1>2, <1>3, <1>4 DEF PackageInv

LEMMA PackageResolve == ASSUME PackageInv, NEW p \in Package, L!resolve(p)
                        PROVE  PackageInv'
<1> DEFINE v == L!Highest(L!fetchPackage(p))
<1>0. PackageTypes /\ PackageBatch /\ PackageFiles /\ PackageBits /\ PackageVersions
  BY DEF PackageInv
<1>1. /\ call # "none" /\ p \in todo /\ todo' = todo \ {p}
      /\ cache' = [cache EXCEPT ![p] = L!fetchPackage(p)]
      /\ resolved' = [resolved EXCEPT ![p] = v]
      /\ tmp' = (IF v # 0 THEN tmp \cup {p} ELSE tmp)
      /\ task' = (IF v # 0 THEN [task EXCEPT ![p] = "ready"] ELSE task)
      /\ UNCHANGED <<registry, call, maxConcurrency, reply, fetched, word, seen,
                     overlapped, dir>>
  BY DEF L!resolve, L!netVars
<1>2. L!fetchPackage(p) \in SUBSET Version
  BY <1>0 DEF PackageTypes, L!fetchPackage
<1>3. v \in Version \cup {0} /\ (v # 0 => v \in Version)
  BY <1>2, HighestChosen
<1> HIDE DEF v
<1>4. /\ task[p] = "none" /\ task' \in [Package -> Steps]
      /\ task'[p] = (IF v # 0 THEN "ready" ELSE "none")
      /\ \A q \in Package \ {p} : task'[q] = task[q]
  BY <1>0, <1>1 DEF PackageTypes, PackageVersions, Steps, Busy
<1>5. PackageTypes'
  BY <1>0, <1>1, <1>2, <1>3, <1>4 DEF PackageTypes
<1>6. PackageBatch'
  <2>1. L!Running' \subseteq L!Running
    BY <1>4 DEF L!Running
  <2> QED  BY <1>0, <1>1, <2>1, RunningShrinks DEF PackageTypes
<1>7. PackageFiles'
  BY <1>0, <1>1, <1>4 DEF PackageTypes, PackageFiles, Busy
<1>8. PackageBits'
  BY <1>0, <1>1, <1>4 DEF PackageTypes, PackageBits
<1>9. PackageVersions'
  BY <1>0, <1>1, <1>3, <1>4 DEF PackageTypes, PackageVersions, L!TrueMeansInstalled
<1> QED  BY <1>5, <1>6, <1>7, <1>8, <1>9 DEF PackageInv

\* The module counts as these proofs do.
LEMMA SameCount == \A set : L!Cardinality(set) = Cardinality(set)
BY DEF L!Cardinality, Cardinality, L!IsFiniteSet, IsFiniteSet

\* A batch is as large as the call allows: the ready packages before a member
\* of it are fewer, and they are fewer for a smaller package.
LEMMA BatchSize ==
    ASSUME maxConcurrency \in Nat
    PROVE  IsFiniteSet(L!Batch) /\ Cardinality(L!Batch) <= maxConcurrency
<1> DEFINE Smaller(p) == {q \in L!Ready : q < p}
           f == [p \in L!Batch |-> Cardinality(Smaller(p))]
           Places == 0..(maxConcurrency - 1)
<1>1. /\ L!Batch \subseteq L!Ready /\ L!Ready \subseteq Nat /\ IsFiniteSet(L!Ready)
      /\ \A p \in L!Batch : Cardinality(Smaller(p)) < maxConcurrency
  <2>1. L!Ready \subseteq Package
    BY DEF L!Ready
  <2>2. IsFiniteSet(L!Ready)
    BY <2>1, PackageNumbers, FS_Subset
  <2>3. /\ L!Batch \subseteq L!Ready
        /\ \A p \in L!Batch : Cardinality(Smaller(p)) < maxConcurrency
    BY SameCount DEF L!Batch
  <2> QED  BY <2>1, <2>2, <2>3, PackageNumbers
<1>2. \A p \in L!Ready : IsFiniteSet(Smaller(p)) /\ Cardinality(Smaller(p)) \in Nat
  BY <1>1, FS_Subset, FS_CardinalityType
<1>3. ASSUME NEW p \in L!Ready, NEW q \in L!Ready, p < q
      PROVE  Cardinality(Smaller(p)) # Cardinality(Smaller(q))
  <2>1. p \in Nat /\ q \in Nat /\ \A r \in L!Ready : r \in Nat
    BY <1>1
  <2>2. ~ (p < p) /\ \A r \in L!Ready : r < p => r < q
    BY <1>3, <2>1
  <2>3. Smaller(p) \subseteq Smaller(q) /\ p \in Smaller(q) /\ p \notin Smaller(p)
    BY <1>3, <2>2
  <2> HIDE DEF Smaller
  <2> QED  BY <1>2, <2>3, FS_Subset
<1>4. \A p \in L!Batch : Cardinality(Smaller(p)) \in Places
  BY <1>1, <1>2
<1>5. f \in Injection(L!Batch, Places)
  <2>1. f \in [L!Batch -> Places]
    BY <1>4
  <2>2. ASSUME NEW p \in L!Batch, NEW q \in L!Batch, f[p] = f[q]
        PROVE  p = q
    <3>1. Cardinality(Smaller(p)) = Cardinality(Smaller(q))
      BY <2>2
    <3>2. ~ (p < q) /\ ~ (q < p)
      BY <1>1, <1>3, <3>1
    <3> QED  BY <1>1, <3>2
  <2> HIDE DEF f, Places
  <2> QED  BY <2>1, <2>2 DEF Injection, IsInjective
<1>6. IsFiniteSet(Places) /\ Cardinality(Places) = maxConcurrency
  BY FS_Interval
<1> HIDE DEF f, Places
<1> QED  BY <1>5, <1>6, FS_Injection

LEMMA PackageBatchStarts == ASSUME PackageInv, L!startBatch
                            PROVE  PackageInv'
<1>0. PackageTypes /\ PackageFiles /\ PackageBits /\ PackageVersions
  BY DEF PackageInv
<1>1. /\ L!Running = {}
      /\ task' = [p \in Package |-> IF p \in L!Batch THEN "fetch" ELSE task[p]]
      /\ UNCHANGED <<registry, cache, call, maxConcurrency, todo, resolved, reply,
                     fetched, word, seen, overlapped, dir, tmp>>
  BY DEF L!startBatch, L!netVars, L!callVars, L!fileVars
<1>2. \A p \in L!Batch : p \in Package /\ task[p] = "ready"
  BY DEF L!Batch, L!Ready
<1>3. PackageTypes'
  BY <1>0, <1>1 DEF PackageTypes, Steps, Busy
<1>4. PackageBatch'
  <2>1. L!Running' = L!Batch
    BY <1>1, <1>2 DEF L!Running
  <2> QED  BY <1>0, <1>1, <2>1, BatchSize DEF PackageBatch, PackageTypes
<1>5. PackageFiles'
  BY <1>0, <1>1, <1>2 DEF PackageTypes, PackageFiles, Busy
<1>6. PackageBits'
  BY <1>0, <1>1, <1>2 DEF PackageTypes, PackageBits
<1>7. PackageVersions'
  BY <1>0, <1>1, <1>2 DEF PackageTypes, PackageVersions, L!TrueMeansInstalled
<1> QED  BY <1>3, <1>4, <1>5, <1>6, <1>7 DEF PackageInv

\* What every step of a download keeps: the task goes from a busy step to a
\* later one, and only its own entries change.
LEMMA DownloadStep ==
    ASSUME PackageInv, NEW p \in Package,
           task[p] \in {"fetch", "download", "read", "write"},
           NEW step \in {"download", "read", "write", "done"},
           task' = [task EXCEPT ![p] = step],
           UNCHANGED <<registry, call, maxConcurrency, todo, resolved, reply, dir, tmp>>,
           cache' \in [Package -> SUBSET Version], fetched' \subseteq Package,
           seen' \in [Package -> SUBSET Package]
    PROVE  PackageTypes' /\ PackageBatch' /\ PackageFiles' /\ PackageVersions'
<1>0. PackageTypes /\ PackageBatch /\ PackageFiles /\ PackageVersions
  BY DEF PackageInv
<1>1. /\ task'[p] = step /\ \A q \in Package \ {p} : task'[q] = task[q]
      /\ task' \in [Package -> Steps]
  BY <1>0 DEF PackageTypes, Steps, Busy
<1>2. PackageTypes'
  BY <1>0, <1>1 DEF PackageTypes
<1>3. PackageBatch'
  <2>1. L!Running' \subseteq L!Running
    BY <1>1 DEF L!Running
  <2> QED  BY <1>0, <2>1, RunningShrinks DEF PackageTypes
<1>4. PackageFiles'
  BY <1>0, <1>1 DEF PackageTypes, PackageFiles, Busy
<1>5. PackageVersions'
  BY <1>0, <1>1 DEF PackageTypes, PackageVersions, L!TrueMeansInstalled
<1> QED  BY <1>2, <1>3, <1>4, <1>5

LEMMA PackageFetch == ASSUME PackageInv, NEW p \in Package, L!downloadFetch(p)
                      PROVE  PackageInv'
<1>0. PackageTypes /\ PackageBits
  BY DEF PackageInv
<1> DEFINE step == IF resolved[p] \in L!fetchPackage(p) THEN "download" ELSE L!After
<1>1. /\ task[p] = "fetch" /\ task' = [task EXCEPT ![p] = step]
      /\ cache' = [cache EXCEPT ![p] = L!fetchPackage(p)]
      /\ UNCHANGED <<registry, call, maxConcurrency, todo, resolved, reply, dir, tmp,
                     fetched, word, seen, overlapped>>
  BY DEF L!downloadFetch, L!Reaches, L!netVars, L!callVars, L!fileVars
<1>2. step \in {"download", "read", "write", "done"}
  BY DEF L!After
<1>3. cache' \in [Package -> SUBSET Version]
  BY <1>0, <1>1 DEF PackageTypes, L!fetchPackage
<1> HIDE DEF step
<1>4. PackageBits'
  BY <1>0, <1>1 DEF PackageTypes, PackageBits
<1>5. PackageTypes' /\ PackageBatch' /\ PackageFiles' /\ PackageVersions'
  BY <1>0, <1>1, <1>2, <1>3, DownloadStep DEF PackageTypes
<1> QED  BY <1>4, <1>5 DEF PackageInv

LEMMA PackageDownload ==
    ASSUME PackageInv, NEW p \in Package, NEW ok \in BOOLEAN, L!httpDownload(p, ok)
    PROVE  PackageInv'
<1>0. PackageTypes /\ PackageBits
  BY DEF PackageInv
<1>1. /\ task[p] = "download" /\ task' = [task EXCEPT ![p] = L!After]
      /\ fetched' = (IF ok THEN fetched \cup {p} ELSE fetched)
      /\ UNCHANGED <<registry, cache, call, maxConcurrency, todo, resolved, reply, dir,
                     tmp, word, seen, overlapped>>
  BY DEF L!httpDownload, L!Reaches, L!netVars, L!callVars, L!fileVars
<1>2. /\ L!After \in {"read", "done"}
      /\ call = "installPackages" => L!After = "read"
  BY DEF L!After
<1>3. PackageBits'
  BY <1>0, <1>1, <1>2 DEF PackageTypes, PackageBits
<1>4. PackageTypes' /\ PackageBatch' /\ PackageFiles' /\ PackageVersions'
  BY <1>0, <1>1, <1>2, DownloadStep DEF PackageTypes
<1> QED  BY <1>3, <1>4 DEF PackageInv

LEMMA PackageRead == ASSUME PackageInv, NEW p \in Package, L!readWord(p)
                     PROVE  PackageInv'
<1>0. PackageTypes /\ PackageBits
  BY DEF PackageInv
<1>1. /\ task[p] = "read" /\ task' = [task EXCEPT ![p] = "write"]
      /\ seen' = [seen EXCEPT ![p] = word]
      /\ UNCHANGED <<registry, cache, call, maxConcurrency, todo, resolved, reply, dir,
                     tmp, fetched, word, overlapped>>
  BY DEF L!readWord, L!Reaches, L!netVars, L!callVars, L!fileVars
<1>2. PackageBits'
  BY <1>0, <1>1 DEF PackageTypes, PackageBits
<1>3. seen' \in [Package -> SUBSET Package]
  BY <1>0, <1>1 DEF PackageTypes, PackageBits
<1>4. PackageTypes' /\ PackageBatch' /\ PackageFiles' /\ PackageVersions'
  BY <1>0, <1>1, <1>3, DownloadStep DEF PackageTypes
<1> QED  BY <1>2, <1>4 DEF PackageInv

LEMMA PackageWrite == ASSUME PackageInv, NEW p \in Package, L!writeWord(p)
                      PROVE  PackageInv'
<1>0. PackageTypes /\ PackageBits
  BY DEF PackageInv
<1>1. /\ task[p] = "write" /\ task' = [task EXCEPT ![p] = "done"]
      /\ word' = L!Bit(p)
      /\ overlapped' = (overlapped \/ seen[p] # word)
      /\ UNCHANGED <<registry, cache, call, maxConcurrency, todo, resolved, reply, dir,
                     tmp, fetched, seen>>
  BY DEF L!writeWord, L!netVars, L!callVars, L!fileVars
<1>2. PackageBits'
  <2>1. word' \subseteq fetched
    BY <1>0, <1>1 DEF PackageBits, L!Bit
  <2>2. ASSUME call = "installPackages", ~overlapped', NEW q \in fetched
        PROVE  task'[q] \in {"read", "write"} \/ q \in word'
    <3>1. ~overlapped /\ seen[p] = word
      BY <1>1, <2>2
    <3>2. task[q] \in {"read", "write"} \/ q \in word
      BY <1>0, <2>2, <3>1 DEF PackageBits
    <3>3. CASE q = p
      BY <1>1, <2>2, <3>3 DEF L!Bit
    <3>4. CASE q # p
      BY <1>0, <1>1, <3>1, <3>2, <3>4 DEF L!Bit, PackageTypes
    <3> QED  BY <3>3, <3>4
  <2> QED  BY <1>0, <1>1, <2>1, <2>2 DEF PackageBits
<1>3. PackageTypes' /\ PackageBatch' /\ PackageFiles' /\ PackageVersions'
  BY <1>0, <1>1, DownloadStep DEF PackageTypes
<1> QED  BY <1>2, <1>3 DEF PackageInv

\* The end of one download: its .tmp directory is gone, and if it counts as
\* installed the files of its version are there.
LEMMA DownloadEnds ==
    ASSUME PackageInv, NEW p \in Package, task[p] = "done",
           NEW step \in {"installed", "failed"},
           task' = [task EXCEPT ![p] = step], tmp' = tmp \ {p},
           UNCHANGED <<registry, cache, call, maxConcurrency, todo, resolved, reply,
                       fetched, word, seen, overlapped>>,
           dir' \in {dir, [dir EXCEPT ![p] = dir[p] \cup {resolved[p]}]},
           step = "installed" => resolved[p] \in dir'[p]
    PROVE  PackageInv'
<1>0. PackageTypes /\ PackageBatch /\ PackageFiles /\ PackageBits /\ PackageVersions
  BY DEF PackageInv
<1>1. /\ task'[p] = step /\ \A q \in Package \ {p} : task'[q] = task[q]
      /\ task' \in [Package -> Steps]
  BY <1>0 DEF PackageTypes, Steps, Busy
<1>2. /\ dir' \in [Package -> SUBSET Version]
      /\ \A q \in Package : dir[q] \subseteq dir'[q]
  BY <1>0 DEF PackageTypes, PackageVersions
<1>3. PackageTypes'
  BY <1>0, <1>1, <1>2 DEF PackageTypes
<1>4. PackageBatch'
  <2>1. L!Running' \subseteq L!Running
    BY <1>1 DEF L!Running
  <2> QED  BY <1>0, <2>1, RunningShrinks DEF PackageTypes
<1>5. PackageFiles'
  BY <1>0, <1>1 DEF PackageTypes, PackageFiles, Busy
<1>6. PackageBits'
  BY <1>0, <1>1 DEF PackageTypes, PackageBits
<1>7. call # "none"
  BY <1>0 DEF PackageFiles, Busy
<1>8. PackageVersions'
  BY <1>0, <1>1, <1>2, <1>7 DEF PackageTypes, PackageVersions, L!TrueMeansInstalled
<1> QED  BY <1>3, <1>4, <1>5, <1>6, <1>8 DEF PackageInv

LEMMA PackageExtract ==
    ASSUME PackageInv, NEW p \in Package, NEW ok \in BOOLEAN, L!extractTarball(p, ok)
    PROVE  PackageInv'
<1> DEFINE step == IF ok THEN "installed" ELSE "failed"
           more == [dir EXCEPT ![p] = dir[p] \cup {resolved[p]}]
<1>1. /\ task[p] = "done" /\ task' = [task EXCEPT ![p] = step] /\ tmp' = tmp \ {p}
      /\ dir' \in {more} \cup (IF ok THEN {} ELSE {dir})
      /\ UNCHANGED <<registry, cache, call, maxConcurrency, todo, resolved, reply,
                     fetched, word, seen, overlapped>>
  BY DEF L!extractTarball, L!netVars, L!callVars
<1>2. dir' \in {dir, more} /\ (ok => dir' = more)
  BY <1>1
<1>3. resolved[p] \in more[p]
  BY DEF PackageInv, PackageTypes
<1> HIDE DEF more
<1>4. step \in {"installed", "failed"} /\ (step = "installed" => resolved[p] \in dir'[p])
  BY <1>2, <1>3
<1> HIDE DEF step
<1> QED  BY <1>1, <1>2, <1>4, DownloadEnds DEF more

LEMMA PackageFails == ASSUME PackageInv, NEW p \in Package, L!downloadFailed(p)
                      PROVE  PackageInv'
<1>1. /\ task[p] = "done" /\ task' = [task EXCEPT ![p] = "failed"] /\ tmp' = tmp \ {p}
      /\ UNCHANGED <<registry, cache, call, maxConcurrency, todo, resolved, reply,
                     fetched, word, seen, overlapped, dir>>
  BY DEF L!downloadFailed, L!netVars, L!callVars
<1> QED  BY <1>1, DownloadEnds

LEMMA PackageReturn == ASSUME PackageInv, L!Return
                       PROVE  PackageInv'
<1>0. PackageTypes /\ PackageBatch /\ PackageFiles /\ PackageBits /\ PackageVersions
  BY DEF PackageInv
<1>1. /\ call # "none" /\ call' = "none"
      /\ \A p \in Package : task[p] \in {"none", "installed", "failed"}
      /\ UNCHANGED <<registry, cache, maxConcurrency, todo, resolved, task, fetched,
                     word, seen, overlapped, dir, tmp>>
  BY DEF L!Return, L!netVars, L!taskVars, L!fileVars
<1>2. /\ reply'.ok \in BOOLEAN /\ reply'.of = L!Specs
      /\ reply'.ok => \A p \in L!Specs : task[p] = "installed"
  BY DEF L!Return
<1>3. PackageTypes' /\ PackageBits'
  BY <1>0, <1>1, <1>2 DEF PackageTypes, PackageBits
<1>4. PackageBatch'
  BY <1>0, <1>1 DEF PackageBatch, L!Running
<1>5. PackageFiles'
  BY <1>0, <1>1 DEF PackageFiles, Busy
<1>6. L!TrueMeansInstalled'
  <2> SUFFICES ASSUME reply'.ok, NEW p \in L!Specs
               PROVE  resolved[p] \in dir[p]
    BY <1>1, <1>2 DEF L!TrueMeansInstalled
  <2>1. p \in Package /\ task[p] = "installed"
    BY <1>2 DEF L!Specs
  <2> QED  BY <1>0, <1>1, <2>1 DEF PackageVersions
<1>7. PackageVersions'
  BY <1>0, <1>1, <1>6 DEF PackageVersions
<1> QED  BY <1>3, <1>4, <1>5, <1>7 DEF PackageInv

LEMMA PackageBegins ==
    ASSUME PackageInv,
           \/ \E n \in Concurrency : L!installPackages(n)
           \/ \E p \in Package : L!installPackage(p) \/ L!updatePackage(p)
    PROVE  PackageInv'
<1>1. ASSUME NEW n \in Concurrency, L!installPackages(n)
      PROVE  PackageInv'
  <2>1. n \in Nat /\ dir' \in [Package -> SUBSET Version]
    BY <1>1, PackageNumbers DEF L!installPackages, L!fileVars, PackageInv, PackageTypes
  <2> QED  BY <1>1, <2>1, PackageBegin DEF L!installPackages, L!fileVars
<1>2. ASSUME NEW p \in Package, L!installPackage(p)
      PROVE  PackageInv'
  <2>1. dir' \in [Package -> SUBSET Version]
    BY <1>2 DEF L!installPackage, L!fileVars, PackageInv, PackageTypes
  <2> QED  BY <1>2, <2>1, PackageBegin DEF L!installPackage, L!fileVars
<1>3. ASSUME NEW p \in Package, L!updatePackage(p)
      PROVE  PackageInv'
  <2>1. dir' \in [Package -> SUBSET Version]
    BY <1>3 DEF L!updatePackage, PackageInv, PackageTypes
  <2> QED  BY <1>3, <2>1, PackageBegin DEF L!updatePackage
<1> QED  BY <1>1, <1>2, <1>3

LEMMA PackageStep == ASSUME PackageInv, L!Next
                     PROVE  PackageInv'
BY PackageRegistry, PackageBegins, PackageUninstall, PackageResolve, PackageFetch,
   PackageRead, PackageWrite, PackageFails, PackageDownload, PackageExtract,
   PackageBatchStarts, PackageReturn DEF L!Next

\* A step of another library leaves the package manager alone.
LEMMA PackageNext == ASSUME [Next]_vars
                     PROVE  L!Next \/ UNCHANGED packageVars
BY DEF Next, vars

\* npm: no .tmp directory outlives a call, no download is reported that did
\* not happen, one is lost only when two tasks overlapped in the word of
\* results, and a call that returns TRUE left the files of every version it
\* resolved, for any packages, versions and numbers of parallel downloads.
THEOREM InstallsReported == Spec => []InstallSafety
<1>1. Init => PackageInv
  BY PackageStart DEF Init
<1>2. PackageInv /\ [Next]_vars => PackageInv'
  BY PackageStep, PackageStutter, PackageNext
<1>3. PackageInv => InstallSafety
  <2> SUFFICES ASSUME PackageInv
               PROVE  InstallSafety
    OBVIOUS
  <2>1. L!NoTmpLeft
    BY DEF PackageInv, PackageTypes, PackageFiles, L!NoTmpLeft
  <2>2. L!NoInventedDownload /\ L!TrueMeansInstalled
    BY DEF PackageInv, PackageBits, PackageVersions, L!NoInventedDownload
  <2>3. L!LossNeedsOverlap
    BY DEF PackageInv, PackageTypes, PackageBits, L!LossNeedsOverlap
  <2> QED  BY <2>1, <2>2, <2>3 DEF InstallSafety, L!Safety
<1> QED  BY <1>1, <1>2, <1>3, PTL DEF Spec

\* npm: at most maxConcurrency downloads run at once, and every variable keeps
\* its type.
THEOREM DownloadsLimited == Spec => []L!TypeOK
<1>1. Init => PackageInv
  BY PackageStart DEF Init
<1>2. PackageInv /\ [Next]_vars => PackageInv'
  BY PackageStep, PackageStutter, PackageNext
<1>3. PackageInv => L!TypeOK
  BY SameCount DEF PackageInv, PackageTypes, PackageBatch, L!TypeOK
<1> QED  BY <1>1, <1>2, <1>3, PTL DEF Spec

-----------------------------------------------------------------------------
(* Module resolution                                                       *)

\* The name of the file itself, the extensions, the index files.
LEMMA SeqOfFunction == ASSUME NEW T, NEW n \in Nat, NEW s \in [1..n -> T]
                       PROVE  s \in Seq(T) /\ Len(s) = n
BY IsASeq, LenProperties

\* The elements of s, then those of t.
Joins(u, s, t) ==
    /\ Len(u) = Len(s) + Len(t)
    /\ \A i \in 1..Len(s) : u[i] = s[i]
    /\ \A i \in 1..Len(t) : u[Len(s) + i] = t[i]

LEMMA Joined ==
    ASSUME NEW T, NEW s \in Seq(T), NEW t \in Seq(T)
    PROVE  s \o t \in Seq(T) /\ Joins(s \o t, s, t)
<1>1. /\ s \o t \in Seq(T) /\ Len(s \o t) = Len(s) + Len(t)
      /\ \A i \in 1..Len(s) + Len(t) :
            (s \o t)[i] = (IF i <= Len(s) THEN s[i] ELSE t[i - Len(s)])
  BY ConcatProperties, Zenon
<1>2. Len(s) \in Nat /\ Len(t) \in Nat
  BY LenProperties
<1>3. ASSUME NEW i \in 1..Len(s)
      PROVE  (s \o t)[i] = s[i]
  <2>1. i \in 1..Len(s) + Len(t) /\ i <= Len(s)
    BY <1>2
  <2> QED  BY <1>1, <2>1, Zenon
<1>4. ASSUME NEW i \in 1..Len(t)
      PROVE  (s \o t)[Len(s) + i] = t[i]
  <2>1. /\ Len(s) + i \in 1..Len(s) + Len(t) /\ ~ (Len(s) + i <= Len(s))
        /\ (Len(s) + i) - Len(s) = i
    BY <1>2
  <2> QED  BY <1>1, <2>1, Zenon
<1> QED  BY <1>1, <1>3, <1>4, Zenon DEF Joins

LEMMA OrderOfCandidates ==
    /\ DOMAIN R!Order = 1..11
    /\ R!Order[1] = <<"file", "">>
    /\ \A i \in 1..5 : R!Order[i + 1] = <<"ext", R!Extensions[i]>>
    /\ \A i \in 1..5 : R!Order[i + 6] = <<"index", R!Extensions[i]>>
<1> DEFINE ext == R!Extensions
           first == <<"file", "">>
           b == [i \in 1..5 |-> <<"ext", ext[i]>>]
           c == [i \in 1..5 |-> <<"index", ext[i]>>]
           Path == {first} \cup {<<"ext", ext[i]>> : i \in 1..5}
                           \cup {<<"index", ext[i]>> : i \in 1..5}
<1>1. DOMAIN ext = 1..5
  BY DEF R!Extensions
<1>2. <<first>> \in Seq(Path) /\ Len(<<first>>) = 1 /\ <<first>>[1] = first
  <2>1. first \in Path
    OBVIOUS
  <2> HIDE DEF first, Path
  <2> QED  BY <2>1
<1>3. b \in Seq(Path) /\ Len(b) = 5 /\ \A i \in 1..5 : b[i] = <<"ext", ext[i]>>
  <2>1. b \in [1..5 -> Path] /\ \A i \in 1..5 : b[i] = <<"ext", ext[i]>>
    OBVIOUS
  <2>2. 5 \in Nat
    OBVIOUS
  <2> HIDE DEF b, Path, ext
  <2> QED  BY <2>1, <2>2, SeqOfFunction, Zenon
<1>4. c \in Seq(Path) /\ Len(c) = 5 /\ \A i \in 1..5 : c[i] = <<"index", ext[i]>>
  <2>1. c \in [1..5 -> Path] /\ \A i \in 1..5 : c[i] = <<"index", ext[i]>>
    OBVIOUS
  <2>2. 5 \in Nat
    OBVIOUS
  <2> HIDE DEF c, Path, ext
  <2> QED  BY <2>1, <2>2, SeqOfFunction, Zenon
<1>5. R!Order = (<<first>> \o b) \o c
  BY <1>1 DEF R!Order
<1> HIDE DEF first, b, c, Path, ext
<1>6. /\ <<first>> \o b \in Seq(Path) /\ Len(<<first>> \o b) = 1 + 5
      /\ \A i \in 1..1 : (<<first>> \o b)[i] = <<first>>[i]
      /\ \A i \in 1..5 : (<<first>> \o b)[1 + i] = b[i]
  <2> DEFINE s == <<first>>
  <2>1. s \in Seq(Path) /\ b \in Seq(Path) /\ Len(s) = 1 /\ Len(b) = 5
    BY <1>2, <1>3
  <2> HIDE DEF s
  <2>2. s \o b \in Seq(Path) /\ Joins(s \o b, s, b)
    BY <2>1, Joined, Zenon
  <2>3. /\ s \o b \in Seq(Path) /\ Len(s \o b) = 1 + 5
        /\ \A i \in 1..1 : (s \o b)[i] = s[i]
        /\ \A i \in 1..5 : (s \o b)[1 + i] = b[i]
    BY <2>1, <2>2, Zenon DEF Joins
  <2> QED  BY <2>3 DEF s
<1>7. /\ Len((<<first>> \o b) \o c) = 6 + 5
      /\ (<<first>> \o b) \o c \in Seq(Path)
      /\ \A i \in 1..6 : ((<<first>> \o b) \o c)[i] = (<<first>> \o b)[i]
      /\ \A i \in 1..5 : ((<<first>> \o b) \o c)[6 + i] = c[i]
  <2> DEFINE s == <<first>> \o b
  <2>1. s \in Seq(Path) /\ c \in Seq(Path) /\ Len(s) = 6 /\ Len(c) = 5
    BY <1>4, <1>6
  <2> HIDE DEF s
  <2>2. s \o c \in Seq(Path) /\ Joins(s \o c, s, c)
    BY <2>1, Joined, Zenon
  <2>3. /\ s \o c \in Seq(Path) /\ Len(s \o c) = 6 + 5
        /\ \A i \in 1..6 : (s \o c)[i] = s[i]
        /\ \A i \in 1..5 : (s \o c)[6 + i] = c[i]
    BY <2>1, <2>2, Zenon DEF Joins
  <2> QED  BY <2>3 DEF s
<1>8. DOMAIN R!Order = 1..11
  <2>1. DOMAIN R!Order = 1..6 + 5
    BY <1>5, <1>7, LenProperties, Zenon
  <2> QED  BY <2>1
<1>9. R!Order[1] = <<"file", "">>
  <2>1. 1 \in 1..1 /\ 1 \in 1..6
    OBVIOUS
  <2>2. R!Order[1] = first
    BY <1>2, <1>5, <1>6, <1>7, <2>1, Zenon
  <2> QED  BY <2>2 DEF first
<1>10. ASSUME NEW i \in 1..5
       PROVE  /\ R!Order[i + 1] = <<"ext", ext[i]>>
              /\ R!Order[i + 6] = <<"index", ext[i]>>
  <2>1. 1 + i \in 1..6 /\ 1 + i = i + 1 /\ 6 + i = i + 6
    OBVIOUS
  <2> QED  BY <1>3, <1>4, <1>5, <1>6, <1>7, <2>1
<1> QED  BY <1>8, <1>9, <1>10 DEF ext

\* try: the first candidate that is there, or none if none is.
LEMMA TryFindsFirst ==
    ASSUME NEW set
    PROVE  \/ R!try(set) = R!None /\ \A i \in 1..11 : R!Order[i] \notin set
           \/ \E k \in 1..11 : /\ R!try(set) = R!Order[k] /\ R!Order[k] \in set
                               /\ \A j \in 1..11 : R!Order[j] \in set => k <= j
<1> DEFINE found == {i \in DOMAIN R!Order : R!Order[i] \in set}
           k == CHOOSE i \in found : \A j \in found : i <= j
<1>1. R!try(set) = IF found = {} THEN R!None ELSE R!Order[k]
  BY Zenon DEF R!try, R!Preference
<1>2. DOMAIN R!Order = 1..11
  BY OrderOfCandidates
<1>3. CASE found = {}
  <2>1. \A i \in 1..11 : R!Order[i] \notin set
    BY <1>2, <1>3
  <2> QED  BY <1>1, <1>3, <2>1, Zenon
<1>4. CASE found # {}
  <2>1. found \subseteq Nat
    BY <1>2
  <2> HIDE DEF found
  <2>2. k \in found /\ \A j \in found : k <= j
    <3>1. \E i \in found : \A j \in found : i <= j
      BY <1>4, <2>1, Smallest, Zenon
    <3> QED  BY <3>1, Zenon
  <2> HIDE DEF k
  <2>3. k \in 1..11 /\ R!Order[k] \in set /\ \A j \in 1..11 : R!Order[j] \in set => k <= j
    BY <1>2, <2>2, Zenon DEF found
  <2> QED  BY <1>1, <1>4, <2>3, Zenon
<1> QED  BY <1>3, <1>4

LEMMA CandidateIsSomething == \A k \in 1..11 : R!Order[k] # R!None
<1>1. ASSUME NEW k \in 1..11
      PROVE  R!Order[k] # R!None
  <2>1. CASE k = 1
    <3>1. R!Order[k] = <<"file", "">>
      BY <2>1, OrderOfCandidates, Zenon
    <3>2. <<"file", "">> # <<"none", "">>
      OBVIOUS
    <3> QED  BY <3>1, <3>2, Zenon DEF R!None
  <2>2. CASE k \in 2..6
    <3>1. k - 1 \in 1..5 /\ (k - 1) + 1 = k
      BY <2>2
    <3>2. R!Order[k] = <<"ext", R!Extensions[k - 1]>>
      BY <3>1, OrderOfCandidates
    <3> QED  BY <3>2 DEF R!None
  <2>3. CASE k \in 7..11
    <3>1. k - 6 \in 1..5 /\ (k - 6) + 6 = k
      BY <2>3
    <3>2. R!Order[k] = <<"index", R!Extensions[k - 6]>>
      BY <3>1, OrderOfCandidates
    <3> QED  BY <3>2 DEF R!None
  <2> QED  BY <2>1, <2>2, <2>3
<1> QED  BY <1>1

\* What is found is there.
LEMMA FoundIsThere == ASSUME NEW set
                      PROVE  R!try(set) \in set \cup {R!None}
BY TryFindsFirst, Zenon

\* The level of the nearest usable package.
LEMMA NearestUsable ==
    ASSUME NEW s, R!resolveNodeModules(s).file # R!None
    PROVE  \E l \in R!Level :
             LET n == R!packageName(s)
                 e == R!entryPoint(json[<<l, n>>]) IN
             /\ R!resolveNodeModules(s).at = <<l, n, e>>
             /\ R!resolveNodeModules(s).file = R!try(R!AtEntry(l, n, e))
             /\ R!try(R!AtEntry(l, n, e)) # R!None
             /\ \A k \in R!Level : k < l => R!entryFile(k, n) = R!None
<1> DEFINE n == R!packageName(s)
           usable == {l \in R!Level : R!entryFile(l, n) # R!None}
           l == CHOOSE l \in usable : \A k \in usable : l <= k
           e == R!entryPoint(json[<<l, n>>])
<1>1. usable # {}
  BY DEF R!resolveNodeModules, R!Result
<1>2. /\ R!resolveNodeModules(s).at = <<l, n, e>>
      /\ R!resolveNodeModules(s).file = R!entryFile(l, n)
  BY <1>1 DEF R!resolveNodeModules, R!Result
<1>3. l \in usable /\ \A k \in usable : l <= k
  <2>1. usable \subseteq Nat
    BY Bounds DEF R!Level
  <2> HIDE DEF usable
  <2>2. \E x \in usable : \A y \in usable : x <= y
    BY <1>1, <2>1, Smallest, Zenon
  <2> QED  BY <2>2, Zenon
<1> HIDE DEF l, n, e
<1>4. l \in R!Level /\ R!entryFile(l, n) # R!None
  BY <1>3
<1>5. R!entryFile(l, n) = R!try(R!AtEntry(l, n, e))
  BY <1>4 DEF R!entryFile, e
<1>6. ASSUME NEW k \in R!Level, k < l
      PROVE  R!entryFile(k, n) = R!None
  <2>1. k \in Nat /\ l \in Nat
    BY <1>4, Bounds DEF R!Level
  <2> QED  BY <1>3, <1>6, <2>1
<1> QED  BY <1>2, <1>4, <1>5, <1>6 DEF n, e

LEMMA FirstOfPair == \A x, y : <<x, y>>[1] = x
OBVIOUS

ResolverInv == place \subseteq R!AllCandidates

LEMMA CandidatesListed ==
    \A c \in {<<"file", "">>, <<"ext", ".node">>, <<"index", ".mjs">>} :
        c \in R!AllCandidates
<1>1. /\ R!Order[1] = <<"file", "">>
      /\ R!Order[1 + 1] = <<"ext", R!Extensions[1]>>
      /\ R!Order[5 + 6] = <<"index", R!Extensions[5]>>
  <2>1. 1 \in 1..5 /\ 5 \in 1..5
    OBVIOUS
  <2> QED  BY <2>1, OrderOfCandidates, Zenon
<1>2. R!Extensions[1] = ".node" /\ R!Extensions[5] = ".mjs"
  BY DEF R!Extensions
<1>3. 1 \in DOMAIN R!Order /\ 1 + 1 \in DOMAIN R!Order /\ 5 + 6 \in DOMAIN R!Order
  <2>1. 1 \in 1..11 /\ 1 + 1 \in 1..11 /\ 5 + 6 \in 1..11
    OBVIOUS
  <2> QED  BY <2>1, OrderOfCandidates, Zenon
<1> QED  BY <1>1, <1>2, <1>3, Zenon DEF R!AllCandidates

LEMMA ResolverStep == ASSUME ResolverInv, [Next]_vars
                      PROVE  ResolverInv'
<1>1. R!Next \/ UNCHANGED resolverVars
  BY DEF Next, vars
<1>2. CASE UNCHANGED resolverVars
  BY <1>2 DEF resolverVars, ResolverInv, R!AllCandidates
<1>3. ASSUME NEW c \in {<<"file", "">>, <<"ext", ".node">>, <<"index", ".mjs">>},
             R!PlaceChanges(c)
      PROVE  ResolverInv'
  <2>1. c \in R!AllCandidates
    BY CandidatesListed, Zenon
  <2> QED  BY <1>3, <2>1 DEF R!PlaceChanges, R!Toggle, ResolverInv, R!AllCandidates
<1>4. ASSUME UNCHANGED place
      PROVE  ResolverInv'
  BY <1>4 DEF ResolverInv, R!AllCandidates
<1> QED  BY <1>1, <1>2, <1>3, <1>4 DEF R!Next, R!EntryChanges, R!JsonChanges

LEMMA FilesExist == R!FoundExists
<1>1. R!resolveRelative("").file \in place \cup {R!None}
  BY FoundIsThere DEF R!resolveRelative, R!Result
<1>2. R!resolveAbsolute("").file # R!None
  <2>1. <<"file", "">> # <<"none", "">>
    OBVIOUS
  <2> QED  BY <2>1 DEF R!resolveAbsolute, R!resolveRelative, R!Result, R!None
<1>3. ASSUME NEW s, R!resolveNodeModules(s).file # R!None
      PROVE  LET r == R!resolveNodeModules(s) IN
             r.file \in R!AtEntry(r.at[1], r.at[2], r.at[3])
  <2>1. PICK l \in R!Level :
             LET n == R!packageName(s)
                 e == R!entryPoint(json[<<l, n>>]) IN
             /\ R!resolveNodeModules(s).at = <<l, n, e>>
             /\ R!resolveNodeModules(s).file = R!try(R!AtEntry(l, n, e))
             /\ R!try(R!AtEntry(l, n, e)) # R!None
    BY <1>3, NearestUsable
  <2> DEFINE n == R!packageName(s)
             e == R!entryPoint(json[<<l, n>>])
             r == R!resolveNodeModules(s)
  <2>2. r.at = <<l, n, e>> /\ r.file = R!try(R!AtEntry(l, n, e)) /\ r.file # R!None
    BY <2>1, Zenon
  <2> HIDE DEF n, e, r
  <2>3. r.file \in R!AtEntry(l, n, e)
    BY <2>2, FoundIsThere
  <2>4. r.at[1] = l /\ r.at[2] = n /\ r.at[3] = e
    BY <2>2
  <2>5. r.file \in R!AtEntry(r.at[1], r.at[2], r.at[3])
    BY <2>3, <2>4, Zenon
  <2> QED  BY <2>5, Zenon DEF r
<1> QED  BY <1>1, <1>2, <1>3, Zenon DEF R!FoundExists

LEMMA NearestFirst == R!NearestDecides
<1>1. ASSUME NEW s, R!resolveNodeModules(s).file # R!None,
             NEW k \in R!Level, k < R!resolveNodeModules(s).at[1]
      PROVE  R!entryFile(k, R!packageName(s)) = R!None
  <2>1. PICK l \in R!Level :
             /\ R!resolveNodeModules(s).at
                    = <<l, R!packageName(s),
                        R!entryPoint(json[<<l, R!packageName(s)>>])>>
             /\ \A j \in R!Level : j < l => R!entryFile(j, R!packageName(s)) = R!None
    BY <1>1, NearestUsable, Zenon
  <2>2. R!resolveNodeModules(s).at[1] = l
    BY <2>1
  <2>3. k < l
    BY <1>1, <2>2, Zenon
  <2> QED  BY <2>1, <2>3, Zenon
<1> QED  BY <1>1, Zenon DEF R!NearestDecides

\* The native extensions come before all others.
LEMMA LibrariesFirst == ASSUME ResolverInv
                        PROVE  R!NativeHidesScript
<1> DEFINE Native == {".node", ".so", ".protojs"}
<1>1. /\ R!Extensions[1] = ".node" /\ R!Extensions[2] = ".so"
      /\ R!Extensions[3] = ".protojs" /\ R!Extensions[4] = ".js"
      /\ R!Extensions[5] = ".mjs"
  BY DEF R!Extensions
<1>2. ASSUME NEW c \in place, c[1] = "ext", c[2] \in Native
      PROVE  \E i \in 2..4 : c = R!Order[i]
  <2>1. PICK i \in 1..11 : c = R!Order[i]
    BY <1>2, OrderOfCandidates DEF ResolverInv, R!AllCandidates
  <2>2. CASE i = 1
    <3>1. c = <<"file", "">>
      BY <2>1, <2>2, OrderOfCandidates, Zenon
    <3>2. c[1] = "file"
      BY <3>1, FirstOfPair, Zenon
    <3> QED  BY <1>2, <3>2
  <2>3. CASE i \in 2..6
    <3>1. i - 1 \in 1..5 /\ (i - 1) + 1 = i
      BY <2>3
    <3>2. c = <<"ext", R!Extensions[i - 1]>>
      BY <2>1, <3>1, OrderOfCandidates
    <3>3. R!Extensions[i - 1] \in Native
      BY <1>2, <3>2
    <3>4. i - 1 # 4 /\ i - 1 # 5
      BY <1>1, <3>3
    <3>5. i \in 2..4
      BY <2>3, <3>4
    <3> QED  BY <2>1, <3>5
  <2>4. CASE i \in 7..11
    <3>1. i - 6 \in 1..5 /\ (i - 6) + 6 = i
      BY <2>4
    <3>2. c = <<"index", R!Extensions[i - 6]>>
      BY <2>1, <3>1, OrderOfCandidates
    <3> QED  BY <1>2, <3>2
  <2> QED  BY <2>2, <2>3, <2>4
<1>3. ASSUME NEW k \in 2..4, NEW own
      PROVE  R!setTypeFromPath(R!Order[k], own) = "Native"
  <2>1. k - 1 \in 1..5 /\ (k - 1) + 1 = k /\ k - 1 \in 1..3
    OBVIOUS
  <2>2. R!Order[k] = <<"ext", R!Extensions[k - 1]>>
    BY <2>1, OrderOfCandidates
  <2>3. R!Extensions[k - 1] \in Native
    BY <1>1, <2>1
  <2>4. R!Order[k][1] # "file" /\ R!Order[k][2] \in Native
    BY <2>2, <2>3
  <2> QED  BY <2>4 DEF R!setTypeFromPath
<1>4. ASSUME NEW own, NEW c \in place, c[1] = "ext", c[2] \in Native
      PROVE  LET r == R!resolveRelative(own) IN
             r.type = "Native" \/ r.file[1] = "file"
  <2>1. PICK i \in 2..4 : c = R!Order[i]
    BY <1>2, <1>4
  <2>2. PICK k \in 1..11 : /\ R!try(place) = R!Order[k]
                           /\ \A j \in 1..11 : R!Order[j] \in place => k <= j
    BY <1>4, <2>1, TryFindsFirst
  <2>3. k <= i
    BY <1>4, <2>1, <2>2
  <2>4. R!try(place) # R!None
    BY <2>2, CandidateIsSomething
  <2>5. /\ R!resolveRelative(own).file = R!Order[k]
        /\ R!resolveRelative(own).type = R!setTypeFromPath(R!Order[k], own)
    BY <2>2, <2>4 DEF R!resolveRelative, R!Result
  <2>6. CASE k = 1
    <3>1. R!resolveRelative(own).file = <<"file", "">>
      BY <2>5, <2>6, OrderOfCandidates, Zenon
    <3>2. R!resolveRelative(own).file[1] = "file"
      BY <3>1, FirstOfPair, Zenon
    <3> QED  BY <3>2, Zenon
  <2>7. CASE k \in 2..4
    BY <1>3, <2>5, <2>7, Zenon
  <2>8. k = 1 \/ k \in 2..4
    BY <2>3
  <2> QED  BY <2>6, <2>7, <2>8
<1> QED  BY <1>4, Zenon DEF R!NativeHidesScript

\* ModuleResolver: a file that is found exists, the nearest usable package
\* decides, and a native library hides a script of its name, at any depth of
\* directories and for anything the packages hold.
THEOREM FilesFound == Spec => []ResolverSafety
<1>1. Init => ResolverInv
  BY DEF Init, R!Start, ResolverInv
<1>2. ResolverInv /\ [Next]_vars => ResolverInv'
  BY ResolverStep
<1>3. ResolverInv => ResolverSafety
  BY FilesExist, NearestFirst, LibrariesFirst DEF ResolverSafety, R!Safety
<1> QED  BY <1>1, <1>2, <1>3, PTL DEF Spec

-----------------------------------------------------------------------------
(* Version ranges                                                          *)

\* Iteration: a function that applies f to a number and the value before it.
IsIterated(g, N, a, f) == g[0] = a /\ \A k \in 1..N : g[k] = f[<<k, g[k - 1]>>]

LEMMA Iterates ==
    ASSUME NEW N \in Nat, NEW T, NEW a \in T, NEW f \in [(1..N) \X T -> T]
    PROVE  \E g \in [0..N -> T] : IsIterated(g, N, a, f)
<1> DEFINE Good(n) == \E g \in [0..n -> T] :
                          g[0] = a /\ \A k \in 1..n : g[k] = f[<<k, g[k - 1]>>]
           bad == {n \in 0..N : ~ Good(n)}
<1>1. Good(0)
  <2> DEFINE g == [k \in 0..0 |-> a]
  <2>1. g \in [0..0 -> T] /\ g[0] = a /\ \A k \in 1..0 : g[k] = f[<<k, g[k - 1]>>]
    OBVIOUS
  <2> QED  BY <2>1
<1>2. ASSUME NEW m \in 1..N, Good(m - 1)
      PROVE  Good(m)
  <2>1. PICK g \in [0..m - 1 -> T] :
             g[0] = a /\ \A k \in 1..m - 1 : g[k] = f[<<k, g[k - 1]>>]
    BY <1>2
  <2> DEFINE h == [k \in 0..m |-> IF k = m THEN f[<<m, g[m - 1]>>] ELSE g[k]]
  <2>2. m - 1 \in 0..m - 1 /\ m \in 1..N /\ m # 0 /\ 0 \in 0..m - 1 /\ 0 \in 0..m
    OBVIOUS
  <2>3. g[m - 1] \in T /\ f[<<m, g[m - 1]>>] \in T
    BY <2>2
  <2>4. h \in [0..m -> T]
    BY <2>3
  <2>5. h[0] = a
    BY <2>1, <2>2
  <2>6. ASSUME NEW k \in 1..m
        PROVE  h[k] = f[<<k, h[k - 1]>>]
    <3>1. k \in 0..m /\ k - 1 \in 0..m /\ k - 1 # m /\ k - 1 \in 0..m - 1
      OBVIOUS
    <3>2. h[k - 1] = g[k - 1]
      BY <3>1
    <3>3. CASE k = m
      BY <3>1, <3>2, <3>3
    <3>4. CASE k # m
      <4>1. k \in 1..m - 1
        BY <3>4
      <4> QED  BY <2>1, <3>1, <3>2, <3>4, <4>1
    <3> QED  BY <3>3, <3>4
  <2> HIDE DEF h
  <2> QED  BY <2>4, <2>5, <2>6
<1> HIDE DEF Good
<1>3. bad = {}
  <2> SUFFICES ASSUME bad # {}
               PROVE  FALSE
    OBVIOUS
  <2>1. bad \subseteq Nat /\ bad # {}
    OBVIOUS
  <2>2. \E m \in bad : \A n \in bad : m <= n
    <3> HIDE DEF bad
    <3> QED  BY <2>1, Smallest, Zenon
  <2>3. PICK m \in bad : \A n \in bad : m <= n
    BY <2>2, Zenon
  <2>4. m \in 0..N /\ ~ Good(m)
    OBVIOUS
  <2>5. m # 0
    BY <1>1, <2>4
  <2>6. m \in 1..N /\ m - 1 \in 0..N /\ ~ (m <= m - 1)
    BY <2>4, <2>5
  <2>7. Good(m - 1)
    BY <2>3, <2>6
  <2> QED  BY <1>2, <2>4, <2>6, <2>7
<1>4. N \in 0..N
  OBVIOUS
<1>5. Good(N)
  BY <1>3, <1>4
<1> QED  BY <1>5 DEF Good, IsIterated

LEMMA VersionShape ==
    ASSUME NEW i \in DOMAIN Versions
    PROVE  /\ Versions[i].n[1] \in Nat /\ Versions[i].n[2] \in Nat
           /\ Versions[i].n[3] \in Nat /\ Versions[i].pre \in Nat
<1>1. Versions \in Seq([parsed : BOOLEAN, n : Nat \X Nat \X Nat, pre : Nat])
  BY LibraryAssumption
<1>2. Versions[i] \in [parsed : BOOLEAN, n : Nat \X Nat \X Nat, pre : Nat]
  BY <1>1, ElementOfSeq, LenProperties
<1> QED  BY <1>2

LEMMA VersionPlaces == Len(Versions) \in Nat /\ DOMAIN Versions = 1..Len(Versions)
<1>1. Versions \in Seq([parsed : BOOLEAN, n : Nat \X Nat \X Nat, pre : Nat])
  BY LibraryAssumption
<1> QED  BY <1>1, LenProperties

\* compare: the first number that differs decides, then the prereleases.
LEMMA CompareCases ==
    ASSUME NEW i \in DOMAIN Versions, NEW j \in DOMAIN Versions,
           V!parse(i), V!parse(j)
    PROVE  LET m == Versions[i].n
               n == Versions[j].n IN
           V!compare(i, j) =
               IF m[1] # n[1] THEN V!Sign(m[1], n[1])
               ELSE IF m[2] # n[2] THEN V!Sign(m[2], n[2])
               ELSE IF m[3] # n[3] THEN V!Sign(m[3], n[3])
               ELSE V!comparePrerelease(Versions[i].pre, Versions[j].pre)
<1> DEFINE m == Versions[i].n
           n == Versions[j].n
           differ == {k \in 1..3 : m[k] # n[k]}
           first == CHOOSE k \in differ : \A l \in differ : k <= l
<1>1. V!compare(i, j) =
          IF differ # {} THEN V!Sign(m[first], n[first])
          ELSE V!comparePrerelease(Versions[i].pre, Versions[j].pre)
  BY Zenon DEF V!compare
<1>2. ASSUME NEW k \in differ, \A l \in differ : k <= l
      PROVE  differ # {} /\ first = k
  <2>1. differ \subseteq Nat
    OBVIOUS
  <2> HIDE DEF differ
  <2>2. first \in differ /\ \A l \in differ : first <= l
    BY <1>2, Zenon
  <2>3. first <= k /\ k <= first
    BY <1>2, <2>2
  <2>4. first \in Nat /\ k \in Nat
    BY <2>1, <2>2
  <2> HIDE DEF first
  <2> QED  BY <2>3, <2>4
<1>3. CASE m[1] # n[1]
  <2>1. 1 \in differ /\ \A l \in differ : 1 <= l
    BY <1>3
  <2> QED  BY <1>1, <1>2, <1>3, <2>1, Zenon
<1>4. CASE m[1] = n[1] /\ m[2] # n[2]
  <2>1. 2 \in differ /\ \A l \in differ : 2 <= l
    BY <1>4
  <2> QED  BY <1>1, <1>2, <1>4, <2>1, Zenon
<1>5. CASE m[1] = n[1] /\ m[2] = n[2] /\ m[3] # n[3]
  <2>1. 3 \in differ /\ \A l \in differ : 3 <= l
    BY <1>5
  <2> QED  BY <1>1, <1>2, <1>5, <2>1, Zenon
<1>6. CASE m[1] = n[1] /\ m[2] = n[2] /\ m[3] = n[3]
  <2>1. differ = {}
    BY <1>6
  <2> QED  BY <1>1, <1>6, <2>1, Zenon
<1> QED  BY <1>3, <1>4, <1>5, <1>6

\* The versions that can be parsed are linearly ordered by compare.
LEMMA CompareIsOrder ==
    ASSUME NEW i \in DOMAIN Versions, NEW j \in DOMAIN Versions,
           NEW k \in DOMAIN Versions, V!parse(i), V!parse(j), V!parse(k)
    PROVE  /\ V!compare(i, j) \in Int
           /\ V!compare(i, i) = 0
           /\ V!compare(i, j) > 0 \/ V!compare(j, i) >= 0
           /\ V!compare(i, j) >= 0 /\ V!compare(j, k) >= 0 => V!compare(i, k) >= 0
<1> DEFINE a == Versions[i].n
           b == Versions[j].n
           c == Versions[k].n
           p == Versions[i].pre
           q == Versions[j].pre
           s == Versions[k].pre
           Cmp(m, n, x, y) ==
               IF m[1] # n[1] THEN V!Sign(m[1], n[1])
               ELSE IF m[2] # n[2] THEN V!Sign(m[2], n[2])
               ELSE IF m[3] # n[3] THEN V!Sign(m[3], n[3])
               ELSE V!comparePrerelease(x, y)
<1>1. /\ a[1] \in Nat /\ a[2] \in Nat /\ a[3] \in Nat /\ p \in Nat
      /\ b[1] \in Nat /\ b[2] \in Nat /\ b[3] \in Nat /\ q \in Nat
      /\ c[1] \in Nat /\ c[2] \in Nat /\ c[3] \in Nat /\ s \in Nat
  BY VersionShape
<1>2. /\ V!compare(i, j) = Cmp(a, b, p, q) /\ V!compare(j, i) = Cmp(b, a, q, p)
      /\ V!compare(j, k) = Cmp(b, c, q, s) /\ V!compare(i, k) = Cmp(a, c, p, s)
      /\ V!compare(i, i) = Cmp(a, a, p, p)
  BY CompareCases, Zenon
<1> HIDE DEF a, b, c, p, q, s
<1>3. /\ Cmp(a, b, p, q) \in Int /\ Cmp(a, a, p, p) = 0
      /\ Cmp(a, b, p, q) > 0 \/ Cmp(b, a, q, p) >= 0
  BY <1>1 DEF V!Sign, V!comparePrerelease
<1>4. Cmp(a, b, p, q) >= 0 /\ Cmp(b, c, q, s) >= 0 => Cmp(a, c, p, s) >= 0
  BY <1>1 DEF V!Sign, V!comparePrerelease
<1> HIDE DEF Cmp
<1> QED  BY <1>2, <1>3, <1>4

\* findHighest: no version is chosen if none is in the range; otherwise one in
\* the range than which none is higher.
LEMMA HighestInRange ==
    ASSUME NEW names \in SUBSET (DOMAIN Versions), NEW r,
           \A i \in names : V!parse(i)
    PROVE  LET good == {i \in names : V!satisfies(i, r)}
               chosen == V!resolveVersion(names, r) IN
           \/ chosen = 0 /\ good = {}
           \/ chosen \in good /\ \A i \in good : V!compare(chosen, i) >= 0
<1> DEFINE N == Len(Versions)
           good == {i \in names : V!satisfies(i, r)}
           Pick(k, b) == IF k \in names /\ V!Better(k, b, r) THEN k ELSE b
           best[k \in 0..N] == IF k = 0 THEN 0 ELSE Pick(k, best[k - 1])
<1>0. N \in Nat /\ DOMAIN Versions = 1..N
  BY VersionPlaces
<1>1. V!resolveVersion(names, r) = best[N]
  BY Zenon DEF V!resolveVersion, V!findHighest
<1> HIDE DEF N
<1>2. \E g : g = [k \in 0..N |-> IF k = 0 THEN 0 ELSE Pick(k, g[k - 1])]
  <2> DEFINE f == [x \in (1..N) \X (0..N) |-> Pick(x[1], x[2])]
  <2>1. f \in [(1..N) \X (0..N) -> 0..N]
    OBVIOUS
  <2>2. 0 \in 0..N
    BY <1>0
  <2> HIDE DEF f
  <2>3. \E g \in [0..N -> 0..N] : IsIterated(g, N, 0, f)
    BY <1>0, <2>1, <2>2, Iterates, Zenon
  <2>4. PICK g \in [0..N -> 0..N] :
             g[0] = 0 /\ \A k \in 1..N : g[k] = f[<<k, g[k - 1]>>]
    BY <2>3, Zenon DEF IsIterated
  <2>5. ASSUME NEW k \in 1..N
        PROVE  g[k] = Pick(k, g[k - 1])
    <3>1. k - 1 \in 0..N
      BY <1>0
    <3>2. g[k - 1] \in 0..N
      BY <3>1
    <3>3. f[<<k, g[k - 1]>>] = Pick(k, g[k - 1])
      BY <3>2 DEF f
    <3> QED  BY <2>4, <3>3
  <2> HIDE DEF Pick
  <2>6. \A k \in 0..N : g[k] = IF k = 0 THEN 0 ELSE Pick(k, g[k - 1])
    <3>1. \A k \in 0..N : k = 0 \/ k \in 1..N
      BY <1>0
    <3> QED  BY <2>4, <2>5, <3>1, Zenon
  <2>7. g = [k \in 0..N |-> IF k = 0 THEN 0 ELSE Pick(k, g[k - 1])]
    BY <2>6
  <2> QED  BY <2>7
<1>3. best = [k \in 0..N |-> IF k = 0 THEN 0 ELSE Pick(k, best[k - 1])]
  <2> HIDE DEF Pick
  <2> QED  BY <1>2, Zenon DEF best
<1> HIDE DEF best
<1>4. best[0] = 0 /\ \A k \in 1..N : best[k] = Pick(k, best[k - 1])
  BY <1>0, <1>3
<1> HIDE DEF Pick, good
<1> DEFINE Best(k) ==
               \/ best[k] = 0 /\ \A i \in good : ~ (i <= k)
               \/ best[k] \in good /\ \A i \in good : i <= k => V!compare(best[k], i) >= 0
           bad == {k \in 0..N : ~ Best(k)}
<1>5. /\ good \subseteq names /\ good \subseteq 1..N
      /\ \A i \in good : i \in DOMAIN Versions /\ V!parse(i) /\ V!satisfies(i, r)
      /\ \A i \in names : V!satisfies(i, r) => i \in good
  BY <1>0 DEF good
<1>6. Best(0)
  BY <1>0, <1>4, <1>5
<1>7. ASSUME NEW k \in 1..N, Best(k - 1)
      PROVE  Best(k)
  <2> DEFINE b == best[k - 1]
  <2>1. best[k] = Pick(k, b)
    BY <1>4
  <2>2. \A i \in good : i <= k => i = k \/ i <= k - 1
    BY <1>0, <1>5
  <2>3. \/ b = 0 /\ \A i \in good : ~ (i <= k - 1)
        \/ b \in good /\ \A i \in good : i <= k - 1 => V!compare(b, i) >= 0
    BY <1>7
  <2>4. 0 \notin good
    BY <1>0, <1>5
  <2> HIDE DEF b
  <2>5. CASE k \in names /\ V!Better(k, b, r)
    <3>1. best[k] = k /\ k \in good
      BY <1>5, <2>1, <2>5 DEF Pick, V!Better
    <3>2. ASSUME NEW i \in good, i <= k
          PROVE  V!compare(k, i) >= 0
      <4>1. CASE i = k
        BY <1>5, <3>1, <4>1, CompareIsOrder
      <4>2. CASE i <= k - 1
        <5>1. b \in good /\ V!compare(b, i) >= 0 /\ V!compare(k, b) > 0
          BY <2>3, <2>4, <2>5, <3>2, <4>2 DEF V!Better
        <5>2. V!compare(k, b) \in Int
          BY <1>5, <3>1, <5>1, CompareIsOrder
        <5>3. V!compare(k, b) >= 0
          BY <5>1, <5>2
        <5> QED  BY <1>5, <3>1, <5>1, <5>3, CompareIsOrder
      <4> QED  BY <2>2, <3>2, <4>1, <4>2
    <3> QED  BY <3>1, <3>2
  <2>6. CASE ~ (k \in names /\ V!Better(k, b, r))
    <3>1. best[k] = b
      BY <2>1, <2>6 DEF Pick
    <3>2. CASE b = 0
      <4>1. k \notin good
        BY <1>5, <2>6, <3>2 DEF V!Better
      <4>2. \A i \in good : ~ (i <= k)
        BY <2>2, <2>3, <2>4, <3>2, <4>1
      <4> QED  BY <3>1, <3>2, <4>2
    <3>3. CASE b # 0
      <4>1. b \in good
        BY <2>3, <3>3
      <4>2. ASSUME NEW i \in good, i <= k
            PROVE  V!compare(b, i) >= 0
        <5>1. CASE i <= k - 1
          BY <2>3, <3>3, <5>1
        <5>2. CASE i = k
          <6>1. ~ (V!compare(k, b) > 0)
            BY <1>5, <2>6, <5>2 DEF V!Better
          <6> QED  BY <1>5, <4>1, <5>2, <6>1, CompareIsOrder
        <5> QED  BY <2>2, <4>2, <5>1, <5>2
      <4> QED  BY <3>1, <4>1, <4>2
    <3> QED  BY <3>2, <3>3
  <2> QED  BY <2>5, <2>6
<1> HIDE DEF Best
<1>8. bad = {}
  <2> SUFFICES ASSUME bad # {}
               PROVE  FALSE
    OBVIOUS
  <2>1. bad \subseteq Nat /\ bad # {}
    BY <1>0
  <2>2. \E m \in bad : \A n \in bad : m <= n
    <3> HIDE DEF bad
    <3> QED  BY <2>1, Smallest, Zenon
  <2>3. PICK m \in bad : \A n \in bad : m <= n
    BY <2>2, Zenon
  <2>4. m \in 0..N /\ ~ Best(m)
    OBVIOUS
  <2>5. m # 0
    BY <1>6, <2>4
  <2>6. m \in 1..N /\ m - 1 \in 0..N /\ ~ (m <= m - 1)
    BY <1>0, <2>4, <2>5
  <2>7. Best(m - 1)
    BY <2>3, <2>6
  <2> QED  BY <1>7, <2>4, <2>6, <2>7
<1>9. Best(N)
  <2>1. N \in 0..N
    BY <1>0
  <2> QED  BY <1>8, <2>1
<1>10. \A i \in good : i <= N
  BY <1>0, <1>5
<1>11. \/ best[N] = 0 /\ good = {}
       \/ best[N] \in good /\ \A i \in good : V!compare(best[N], i) >= 0
  BY <1>9, <1>10, Zenon DEF Best
<1> QED  BY <1>1, <1>11, Zenon DEF good

\* What is in a range as ranges are meant satisfies it, and a version that
\* satisfies it and is not older than one in the range is in it.
LEMMA RangeMeaning ==
    ASSUME NEW r \in VersionRange,
           NEW i \in DOMAIN Versions, NEW c \in DOMAIN Versions,
           V!parse(i), V!parse(c), V!Means(i, r)
    PROVE  /\ V!satisfies(i, r)
           /\ V!satisfies(c, r) /\ V!compare(c, i) >= 0 => V!Means(c, r)
<1> DEFINE t == r.target
           m == Versions[i].n
           n == Versions[t].n
           l == Versions[c].n
<1>0. t \in DOMAIN Versions
  BY LibraryAssumption
<1>1. ASSUME V!Newer(i, t), m[1] = n[1], m[2] = n[2]
      PROVE  m[3] >= n[3]
  <2>1. V!parse(t) /\ V!compare(i, t) >= 0
    BY <1>1 DEF V!Newer
  <2>2. V!compare(i, t) = IF m[3] # n[3] THEN V!Sign(m[3], n[3])
                          ELSE V!comparePrerelease(Versions[i].pre, Versions[t].pre)
    BY <1>0, <1>1, <2>1, CompareCases, Zenon
  <2>3. m[3] \in Nat /\ n[3] \in Nat
    BY <1>0, VersionShape
  <2> HIDE DEF t, m, n
  <2> QED  BY <2>1, <2>2, <2>3 DEF V!Sign
<1>2. ASSUME V!Newer(i, t), V!compare(c, i) >= 0
      PROVE  V!Newer(c, t)
  <2>1. V!parse(t) /\ V!compare(i, t) >= 0
    BY <1>2 DEF V!Newer
  <2> QED  BY <1>0, <1>2, <2>1, CompareIsOrder DEF V!Newer
<1>3. CASE r.op = "~"
  <2>1. V!Newer(i, t) /\ m[1] = n[1] /\ m[2] = n[2]
    BY <1>3 DEF V!Means
  <2>2. m[3] >= n[3] /\ V!parse(t)
    BY <1>1, <2>1 DEF V!Newer
  <2>3. V!satisfies(i, r)
    BY <1>3, <2>1, <2>2 DEF V!satisfies, V!tilde
  <2>4. ASSUME V!satisfies(c, r), V!compare(c, i) >= 0
        PROVE  V!Means(c, r)
    <3>1. l[1] = n[1] /\ l[2] = n[2]
      BY <1>3, <2>4 DEF V!satisfies, V!tilde
    <3> QED  BY <1>2, <1>3, <2>1, <2>4, <3>1 DEF V!Means
  <2> QED  BY <2>3, <2>4
<1>4. CASE r.op = "^"
  <2>1. V!Newer(i, t) /\ m[1] = n[1] /\ (n[1] = 0 => m[2] = n[2])
    BY <1>4 DEF V!Means
  <2>2. (m[1] = 0 => m[2] = n[2] /\ m[3] >= n[3]) /\ V!parse(t)
    BY <1>1, <2>1 DEF V!Newer
  <2>3. V!satisfies(i, r)
    BY <1>4, <2>1, <2>2 DEF V!satisfies, V!caret
  <2>4. ASSUME V!satisfies(c, r), V!compare(c, i) >= 0
        PROVE  V!Means(c, r)
    <3>1. l[1] = n[1] /\ (n[1] = 0 => l[2] = n[2])
      BY <1>4, <2>4 DEF V!satisfies, V!caret
    <3> QED  BY <1>2, <1>4, <2>1, <2>4, <3>1 DEF V!Means
  <2> QED  BY <2>3, <2>4
<1>5. CASE r.op # "~" /\ r.op # "^"
  <2>1. V!Means(i, r) = V!satisfies(i, r) /\ V!Means(c, r) = V!satisfies(c, r)
    BY <1>5 DEF V!Means
  <2> QED  BY <2>1
<1> QED  BY <1>3, <1>4, <1>5

LEMMA ChoiceIsHighest == ASSUME published \subseteq DOMAIN Versions
                         PROVE  V!ResolvesHighest
<1> SUFFICES ASSUME NEW r \in VersionRange,
                    {i \in published : V!Means(i, r)} # {},
                    \A i \in published : V!parse(i)
             PROVE  /\ V!resolveVersion(published, r) \in {i \in published : V!Means(i, r)}
                    /\ \A i \in {j \in published : V!Means(j, r)} :
                           V!compare(V!resolveVersion(published, r), i) >= 0
  BY Zenon DEF V!ResolvesHighest
<1> DEFINE c == V!resolveVersion(published, r)
           good == {i \in published : V!satisfies(i, r)}
           inRange == {i \in published : V!Means(i, r)}
<1>1. \/ c = 0 /\ good = {}
      \/ c \in good /\ \A i \in good : V!compare(c, i) >= 0
  BY HighestInRange, Zenon
<1> HIDE DEF c
<1>2. \A i \in inRange : i \in good
  BY RangeMeaning
<1>3. c \in good /\ \A i \in good : V!compare(c, i) >= 0
  BY <1>1, <1>2
<1>4. PICK i \in published : V!Means(i, r)
  OBVIOUS
<1>5. V!compare(c, i) >= 0
  BY <1>2, <1>3, <1>4
<1>6. c \in inRange
  BY <1>3, <1>4, <1>5, RangeMeaning
<1>7. \A j \in inRange : V!compare(c, j) >= 0
  BY <1>2, <1>3
<1> QED  BY <1>6, <1>7 DEF c

\* npm: among published versions that can be parsed, the one chosen is in the
\* range and none in the range is newer, for any versions a registry lists and
\* any ranges.
THEOREM NewestChosen == Spec => []VersionSafety
<1> DEFINE Inv == published \subseteq DOMAIN Versions
<1>1. Init => Inv
  BY DEF Init, V!Start
<1>2. Inv /\ [Next]_vars => Inv'
  <2> SUFFICES ASSUME Inv, [Next]_vars
               PROVE  Inv'
    OBVIOUS
  <2>1. V!Next \/ published' = published
    BY DEF Next, vars
  <2> QED  BY <2>1 DEF V!Next, V!Publish
<1>3. Inv => VersionSafety
  BY ChoiceIsHighest DEF VersionSafety
<1> QED  BY <1>1, <1>2, <1>3, PTL DEF Spec

-----------------------------------------------------------------------------
(* The collections of protoCore                                            *)

\* The values whose conversion is no new object.
Plain == {v \in Sample : v.type \notin {"function", "object"}}

LEMMA SampleIsJs == ASSUME NEW v \in Sample
                    PROVE  IsJs(v)
BY LibraryAssumption

\* fromJS: plain values become the same object exactly if they are alike, and
\* none of them becomes a new object.
LEMMA ConversionKeeps ==
    ASSUME NEW v \in Plain, NEW w \in Sample
    PROVE  C!fromJS(v) = C!fromJS(w) <=> C!Alike(v, w)
<1>1. /\ v.type \in {"undefined", "null", "number", "bigint", "array", "string"}
      /\ v.type \in {"number", "bigint", "array"} => v.x \in Int
      /\ v.type \in {"undefined", "null"} => v.x = 0
  BY SampleIsJs DEF Plain, IsJs
<1>2. /\ w.type \in {"undefined", "null", "number", "bigint", "array", "string",
                     "function", "object"}
      /\ w.type \in {"number", "bigint", "array"} => w.x \in Int
      /\ w.type \in {"undefined", "null"} => w.x = 0
  BY SampleIsJs DEF IsJs
<1>3. \A x, y \in Int : C!fromNumber(x) = C!fromNumber(y) <=> x = y
  BY DEF C!fromNumber
<1>4. \A x, y \in Int : C!fromNumber(x) = <<"integer", y>> <=> x = 2 * y
  BY DEF C!fromNumber
<1>5. \A x \in Int : C!fromNumber(x)[1] \in {"integer", "double"}
  BY DEF C!fromNumber
<1>6. CASE v.type \in {"undefined", "null"}
  BY <1>1, <1>2, <1>5, <1>6 DEF C!fromJS, C!Alike
<1>7. CASE v.type = "number"
  BY <1>1, <1>2, <1>3, <1>4, <1>5, <1>7 DEF C!fromJS, C!Alike
<1>8. CASE v.type = "bigint"
  BY <1>1, <1>2, <1>3, <1>4, <1>5, <1>8 DEF C!fromJS, C!Alike
<1>9. CASE v.type = "array"
  BY <1>1, <1>2, <1>3, <1>5, <1>9 DEF C!fromJS, C!Alike
<1>10. CASE v.type = "string"
  BY <1>1, <1>2, <1>5, <1>10 DEF C!fromJS, C!Alike
<1> QED  BY <1>1, <1>6, <1>7, <1>8, <1>9, <1>10

LEMMA AlikePlain ==
    ASSUME NEW v \in Plain, NEW w \in Sample, C!Alike(v, w) \/ C!Alike(w, v)
    PROVE  w \in Plain /\ C!Alike(v, w) /\ C!Alike(w, v)
BY SampleIsJs DEF Plain, IsJs, C!Alike

\* toJS after fromJS gives back exactly the values that survive.
LEMMA RoundTrip ==
    ASSUME NEW v \in Plain
    PROVE  /\ C!fromJS(v) # C!Hole
           /\ C!toJS(C!fromJS(v)) = v <=> C!Survives(v)
<1>1. /\ v.type \in {"undefined", "null", "number", "bigint", "array", "string"}
      /\ v.type \in {"number", "bigint", "array"} => v.x \in Int
      /\ v.type \in {"undefined", "null"} => v.x = 0
      /\ v = [type |-> v.type, x |-> v.x]
  BY SampleIsJs DEF Plain, IsJs, Js
<1>2. MaxInt32 \in Int
  BY LibraryAssumption
<1>3. \A x \in Int :
          \/ x % 2 = 0 /\ C!fromNumber(x) = <<"integer", x \div 2>> /\ 2 * (x \div 2) = x
             /\ (x \div 2 <= MaxInt32 <=> x <= 2 * MaxInt32)
          \/ x % 2 = 1 /\ C!fromNumber(x) = <<"double", x>>
  BY <1>2 DEF C!fromNumber
<1>4. \A x \in Int :
          IF x % 2 = 1 \/ x <= 2 * MaxInt32
          THEN C!toNumber(C!fromNumber(x)) = [type |-> "number", x |-> x]
          ELSE C!toNumber(C!fromNumber(x)).type = "bigint"
  BY <1>2, <1>3 DEF C!toNumber, C!Js
<1>5. CASE v.type \in {"undefined", "null", "string"}
  <2>1. CASE v.type = "undefined"
    BY <1>1, <2>1 DEF C!fromJS, C!toJS, C!Hole, C!Survives, C!Js
  <2>2. CASE v.type = "null"
    BY <1>1, <2>2 DEF C!fromJS, C!toJS, C!Hole, C!Survives, C!Js
  <2>3. CASE v.type = "string"
    BY <1>1, <2>3 DEF C!fromJS, C!toJS, C!Hole, C!Survives, C!Js
  <2> QED  BY <1>5, <2>1, <2>2, <2>3
<1>6. CASE v.type = "number"
  <2>1. C!fromJS(v) = C!fromNumber(v.x) /\ v.x \in Int
    BY <1>1, <1>6 DEF C!fromJS
  <2>2. C!fromNumber(v.x)[1] \in {"integer", "double"}
    BY <1>3, <2>1
  <2>3. C!toJS(C!fromJS(v)) = C!toNumber(C!fromNumber(v.x)) /\ C!fromJS(v) # C!Hole
    <3>1. ASSUME NEW p, p[1] \in {"integer", "double"}
          PROVE  C!toJS(p) = C!toNumber(p) /\ p # C!Hole
      <4>1. /\ p[1] # "none" /\ p[1] # "string" /\ p[1] # "list"
            /\ p[1] # "cell" /\ p[1] # "hole"
        BY <3>1
      <4>2. C!toJS(p) = C!toNumber(p)
        BY <4>1, Zenon DEF C!toJS
      <4>3. C!Hole[1] = "hole"
        BY DEF C!Hole
      <4> QED  BY <4>1, <4>2, <4>3, Zenon
    <3>2. C!fromJS(v)[1] \in {"integer", "double"}
      BY <2>1, <2>2, Zenon
    <3>3. C!toJS(C!fromJS(v)) = C!toNumber(C!fromJS(v)) /\ C!fromJS(v) # C!Hole
      BY <3>1, <3>2
    <3> QED  BY <2>1, <3>3, Zenon
  <2>4. C!Survives(v) <=> (v.x % 2 = 1 \/ v.x <= 2 * MaxInt32)
    BY <1>6 DEF C!Survives
  <2> QED  BY <1>1, <1>4, <1>6, <2>1, <2>3, <2>4
<1>7. CASE v.type = "bigint"
  BY <1>1, <1>2, <1>7 DEF C!fromJS, C!toJS, C!toNumber, C!Hole, C!Survives, C!Js
<1>8. CASE v.type = "array"
  <2>1. C!fromJS(v) = <<"list", C!fromNumber(v.x)>> /\ v.x \in Int
    BY <1>1, <1>8 DEF C!fromJS
  <2> DEFINE n == C!toNumber(C!fromNumber(v.x))
  <2>2. /\ C!toJS(C!fromJS(v)) = IF n.type = "number" THEN [type |-> "array", x |-> n.x]
                                 ELSE [type |-> "bigints", x |-> n.x]
        /\ C!fromJS(v) # C!Hole
    BY <2>1 DEF C!toJS, C!Hole, C!Js
  <2>3. C!Survives(v) <=> (v.x % 2 = 1 \/ v.x <= 2 * MaxInt32)
    BY <1>8 DEF C!Survives
  <2>4. CASE v.x % 2 = 1 \/ v.x <= 2 * MaxInt32
    <3>1. n = [type |-> "number", x |-> v.x]
      BY <1>4, <2>1, <2>4
    <3> HIDE DEF n
    <3> QED  BY <1>1, <1>8, <2>2, <2>3, <2>4, <3>1
  <2>5. CASE ~ (v.x % 2 = 1 \/ v.x <= 2 * MaxInt32)
    <3>1. n.type = "bigint"
      BY <1>4, <2>1, <2>5
    <3> HIDE DEF n
    <3> QED  BY <1>8, <2>2, <2>3, <2>5, <3>1
  <2> QED  BY <2>4, <2>5
<1> QED  BY <1>1, <1>5, <1>6, <1>7, <1>8

CoreSet ==
    /\ members \subseteq Sample
    /\ \A v \in members : C!FunctionsOf(v) = {}
    /\ \A v \in Plain : C!fromJS(v) \in protoSet <=> \E w \in members : C!Alike(v, w)

CoreBag ==
    /\ copies \in [Sample -> Nat]
    /\ \A p \in DOMAIN protoMultiset : protoMultiset[p] \in Nat
    /\ \A v \in Plain : C!Counted(protoMultiset, C!fromJS(v)) = copies[v]

CoreList ==
    /\ DOMAIN stored = Index /\ DOMAIN sparseList = Index
    /\ \A i \in Index :
          \/ stored[i] = C!Absent
          \/ stored[i] \in Plain /\ sparseList[i] = C!fromJS(stored[i])
          \/ stored[i] \in Sample \ Plain /\ sparseList[i][1] = "cell"

\* In a behaviour of the collections nothing but registerMapping writes the
\* tables, and it keeps the lock.
CoreLock == part = "protoCore" => (reverse # {} => mapMutex # C!Nobody)

CoreInv == CoreSet /\ CoreBag /\ CoreList /\ CoreLock

LEMMA CoreSafe == ASSUME CoreInv, part = "protoCore"
                  PROVE  C!CoreSafety
<1>1. C!SetAnswers
  BY DEF CoreInv, CoreSet, C!SetAnswers, C!Has, Plain
<1>2. C!MultisetAnswers
  BY DEF CoreInv, CoreBag, C!MultisetAnswers, Plain
<1>3. C!SparseListAnswers
  <2> SUFFICES ASSUME NEW i \in Index, stored[i] # C!Absent, stored[i].type # "object"
               PROVE  C!SparseListGet(i) = stored[i] <=> C!Survives(stored[i])
    BY DEF C!SparseListAnswers
  <2>1. CASE stored[i] \in Plain /\ sparseList[i] = C!fromJS(stored[i])
    BY <2>1, RoundTrip DEF C!SparseListGet
  <2>2. CASE stored[i] \in Sample \ Plain /\ sparseList[i][1] = "cell"
    <3>1. stored[i].type = "function"
      BY <2>2 DEF Plain
    <3>2. sparseList[i] # C!Hole
      BY <2>2 DEF C!Hole
    <3>3. C!SparseListGet(i) = [type |-> "object", x |-> "none"]
      BY <2>2, <3>2 DEF C!SparseListGet, C!toJS, C!Js
    <3>4. ~ C!Survives(stored[i])
      BY <3>1 DEF C!Survives
    <3> QED  BY <3>1, <3>3, <3>4
  <2> QED  BY <2>1, <2>2 DEF CoreInv, CoreList
<1>4. C!FunctionsStayOut
  BY DEF CoreInv, CoreSet, CoreLock, C!FunctionsStayOut
<1> QED  BY <1>1, <1>2, <1>3, <1>4 DEF C!CoreSafety

LEMMA CoreStart == ASSUME Init
                   PROVE  CoreInv
<1>1. C!Start
  BY DEF Init
<1>2. CoreSet
  BY <1>1 DEF C!Start, CoreSet
<1>3. CoreBag
  BY <1>1 DEF C!Start, CoreBag, C!Counted, Plain
<1>4. CoreList
  BY <1>1 DEF C!Start, CoreList
<1>5. CoreLock
  BY <1>1 DEF C!Start, C!BridgeStart, CoreLock
<1> QED  BY <1>2, <1>3, <1>4, <1>5 DEF CoreInv

LEMMA PlainConversion == ASSUME NEW v \in Plain
                         PROVE  C!fromJS(v)' = C!fromJS(v)
BY SampleIsJs DEF Plain, IsJs, C!fromJS

\* A value that is not plain becomes a new object.
LEMMA CellConversion == ASSUME NEW v \in Sample \ Plain
                        PROVE  C!fromJS(v)[1] = "cell"
BY DEF Plain, C!fromJS

LEMMA NewSet ==
    ASSUME CoreInv, NEW v \in Sample, C!FunctionsOf(v) = {},
           \/ protoSet' = protoSet \cup {C!fromJS(v)} /\ members' = members \cup {v}
           \/ /\ protoSet' = protoSet \ {C!fromJS(v)}
              /\ members' = {w \in members : ~ C!Alike(w, v)}
           \/ protoSet' = {C!fromJS(v)} /\ members' = {v}
    PROVE  CoreSet'
<1>0. CoreSet
  BY DEF CoreInv
<1>1. /\ members' \subseteq Sample
      /\ \A w \in members' : C!FunctionsOf(w) = {}
  BY <1>0 DEF CoreSet
<1>2. ASSUME NEW u \in Plain
      PROVE  C!fromJS(u)' \in protoSet' <=> \E w \in members' : C!Alike(u, w)
  <2>1. C!fromJS(u)' = C!fromJS(u)
    BY PlainConversion
  <2>2. C!fromJS(u) = C!fromJS(v) <=> C!Alike(u, v)
    BY ConversionKeeps
  <2>3. C!fromJS(u) \in protoSet <=> \E w \in members : C!Alike(u, w)
    BY <1>0 DEF CoreSet
  <2>4. CASE protoSet' = protoSet \cup {C!fromJS(v)} /\ members' = members \cup {v}
    BY <2>1, <2>2, <2>3, <2>4
  <2>5. CASE /\ protoSet' = protoSet \ {C!fromJS(v)}
             /\ members' = {w \in members : ~ C!Alike(w, v)}
    <3>1. ASSUME NEW w \in members, C!Alike(u, w)
          PROVE  C!Alike(w, v) <=> C!Alike(u, v)
      <4>1. w \in Plain /\ C!fromJS(u) = C!fromJS(w)
        BY <1>0, <3>1, AlikePlain, ConversionKeeps DEF CoreSet
      <4>2. C!fromJS(w) = C!fromJS(v) <=> C!Alike(w, v)
        BY <4>1, ConversionKeeps
      <4> QED  BY <2>2, <4>1, <4>2
    <3> QED  BY <2>1, <2>2, <2>3, <2>5, <3>1
  <2>6. CASE protoSet' = {C!fromJS(v)} /\ members' = {v}
    BY <2>1, <2>2, <2>6
  <2> QED  BY <2>4, <2>5, <2>6
<1> QED  BY <1>1, <1>2 DEF CoreSet

LEMMA NewBag ==
    ASSUME CoreInv, NEW v \in Sample,
           \/ /\ protoMultiset' = C!With(protoMultiset, C!fromJS(v),
                                         C!Counted(protoMultiset, C!fromJS(v)) + 1)
              /\ copies' = [w \in Sample |-> IF C!Alike(w, v) THEN copies[w] + 1
                                             ELSE copies[w]]
           \/ /\ protoMultiset' = IF C!Counted(protoMultiset, C!fromJS(v)) = 0
                                  THEN protoMultiset
                                  ELSE [protoMultiset EXCEPT ![C!fromJS(v)] = @ - 1]
              /\ copies' = [w \in Sample |-> IF C!Alike(w, v) /\ copies[w] > 0
                                             THEN copies[w] - 1 ELSE copies[w]]
           \/ /\ protoMultiset' = C!With(<<>>, C!fromJS(v), 1)
              /\ copies' = [w \in Sample |-> IF C!Alike(w, v) THEN 1 ELSE 0]
    PROVE  CoreBag'
<1> DEFINE p == C!fromJS(v)
<1>0. CoreBag
  BY DEF CoreInv
<1>1. \A u \in Plain : /\ C!fromJS(u)' = C!fromJS(u)
                       /\ C!fromJS(u) = p <=> C!Alike(u, v)
                       /\ C!Counted(protoMultiset, C!fromJS(u)) = copies[u]
                       /\ u \in Sample
  BY <1>0, PlainConversion, ConversionKeeps DEF CoreBag, Plain
<1>2. \A q : C!Counted(protoMultiset, q) \in Nat
  BY <1>0 DEF CoreBag, C!Counted
<1>3. /\ copies \in [Sample -> Nat]
      /\ \A q \in DOMAIN protoMultiset : protoMultiset[q] \in Nat
  BY <1>0 DEF CoreBag
<1> HIDE DEF p
<1>4. ASSUME protoMultiset' = C!With(protoMultiset, p, C!Counted(protoMultiset, p) + 1),
             copies' = [w \in Sample |-> IF C!Alike(w, v) THEN copies[w] + 1
                                         ELSE copies[w]]
      PROVE  CoreBag'
  <2>1. \A q : C!Counted(protoMultiset', q)
                   = IF q = p THEN C!Counted(protoMultiset, p) + 1
                     ELSE C!Counted(protoMultiset, q)
    BY <1>4 DEF C!With, C!Counted
  <2>2. \A q \in DOMAIN protoMultiset' : protoMultiset'[q] \in Nat
    BY <1>2, <1>3, <1>4 DEF C!With
  <2>3. copies' \in [Sample -> Nat]
    BY <1>3, <1>4
  <2>4. ASSUME NEW u \in Plain
        PROVE  C!Counted(protoMultiset', C!fromJS(u)) = copies'[u]
    BY <1>1, <1>4, <2>1
  <2> QED  BY <1>1, <2>2, <2>3, <2>4 DEF CoreBag
<1>5. ASSUME protoMultiset' = IF C!Counted(protoMultiset, p) = 0 THEN protoMultiset
                              ELSE [protoMultiset EXCEPT ![p] = @ - 1],
             copies' = [w \in Sample |-> IF C!Alike(w, v) /\ copies[w] > 0
                                         THEN copies[w] - 1 ELSE copies[w]]
      PROVE  CoreBag'
  <2>1. \A q : C!Counted(protoMultiset', q)
                   = IF q = p /\ C!Counted(protoMultiset, p) > 0
                     THEN C!Counted(protoMultiset, p) - 1
                     ELSE C!Counted(protoMultiset, q)
    BY <1>2, <1>5 DEF C!Counted
  <2>2. \A q \in DOMAIN protoMultiset' : protoMultiset'[q] \in Nat
    BY <1>3, <1>5 DEF C!Counted
  <2>3. copies' \in [Sample -> Nat]
    BY <1>3, <1>5
  <2>4. ASSUME NEW u \in Plain
        PROVE  C!Counted(protoMultiset', C!fromJS(u)) = copies'[u]
    BY <1>1, <1>3, <1>5, <2>1
  <2> QED  BY <1>1, <2>2, <2>3, <2>4 DEF CoreBag
<1>6. ASSUME protoMultiset' = C!With(<<>>, p, 1),
             copies' = [w \in Sample |-> IF C!Alike(w, v) THEN 1 ELSE 0]
      PROVE  CoreBag'
  <2>1. protoMultiset' = [q \in {p} |-> 1]
    BY <1>6 DEF C!With
  <2>2. \A q : C!Counted(protoMultiset', q) = IF q = p THEN 1 ELSE 0
    BY <2>1 DEF C!Counted
  <2>3. /\ \A q \in DOMAIN protoMultiset' : protoMultiset'[q] \in Nat
        /\ copies' \in [Sample -> Nat]
    BY <1>6, <2>1
  <2>4. ASSUME NEW u \in Plain
        PROVE  C!Counted(protoMultiset', C!fromJS(u)) = copies'[u]
    BY <1>1, <1>6, <2>2
  <2> QED  BY <1>1, <2>3, <2>4 DEF CoreBag
<1> QED  BY <1>4, <1>5, <1>6, Zenon DEF p

\* fromJS names a new object by the number of operations; the objects of plain
\* values do not change with it.
LEMMA CoreKept ==
    ASSUME CoreInv
    PROVE  /\ UNCHANGED <<protoSet, members>> => CoreSet'
           /\ UNCHANGED <<protoMultiset, copies>> => CoreBag'
           /\ UNCHANGED <<sparseList, stored>> => CoreList'
<1>1. ASSUME UNCHANGED <<protoSet, members>>
      PROVE  CoreSet'
  BY <1>1, PlainConversion DEF CoreInv, CoreSet
<1>2. ASSUME UNCHANGED <<protoMultiset, copies>>
      PROVE  CoreBag'
  BY <1>2, PlainConversion DEF CoreInv, CoreBag, C!Counted
<1>3. ASSUME UNCHANGED <<sparseList, stored>>
      PROVE  CoreList'
  <2> SUFFICES ASSUME NEW i \in Index
               PROVE  \/ stored[i] = C!Absent
                      \/ stored[i] \in Plain /\ sparseList[i] = C!fromJS(stored[i])'
                      \/ stored[i] \in Sample \ Plain /\ sparseList[i][1] = "cell"
    BY <1>3 DEF CoreInv, CoreList
  <2>1. ASSUME stored[i] \in Plain
        PROVE  C!fromJS(stored[i])' = C!fromJS(stored[i])
    <3>1. \A v \in Plain : C!fromJS(v)' = C!fromJS(v)
      BY PlainConversion
    <3>2. stored[i]' = stored[i]
      BY <1>3
    <3> QED  BY <2>1, <3>1, <3>2 DEF C!fromJS
  <2> QED  BY <2>1 DEF CoreInv, CoreList
<1> QED  BY <1>1, <1>2, <1>3

LEMMA NewList ==
    ASSUME CoreInv,
           \/ \E i \in Index : \E v \in Sample :
                 /\ sparseList' = [sparseList EXCEPT ![i] = C!fromJS(v)]
                 /\ stored' = [stored EXCEPT ![i] = v]
           \/ stored' = [i \in Index |-> C!Absent] /\ sparseList' = [i \in Index |-> C!Hole]
    PROVE  CoreList'
<1>0. CoreList
  BY DEF CoreInv
<1>1. ASSUME NEW i \in Index, NEW v \in Sample,
             sparseList' = [sparseList EXCEPT ![i] = C!fromJS(v)],
             stored' = [stored EXCEPT ![i] = v]
      PROVE  CoreList'
  <2>1. DOMAIN stored' = Index /\ DOMAIN sparseList' = Index
    BY <1>0, <1>1 DEF CoreList
  <2> SUFFICES ASSUME NEW j \in Index
               PROVE  \/ stored'[j] = C!Absent
                      \/ stored'[j] \in Plain /\ sparseList'[j] = C!fromJS(stored[j])'
                      \/ stored'[j] \in Sample \ Plain /\ sparseList'[j][1] = "cell"
    BY <2>1 DEF CoreList
  <2>2. CASE j = i
    <3>1. stored'[j] = v /\ sparseList'[j] = C!fromJS(v)
      BY <1>0, <1>1, <2>2 DEF CoreList
    <3>2. v \in Plain => C!fromJS(stored[j])' = C!fromJS(v)
      BY <3>1, PlainConversion DEF C!fromJS
    <3> QED  BY <3>1, <3>2, CellConversion
  <2>3. CASE j # i
    <3>1. stored'[j] = stored[j] /\ sparseList'[j] = sparseList[j]
      BY <1>0, <1>1, <2>3 DEF CoreList
    <3>2. stored[j] \in Plain => C!fromJS(stored[j])' = C!fromJS(stored[j])
      <4>1. \A u \in Plain : C!fromJS(u)' = C!fromJS(u)
        BY PlainConversion
      <4> QED  BY <3>1, <4>1 DEF C!fromJS
    <3> QED  BY <1>0, <3>1, <3>2 DEF CoreList
  <2> QED  BY <2>2, <2>3
<1>2. ASSUME stored' = [i \in Index |-> C!Absent], sparseList' = [i \in Index |-> C!Hole]
      PROVE  CoreList'
  BY <1>2 DEF CoreList
<1> QED  BY <1>1, <1>2

\* One operation on a collection.
LEMMA CoreOperation ==
    ASSUME CoreInv, NEW t \in Thread, NEW v \in Sample, C!Operation(t, v)
    PROVE  CoreSet' /\ CoreBag' /\ CoreList' /\ reverse' = reverse /\ mapMutex' = mapMutex
<1>1. ASSUME C!SetConstructor(t, v) \/ C!SetAdd(t, v) \/ C!SetRemove(t, v)
      PROVE  CoreSet' /\ CoreBag' /\ CoreList'
  <2>1. /\ C!FunctionsOf(v) = {}
        /\ UNCHANGED <<protoMultiset, sparseList, copies, stored>>
        /\ \/ protoSet' = protoSet \cup {C!fromJS(v)} /\ members' = members \cup {v}
           \/ /\ protoSet' = protoSet \ {C!fromJS(v)}
              /\ members' = {w \in members : ~ C!Alike(w, v)}
           \/ protoSet' = {C!fromJS(v)} /\ members' = {v}
    BY <1>1 DEF C!SetConstructor, C!SetAdd, C!SetRemove, C!Does
  <2> QED  BY <2>1, NewSet, CoreKept
<1>2. ASSUME C!MultisetConstructor(t, v) \/ C!MultisetAdd(t, v) \/ C!MultisetRemove(t, v)
      PROVE  CoreSet' /\ CoreBag' /\ CoreList'
  <2>1. UNCHANGED <<protoSet, sparseList, members, stored>>
    BY <1>2 DEF C!MultisetConstructor, C!MultisetAdd, C!MultisetRemove
  <2>2. CoreBag'
    BY <1>2, NewBag DEF C!MultisetConstructor, C!MultisetAdd, C!MultisetRemove
  <2> QED  BY <2>1, <2>2, CoreKept
<1>3. ASSUME \E i \in Index : C!SparseListSet(t, i, v)
      PROVE  CoreSet' /\ CoreBag' /\ CoreList'
  <2>1. UNCHANGED <<protoSet, protoMultiset, members, copies>>
    BY <1>3 DEF C!SparseListSet
  <2>2. CoreList'
    BY <1>3, NewList DEF C!SparseListSet
  <2> QED  BY <2>1, <2>2, CoreKept
<1>4. ASSUME C!Stays(t, v)
      PROVE  CoreSet' /\ CoreBag' /\ CoreList' /\ reverse' = reverse /\ mapMutex' = mapMutex
  BY <1>4, CoreKept DEF C!Stays, C!Enter, C!coreVars
<1>5. ASSUME NEW c, NEW u, C!Does(t, c, u)
      PROVE  reverse' = reverse /\ mapMutex' = mapMutex
  BY <1>5 DEF C!Does, C!bridgeVars
<1>6. \/ C!SetConstructor(t, v) \/ C!SetAdd(t, v) \/ C!SetRemove(t, v)
      \/ C!MultisetConstructor(t, v) \/ C!MultisetAdd(t, v) \/ C!MultisetRemove(t, v)
      \/ (\E i \in Index : C!SparseListSet(t, i, v)) \/ C!Stays(t, v)
  BY DEF C!Operation, C!SetHas, C!MultisetCount, C!Tuple, C!ImmutableObject,
     C!MutableObject, C!IsImmutable, C!MakeImmutable, C!MakeMutable
<1>7. C!Stays(t, v) \/ \E c, u : C!Does(t, c, u)
  BY <1>6 DEF C!SetConstructor, C!SetAdd, C!SetRemove, C!MultisetConstructor,
     C!MultisetAdd, C!MultisetRemove, C!SparseListSet
<1> QED  BY <1>1, <1>2, <1>3, <1>4, <1>5, <1>6, <1>7

\* registerMapping leaves with the lock.
LEMMA RegisteredKeepsLock ==
    ASSUME BridgeInv, NEW t \in Thread, C!registerMapping(t)
    PROVE  mapMutex' # C!Nobody
<1> DEFINE f == Head(stack[t])
           g == C!Frame("registerRoot", f.js, f.proto)
<1>1. C!Locks(t, "registerMapping") /\ C!Ends(t, <<g>>)
  BY DEF C!registerMapping
<1>2. f \in BridgeFrame /\ f.js \in Value
  BY <1>1, LockedStep
<1>3. f.proto \in Proto \cup {"none"}
  BY <1>2 DEF BridgeFrame
<1>4. g \in BridgeFrame /\ g.op = "registerRoot"
  BY <1>2, <1>3, Framed DEF C!Public
<1> HIDE DEF f, g
<1>5. mapMutex' = t
  BY <1>1, <1>4, BodyEnds, WaitsAlone
<1> QED  BY <1>5, LibraryAssumption

LEMMA CoreStep == ASSUME BridgeInv, CoreInv, [Next]_vars
                  PROVE  CoreInv'
<1>1. CASE part = "protoCore" /\ part' = part /\ C!Next
  <2>1. ASSUME UNCHANGED coreVars
        PROVE  CoreSet' /\ CoreBag' /\ CoreList'
    BY <2>1, CoreKept DEF coreVars
  <2>2. CASE C!JSContextWrapper /\ UNCHANGED coreVars
    BY <1>1, <2>1, <2>2 DEF C!JSContextWrapper, CoreInv, CoreLock
  <2>3. CASE \E t \in Thread : C!registerMapping(t) /\ UNCHANGED coreVars
    BY <2>1, <2>3, RegisteredKeepsLock DEF CoreInv, CoreLock
  <2>4. CASE \E t \in Thread, v \in Sample : C!Operation(t, v)
    <3>1. CoreSet' /\ CoreBag' /\ CoreList' /\ reverse' = reverse /\ mapMutex' = mapMutex
      BY <2>4, CoreOperation
    <3> QED  BY <1>1, <3>1 DEF CoreInv, CoreLock
  <2>5. CASE \E t \in Thread : C!SparseListConstructor(t)
    <3>1. CoreList'
      BY <2>5, NewList DEF C!SparseListConstructor
    <3>2. /\ UNCHANGED <<protoSet, protoMultiset, members, copies>>
          /\ reverse' = reverse /\ mapMutex' = mapMutex
      BY <2>5 DEF C!SparseListConstructor, C!Does, C!bridgeVars
    <3> QED  BY <1>1, <3>1, <3>2, CoreKept DEF CoreInv, CoreLock
  <2> QED  BY <1>1, <2>2, <2>3, <2>4, <2>5 DEF C!Next, C!coreVars, coreVars
<1>2. CASE part' = part /\ part # "protoCore" /\ UNCHANGED coreVars
  BY <1>2, CoreKept DEF CoreInv, CoreLock, coreVars
<1>3. CASE UNCHANGED vars
  BY <1>3, CoreKept DEF CoreInv, CoreLock, vars, coreVars, bridgeVars
<1> QED  BY <1>1, <1>2, <1>3 DEF Next, Only, vars

\* CollectionSafety (MCLibraries) for any values and indices: has, count and get
\* of the protoCore collections answer what the calls before them make true, and
\* no function is in a collection.
THEOREM CollectionsAnswer == Spec => []CollectionSafety
<1> DEFINE Inv == BridgeInv /\ CoreInv
<1>1. Init => Inv
  BY BridgeStarts, CoreStart DEF Init
<1>2. Inv /\ [Next]_vars => Inv'
  BY BridgeStep, CoreStep
<1>3. Inv => CollectionSafety
  BY CoreSafe DEF CollectionSafety
<1> QED  BY <1>1, <1>2, <1>3, PTL DEF Spec

-----------------------------------------------------------------------------
(* Buffers                                                                 *)

\* F is the concatenation of the first n of the non-empty sequences in q, as far
\* as its length and the case of single elements tell.
Flat(F, q, n, T) ==
    /\ F \in Seq(T) /\ Len(F) >= n
    /\ (\A i \in 1..n : Len(q[i]) = 1) =>
          Len(F) = n /\ \A i \in 1..n : F[i] = q[i][1]
    /\ \A i \in 1..n : Len(q[i]) > 1 => Len(F) > n

LEMMA FlatGrows ==
    ASSUME NEW T, NEW q \in Seq(Seq(T)), \A i \in 1..Len(q) : Len(q[i]) >= 1,
           NEW k \in 2..Len(q), NEW F, Flat(F, q, k - 1, T)
    PROVE  Flat(F \o q[k], q, k, T)
<1>1. /\ q[k] \in Seq(T) /\ Len(q[k]) \in Nat /\ Len(q[k]) >= 1
      /\ F \in Seq(T) /\ Len(F) \in Nat /\ Len(F) >= k - 1
  <2>1. k \in 1..Len(q)
    OBVIOUS
  <2>2. q[k] \in Seq(T)
    BY <2>1, ElementOfSeq
  <2>3. F \in Seq(T) /\ Len(F) >= k - 1
    BY DEF Flat
  <2> QED  BY <2>1, <2>2, <2>3, LenProperties
<1>2. /\ F \o q[k] \in Seq(T) /\ Len(F \o q[k]) = Len(F) + Len(q[k])
      /\ \A i \in 1..Len(F) + Len(q[k]) :
            (F \o q[k])[i] = IF i <= Len(F) THEN F[i] ELSE q[k][i - Len(F)]
  BY <1>1, ConcatProperties
<1>3. Len(F \o q[k]) >= k
  BY <1>1, <1>2
<1>4. ASSUME \A i \in 1..k : Len(q[i]) = 1
      PROVE  Len(F \o q[k]) = k /\ \A i \in 1..k : (F \o q[k])[i] = q[i][1]
  <2>1. Len(F) = k - 1 /\ (\A i \in 1..k - 1 : F[i] = q[i][1]) /\ Len(q[k]) = 1
    BY <1>4 DEF Flat
  <2> QED  BY <1>2, <2>1
<1>5. ASSUME NEW i \in 1..k, Len(q[i]) > 1
      PROVE  Len(F \o q[k]) > k
  <2>1. CASE i = k
    BY <1>1, <1>2, <1>5, <2>1
  <2>2. CASE i # k
    <3>1. i \in 1..k - 1
      BY <2>2
    <3>2. Len(F) > k - 1
      BY <1>5, <3>1 DEF Flat
    <3> QED  BY <1>1, <1>2, <3>2
  <2> QED  BY <2>1, <2>2
<1> QED  BY <1>2, <1>3, <1>4, <1>5 DEF Flat

LEMMA Flattened ==
    ASSUME NEW T, NEW q \in Seq(Seq(T)), q # << >>,
           \A i \in 1..Len(q) : Len(q[i]) >= 1
    PROVE  Flat(B!FlattenSeq(q), q, Len(q), T)
<1> DEFINE N == Len(q)
           join[i \in 1..N] == IF i = 1 THEN q[i] ELSE join[i - 1] \o q[i]
<1>0. N \in Nat /\ N # 0 /\ \A i \in 1..N : q[i] \in Seq(T)
  <2>1. N \in Nat /\ N # 0
    BY LenProperties, EmptySeq
  <2> QED  BY <2>1, ElementOfSeq
<1>1. B!FlattenSeq(q) = join[N]
  BY <1>0, Zenon DEF B!FlattenSeq
<1> HIDE DEF N
<1>2. \E g : g = [i \in 1..N |-> IF i = 1 THEN q[i] ELSE g[i - 1] \o q[i]]
  <2> DEFINE f == [x \in (1..N) \X Seq(T) |-> IF x[1] = 1 THEN q[x[1]] ELSE x[2] \o q[x[1]]]
  <2>1. f \in [(1..N) \X Seq(T) -> Seq(T)]
    <3>1. ASSUME NEW x \in (1..N) \X Seq(T)
          PROVE  (IF x[1] = 1 THEN q[x[1]] ELSE x[2] \o q[x[1]]) \in Seq(T)
      <4>1. q[x[1]] \in Seq(T) /\ x[2] \in Seq(T)
        BY <1>0
      <4> QED  BY <4>1, ConcatProperties
    <3> QED  BY <3>1
  <2>2. << >> \in Seq(T)
    BY EmptySeq
  <2> HIDE DEF f
  <2>3. \E g \in [0..N -> Seq(T)] : IsIterated(g, N, << >>, f)
    BY <1>0, <2>1, <2>2, Iterates, Zenon
  <2>4. PICK g \in [0..N -> Seq(T)] : \A k \in 1..N : g[k] = f[<<k, g[k - 1]>>]
    BY <2>3, Zenon DEF IsIterated
  <2> DEFINE h == [i \in 1..N |-> g[i]]
  <2>5. ASSUME NEW i \in 1..N
        PROVE  h[i] = IF i = 1 THEN q[i] ELSE h[i - 1] \o q[i]
    <3>1. i - 1 \in 0..N
      BY <1>0
    <3>2. g[i - 1] \in Seq(T)
      BY <3>1
    <3>3. f[<<i, g[i - 1]>>] = IF i = 1 THEN q[i] ELSE g[i - 1] \o q[i]
      BY <3>2 DEF f
    <3>4. i # 1 => i - 1 \in 1..N
      BY <1>0
    <3>5. i # 1 => h[i - 1] = g[i - 1]
      BY <3>4
    <3> QED  BY <2>4, <3>3, <3>5
  <2> HIDE DEF h
  <2>6. DOMAIN h = 1..N /\ h = [i \in 1..N |-> h[i]]
    BY DEF h
  <2>7. h = [i \in 1..N |-> IF i = 1 THEN q[i] ELSE h[i - 1] \o q[i]]
    BY <2>5, <2>6, Zenon
  <2> QED  BY <2>7
<1>3. join = [i \in 1..N |-> IF i = 1 THEN q[i] ELSE join[i - 1] \o q[i]]
  BY <1>2, Zenon DEF join
<1> HIDE DEF join
<1>4. join[1] = q[1] /\ \A k \in 2..N : join[k] = join[k - 1] \o q[k]
  <2>1. \A k \in 1..N : join[k] = IF k = 1 THEN q[k] ELSE join[k - 1] \o q[k]
    BY <1>3, Zenon
  <2>2. 1 \in 1..N /\ \A k \in 2..N : k \in 1..N /\ k # 1
    BY <1>0
  <2> QED  BY <2>1, <2>2, Zenon
<1> DEFINE bad == {k \in 1..N : ~ Flat(join[k], q, k, T)}
<1>5. Flat(join[1], q, 1, T)
  BY <1>0, <1>4 DEF Flat, N
<1>6. bad = {}
  <2> SUFFICES ASSUME bad # {}
               PROVE  FALSE
    OBVIOUS
  <2>1. bad \subseteq Nat /\ bad # {}
    BY <1>0
  <2>2. \E m \in bad : \A n \in bad : m <= n
    <3> HIDE DEF bad
    <3> QED  BY <2>1, Smallest, Zenon
  <2>3. PICK m \in bad : \A n \in bad : m <= n
    BY <2>2, Zenon
  <2>4. m \in 1..N /\ ~ Flat(join[m], q, m, T)
    OBVIOUS
  <2>5. m # 1
    BY <1>5, <2>4
  <2>6. m \in 2..N /\ m - 1 \in 1..N /\ ~ (m <= m - 1)
    BY <1>0, <2>4, <2>5
  <2>7. Flat(join[m - 1], q, m - 1, T)
    BY <2>3, <2>6
  <2>8. join[m] = join[m - 1] \o q[m]
    BY <1>4, <2>6
  <2>9. Flat(join[m - 1] \o q[m], q, m, T)
    BY <2>6, <2>7, FlatGrows DEF N
  <2> QED  BY <2>4, <2>8, <2>9
<1>7. Flat(join[N], q, N, T)
  <2>1. N \in 1..N
    BY <1>0
  <2> QED  BY <1>6, <2>1
<1> QED  BY <1>1, <1>7, Zenon DEF N

Octet == 0..255

LEMMA OctetKinds == \A n \in Octet : n \in Int /\ 0 <= n /\ n <= 255
BY DEF Octet

BufferInv ==
    /\ bytes \in [Buf -> Seq(Octet)]
    /\ \A b \in Buf : Len(bytes[b]) <= MaxSize
    /\ bufferFate \in {"fine", "beyond", "overlap"}
    /\ B!BeyondNeedsLateStart

LEMMA BufferBounds ==
    /\ Number \subseteq Int /\ \A n \in Number : n % 256 \in Octet
    /\ Position \subseteq Int /\ MaxSize \in Nat /\ SizeMod \in Nat
    /\ MaxSize < SizeMod
<1>1. \A n \in Int : n % 256 \in Octet
  BY DEF Octet
<1> QED  BY <1>1, LibraryAssumption

\* A number below the modulus is its own remainder.
LEMMA SmallRemainder == ASSUME NEW x \in Nat, NEW m \in Nat, x < m
                        PROVE  x % m = x
OBVIOUS

LEMMA SomeRemainder == ASSUME NEW x \in Int, NEW m \in Nat, m > 0
                       PROVE  x % m \in Nat
OBVIOUS

LEMMA RangeOfBytes ==
    ASSUME NEW T, NEW s \in Seq(T), NEW lo \in Int, NEW hi \in Int,
           lo >= 0 \/ hi <= lo, hi <= Len(s)
    PROVE  /\ B!Bytes(s, lo, hi) \in Seq(T)
           /\ Len(B!Bytes(s, lo, hi)) = IF lo < hi THEN hi - lo ELSE 0
           /\ \A i \in 1..hi - lo : B!Bytes(s, lo, hi)[i] = s[lo + i]
<1>1. lo + 1 \in Int /\ Len(s) \in Nat
  BY LenProperties
<1>2. \A i \in lo + 1 .. hi : s[i] \in T
  <2> TAKE i \in lo + 1 .. hi
  <2>1. i \in 1..Len(s)
    BY <1>1
  <2> QED  BY <2>1, ElementOfSeq
<1>3. /\ SubSeq(s, lo + 1, hi) \in Seq(T)
      /\ Len(SubSeq(s, lo + 1, hi)) = IF lo + 1 <= hi THEN hi - (lo + 1) + 1 ELSE 0
      /\ \A i \in 1..hi - (lo + 1) + 1 : SubSeq(s, lo + 1, hi)[i] = s[(lo + 1) + i - 1]
  BY <1>1, <1>2, SubSeqProperties
<1>4. hi - (lo + 1) + 1 = hi - lo /\ \A i \in Int : (lo + 1) + i - 1 = lo + i
  OBVIOUS
<1>5. (lo + 1 <= hi) <=> (lo < hi)
  OBVIOUS
<1> QED  BY <1>3, <1>4, <1>5 DEF B!Bytes

\* A position counted from the end if it is negative.
At(p, n) == IF p < 0 THEN p + n ELSE p

LEMMA SliceShape ==
    ASSUME NEW T, NEW s \in Seq(T), NEW start \in Int, NEW end \in Int
    PROVE  LET from == B!Most(At(start, Len(s)), 0)
               e == B!Least(At(end, Len(s)), Len(s)) IN
           /\ B!Slice(s, start, end) \in Seq(T)
           /\ Len(B!Slice(s, start, end)) = IF from < e THEN e - from ELSE 0
           /\ \A i \in 1..e - from : B!Slice(s, start, end)[i] = s[from + i]
<1> DEFINE from == B!Most(At(start, Len(s)), 0)
           e == B!Least(At(end, Len(s)), Len(s))
           lo == B!Least(from, e)
<1>1. Len(s) \in Nat
  BY LenProperties
<1>2. B!Slice(s, start, end) = B!Bytes(s, lo, e)
  BY DEF B!Slice, B!SliceEnd, At
<1>3. /\ from \in Int /\ from >= 0 /\ e \in Int /\ e <= Len(s)
      /\ lo = IF from <= e THEN from ELSE e
  BY <1>1 DEF At, B!Most, B!Least
<1> HIDE DEF from, e, lo
<1>4. /\ B!Bytes(s, lo, e) \in Seq(T)
      /\ Len(B!Bytes(s, lo, e)) = IF lo < e THEN e - lo ELSE 0
      /\ \A i \in 1..e - lo : B!Bytes(s, lo, e)[i] = s[lo + i]
  <2>1. lo \in Int /\ (lo >= 0 \/ e <= lo) /\ e \in Int /\ e <= Len(s)
    BY <1>3
  <2> QED  BY <2>1, RangeOfBytes, Zenon
<1>5. CASE from <= e
  <2>1. lo = from
    BY <1>3, <1>5
  <2> QED  BY <1>2, <1>4, <2>1 DEF from, e
<1>6. CASE ~ (from <= e)
  <2>1. lo = e /\ ~ (lo < e) /\ ~ (from < e) /\ 1..e - from = {}
    BY <1>3, <1>6
  <2>2. /\ B!Bytes(s, lo, e) \in Seq(T) /\ Len(B!Bytes(s, lo, e)) = 0
    BY <1>4, <2>1
  <2>3. /\ B!Slice(s, start, end) \in Seq(T)
        /\ Len(B!Slice(s, start, end)) = IF from < e THEN e - from ELSE 0
        /\ \A i \in 1..e - from : B!Slice(s, start, end)[i] = s[from + i]
    BY <1>2, <2>1, <2>2
  <2> QED  BY <2>3 DEF from, e
<1> QED  BY <1>5, <1>6

\* copy() never reads behind its source, and leaves its target only if it starts
\* there.
LEMMA CopyShape ==
    ASSUME NEW s \in Seq(Octet), NEW d \in Seq(Octet), Len(d) < SizeMod,
           NEW t \in Int, NEW f \in Int, NEW e \in Int
    PROVE  LET n == B!CopyLen(s, d, t, f, e) IN
           /\ n \in Nat
           /\ t \in 0..Len(d) => t + n <= Len(d)
           /\ n > 0 => t >= 0 /\ f >= 0 /\ f + n <= Len(s) /\ f + n <= e
           /\ t \in 0..Len(d) /\ n < e - f /\ f >= 0
                 => t + n = Len(d) \/ f + n >= Len(s)
<1>1. Len(s) \in Nat /\ Len(d) \in Nat /\ SizeMod \in Nat /\ SizeMod > 0
  BY LenProperties, BufferBounds
<1> DEFINE last == B!Least(e, Len(s))
           from == B!Least(B!Least(f, Len(s)), last)
           room == (Len(d) - t) % SizeMod
           n == B!CopyLen(s, d, t, f, e)
<1>2. n = IF t < 0 \/ f < 0 \/ e < 0 THEN 0 ELSE B!Least(last - from, room)
  BY Zenon DEF B!CopyLen
<1>3. room \in Nat
  <2>1. Len(d) - t \in Int
    BY <1>1
  <2> QED  BY <1>1, <2>1, SomeRemainder
<1>4. t \in 0..Len(d) => room = Len(d) - t
  <2> SUFFICES ASSUME t \in 0..Len(d)
               PROVE  room = Len(d) - t
    OBVIOUS
  <2>1. Len(d) - t \in Nat /\ Len(d) - t < SizeMod
    BY <1>1
  <2> QED  BY <1>1, <2>1, SmallRemainder
<1>5. /\ last \in Int /\ from \in Int /\ from <= last
      /\ last <= e /\ last <= Len(s) /\ (last = e \/ last = Len(s))
      /\ from <= f /\ (from = f \/ from = Len(s) \/ from = last)
  BY <1>1 DEF B!Least
<1> HIDE DEF last, from, room, n
<1>6. CASE t < 0 \/ f < 0 \/ e < 0
  <2>1. n = 0
    BY <1>2, <1>6
  <2>2. t \in 0..Len(d) /\ f >= 0 => ~ (0 < e - f)
    BY <1>1, <1>6
  <2> QED  BY <1>1, <2>1, <2>2 DEF n
<1>7. CASE ~ (t < 0 \/ f < 0 \/ e < 0)
  <2>1. n = IF last - from < room THEN last - from ELSE room
    <3>1. n = B!Least(last - from, room)
      BY <1>2, <1>7, Zenon
    <3> QED  BY <3>1, Zenon DEF B!Least
  <2>2. n \in Nat /\ n <= room /\ n <= last - from
    BY <1>3, <1>5, <2>1
  <2>3. n > 0 => from = f
    BY <1>1, <1>5, <2>2
  <2>4. t \in 0..Len(d) => t + n <= Len(d)
    BY <1>1, <1>4, <2>2
  <2>5. n > 0 => t >= 0 /\ f >= 0 /\ f + n <= Len(s) /\ f + n <= e
    BY <1>1, <1>5, <1>7, <2>2, <2>3
  <2>6. t \in 0..Len(d) /\ n < e - f /\ f >= 0 => t + n = Len(d) \/ f + n >= Len(s)
    BY <1>1, <1>4, <1>5, <2>1
  <2> QED  BY <2>2, <2>4, <2>5, <2>6 DEF n
<1> QED  BY <1>6, <1>7

LEMMA BufferStart == ASSUME Init
                     PROVE  BufferInv
<1>1. bytes = [b \in Buf |-> << >>] /\ bufferFate = "fine"
  BY DEF Init, B!Start
<1>2. << >> \in Seq(Octet) /\ Len(<< >>) = 0
  BY EmptySeq
<1>3. MaxSize \in Nat
  BY BufferBounds
<1> QED  BY <1>1, <1>2, <1>3 DEF BufferInv, B!BeyondNeedsLateStart

LEMMA BufferHolds ==
    ASSUME BufferInv, NEW b \in Buf, NEW s \in Seq(Octet), B!Holds(b, s)
    PROVE  BufferInv'
<1>1. /\ Len(s) <= MaxSize /\ bytes' = [bytes EXCEPT ![b] = s]
      /\ bufferFate = "fine" /\ bufferFate' = "fine"
  BY DEF B!Holds
<1>2. bytes \in [Buf -> Seq(Octet)] /\ \A c \in Buf : Len(bytes[c]) <= MaxSize
  BY DEF BufferInv
<1>3. bytes' \in [Buf -> Seq(Octet)] /\ \A c \in Buf : Len(bytes'[c]) <= MaxSize
  BY <1>1, <1>2
<1> QED  BY <1>1, <1>3 DEF BufferInv, B!BeyondNeedsLateStart

LEMMA BufferCopies ==
    ASSUME BufferInv, NEW b \in Buf, NEW c \in Buf,
           NEW t \in Position, NEW f \in Position, NEW e \in Position,
           B!bufferCopy(b, c, t, f, e)
    PROVE  BufferInv'
<1> DEFINE n == B!CopyLen(bytes[b], bytes[c], t, f, e)
           d == B!Copied(bytes[b], bytes[c], t, f, n)
<1>1. /\ bufferFate' = B!MemcpyFate(b, c, t, f, n)
      /\ bytes' = IF bufferFate' = "fine" THEN [bytes EXCEPT ![c] = d] ELSE bytes
  BY DEF B!bufferCopy
<1>2. /\ bytes \in [Buf -> Seq(Octet)] /\ \A a \in Buf : Len(bytes[a]) <= MaxSize
      /\ bytes[b] \in Seq(Octet) /\ bytes[c] \in Seq(Octet)
      /\ Len(bytes[b]) \in Nat /\ Len(bytes[c]) \in Nat /\ Len(bytes[c]) < SizeMod
  <2>1. bytes \in [Buf -> Seq(Octet)] /\ \A a \in Buf : Len(bytes[a]) <= MaxSize
    BY DEF BufferInv
  <2>2. Len(bytes[b]) \in Nat /\ Len(bytes[c]) \in Nat
    BY <2>1, LenProperties
  <2> QED  BY <2>1, <2>2, BufferBounds
<1>3. t \in Int /\ f \in Int /\ e \in Int
  BY BufferBounds
<1>4. /\ n \in Nat
      /\ t \in 0..Len(bytes[c]) => t + n <= Len(bytes[c])
      /\ n > 0 => t >= 0 /\ f >= 0 /\ f + n <= Len(bytes[b]) /\ f + n <= e
  BY <1>2, <1>3, CopyShape
<1> HIDE DEF n, d
<1>5. CASE n > 0 /\ t + n > Len(bytes[c])
  <2>1. bufferFate' = "beyond" /\ bytes' = bytes
    BY <1>1, <1>5 DEF B!MemcpyFate
  <2>2. t > Len(bytes[c])
    BY <1>2, <1>3, <1>4, <1>5
  <2>3. t > Len(bytes[c]) /\ B!CopyLen(bytes[b], bytes[c], t, f, e) > 0
    BY <1>5, <2>2 DEF n
  <2>4. B!BeyondNeedsLateStart'
    <3>1. t > Len(bytes'[c]) /\ B!CopyLen(bytes'[b], bytes'[c], t, f, e) > 0
      BY <2>1, <2>3, Zenon
    <3> QED  BY <3>1, Zenon DEF B!BeyondNeedsLateStart
  <2> QED  BY <1>2, <2>1, <2>4 DEF BufferInv
<1>6. CASE ~ (n > 0 /\ t + n > Len(bytes[c]))
  <2>1. bufferFate' \in {"fine", "overlap"}
    BY <1>1, <1>6 DEF B!MemcpyFate
  <2>2. d \in Seq(Octet) /\ Len(d) = Len(bytes[c])
    <3>1. DOMAIN bytes[c] = 1..Len(bytes[c])
      BY <1>2, LenProperties
    <3>2. ASSUME NEW i \in 1..Len(bytes[c])
          PROVE  (IF i \in t + 1 .. t + n THEN bytes[b][i - t + f] ELSE bytes[c][i])
                     \in Octet
      <4>1. CASE i \in t + 1 .. t + n
        <5>1. i - t + f \in 1..Len(bytes[b])
          BY <1>2, <1>3, <1>4, <4>1
        <5>2. bytes[b][i - t + f] \in Octet
          BY <1>2, <5>1, ElementOfSeq
        <5> QED  BY <4>1, <5>2
      <4>2. CASE ~ (i \in t + 1 .. t + n)
        <5>1. bytes[c][i] \in Octet
          BY <1>2, ElementOfSeq
        <5> QED  BY <4>2, <5>1
      <4> QED  BY <4>1, <4>2
    <3>3. d = [i \in 1..Len(bytes[c]) |->
                  IF i \in t + 1 .. t + n THEN bytes[b][i - t + f] ELSE bytes[c][i]]
      BY <3>1 DEF d, B!Copied
    <3>4. d \in [1..Len(bytes[c]) -> Octet]
      BY <3>2, <3>3
    <3> QED  BY <1>2, <3>4, SeqOfFunction
  <2>3. bytes' \in [Buf -> Seq(Octet)] /\ \A a \in Buf : Len(bytes'[a]) <= MaxSize
    BY <1>1, <1>2, <2>2
  <2>4. B!BeyondNeedsLateStart'
    BY <2>1 DEF B!BeyondNeedsLateStart
  <2> QED  BY <2>1, <2>3, <2>4 DEF BufferInv
<1> QED  BY <1>5, <1>6

\* A C string.
LEMMA UntilZeroShape ==
    ASSUME NEW T, T \subseteq Int, NEW s \in Seq(T)
    PROVE  /\ B!UntilZero(s) \in Seq(T)
           /\ Len(B!UntilZero(s)) <= Len(s)
           /\ \A i \in 1..Len(B!UntilZero(s)) :
                 B!UntilZero(s)[i] = s[i] /\ B!UntilZero(s)[i] # 0
           /\ (\A i \in 1..Len(s) : s[i] # 0) => B!UntilZero(s) = s
<1> DEFINE zeros == {i \in DOMAIN s : s[i] = 0}
           first == CHOOSE i \in zeros : \A j \in zeros : i <= j
<1>1. B!UntilZero(s) = IF zeros = {} THEN s ELSE SubSeq(s, 1, first - 1)
  BY Zenon DEF B!UntilZero
<1>2. Len(s) \in Nat /\ DOMAIN s = 1..Len(s)
  BY LenProperties
<1>3. CASE zeros = {}
  <2>1. B!UntilZero(s) = s /\ \A i \in 1..Len(s) : s[i] # 0
    BY <1>1, <1>2, <1>3
  <2> QED  BY <1>2, <2>1
<1>4. CASE zeros # {}
  <2>1. zeros \subseteq Nat /\ zeros \subseteq 1..Len(s)
    BY <1>2
  <2>2. \A i \in zeros : s[i] = 0
    OBVIOUS
  <2>3. \A i \in 1..Len(s) : s[i] = 0 => i \in zeros
    BY <1>2
  <2> HIDE DEF zeros
  <2>4. \E i \in zeros : \A j \in zeros : i <= j
    BY <1>4, <2>1, Smallest, Zenon
  <2>5. first \in zeros /\ \A j \in zeros : first <= j
    BY <2>4, Zenon
  <2> HIDE DEF first
  <2>6. first \in 1..Len(s) /\ first - 1 \in Int /\ 1 \in Int
    BY <2>1, <2>5
  <2>7. \A i \in 1..first - 1 : i \in 1..Len(s) /\ s[i] \in T /\ i \notin zeros
    <3> TAKE i \in 1..first - 1
    <3>1. i \in 1..Len(s) /\ ~ (first <= i)
      BY <1>2, <2>6
    <3> QED  BY <2>5, <3>1, ElementOfSeq
  <2>8. /\ SubSeq(s, 1, first - 1) \in Seq(T)
        /\ Len(SubSeq(s, 1, first - 1)) = IF 1 <= first - 1 THEN first - 1 - 1 + 1 ELSE 0
        /\ \A i \in 1..first - 1 - 1 + 1 : SubSeq(s, 1, first - 1)[i] = s[1 + i - 1]
    BY <2>6, <2>7, SubSeqProperties
  <2>9. /\ Len(SubSeq(s, 1, first - 1)) = first - 1 /\ first - 1 <= Len(s)
        /\ \A i \in 1..first - 1 : SubSeq(s, 1, first - 1)[i] = s[i]
    BY <1>2, <2>6, <2>8
  <2>10. ~ \A i \in 1..Len(s) : s[i] # 0
    BY <2>1, <2>2, <2>5
  <2> QED  BY <1>1, <1>4, <2>3, <2>7, <2>8, <2>9, <2>10
<1> QED  BY <1>3, <1>4

\* F is the utf8 text of the bytes c.
Decoded(F, c) ==
    /\ F \in Seq(Octet \ {0}) /\ Len(F) >= Len(c)
    /\ (\A k \in 1..Len(c) : B!InCharacter(c, k)) => F = c
    /\ \A k \in 1..Len(c) : ~ B!InCharacter(c, k) => Len(F) > Len(c)

LEMMA Utf8Text ==
    ASSUME NEW s \in Seq(Octet)
    PROVE  Decoded(B!utf8Text(s), B!UntilZero(s))
<1> DEFINE c == B!UntilZero(s)
           T == Octet \ {0}
           q == [k \in DOMAIN c |->
                    IF B!InCharacter(c, k) THEN <<c[k]>> ELSE B!Replacement]
<1>1. B!utf8Text(s) = B!FlattenSeq(q)
  BY Zenon DEF B!utf8Text
<1>2. /\ c \in Seq(Octet)
      /\ \A k \in 1..Len(c) : c[k] = s[k] /\ c[k] # 0
  <2>1. Octet \subseteq Int
    BY DEF Octet
  <2> QED  BY <2>1, UntilZeroShape
<1> HIDE DEF c
<1>3. Len(c) \in Nat /\ DOMAIN c = 1..Len(c) /\ \A k \in 1..Len(c) : c[k] \in T
  <2>1. Len(c) \in Nat /\ DOMAIN c = 1..Len(c)
    BY <1>2, LenProperties
  <2>2. \A k \in 1..Len(c) : c[k] \in Octet
    BY <1>2, ElementOfSeq
  <2> QED  BY <1>2, <2>1, <2>2
<1>4. B!Replacement \in Seq(T) /\ Len(B!Replacement) = 3
  <2>1. 239 \in T /\ 191 \in T /\ 189 \in T
    BY DEF Octet
  <2> HIDE DEF T
  <2>2. <<239, 191, 189>> \in Seq(T) /\ Len(<<239, 191, 189>>) = 3
    BY <2>1
  <2> QED  BY <2>2, Zenon DEF B!Replacement
<1> HIDE DEF T
<1>5. \A k \in 1..Len(c) :
          /\ q[k] \in Seq(T) /\ Len(q[k]) >= 1
          /\ B!InCharacter(c, k) => Len(q[k]) = 1 /\ q[k][1] = c[k]
          /\ ~ B!InCharacter(c, k) => Len(q[k]) > 1
  <2> TAKE k \in 1..Len(c)
  <2>1. q[k] = IF B!InCharacter(c, k) THEN <<c[k]>> ELSE B!Replacement
    BY <1>3
  <2> HIDE DEF q
  <2>2. CASE B!InCharacter(c, k)
    <3>1. q[k] = <<c[k]>> /\ c[k] \in T
      BY <1>3, <2>1, <2>2, Zenon
    <3>2. <<c[k]>> \in Seq(T) /\ Len(<<c[k]>>) = 1 /\ <<c[k]>>[1] = c[k]
      BY <3>1
    <3> QED  BY <2>2, <3>1, <3>2
  <2>3. CASE ~ B!InCharacter(c, k)
    <3>1. q[k] = B!Replacement
      BY <2>1, <2>3, Zenon
    <3>2. q[k] \in Seq(T) /\ Len(q[k]) = 3
      BY <1>4, <3>1, Zenon
    <3>3. Len(q[k]) >= 1 /\ Len(q[k]) > 1
      BY <3>2
    <3> QED  BY <2>3, <3>2, <3>3, Zenon
  <2> QED  BY <2>2, <2>3
<1>6. q \in Seq(Seq(T)) /\ Len(q) = Len(c)
  <2>1. DOMAIN q = 1..Len(c) /\ q = [k \in 1..Len(c) |-> q[k]]
    BY <1>3
  <2> HIDE DEF q
  <2>2. q \in [1..Len(c) -> Seq(T)]
    BY <1>5, <2>1
  <2> QED  BY <1>3, <2>2, SeqOfFunction
<1> HIDE DEF q
<1> DEFINE F == B!FlattenSeq(q)
<1> HIDE DEF F
<1>7. CASE q = << >>
  <2>1. Len(q) = 0 /\ Len(c) = 0
    BY <1>6, <1>7, EmptySeq
  <2>2. B!FlattenSeq(q) = q
    BY <2>1, Zenon DEF B!FlattenSeq
  <2>3. c = << >> /\ << >> \in Seq(T) /\ 1..Len(c) = {}
    BY <1>2, <2>1, EmptySeq
  <2>4. B!utf8Text(s) = c
    BY <1>1, <1>7, <2>2, <2>3
  <2>5. B!utf8Text(s) \in Seq(T) /\ Len(B!utf8Text(s)) >= Len(c)
    BY <2>1, <2>3, <2>4
  <2> QED  BY <2>3, <2>4, <2>5 DEF c, T, Decoded
<1>8. CASE q # << >>
  <2>1. Flat(F, q, Len(q), T)
    <3>1. \A i \in 1..Len(q) : Len(q[i]) >= 1
      BY <1>5, <1>6
    <3> QED  BY <1>6, <1>8, <3>1, Flattened, Zenon DEF F
  <2>2. /\ F \in Seq(T) /\ Len(F) >= Len(c)
        /\ (\A k \in 1..Len(c) : B!InCharacter(c, k)) =>
              Len(F) = Len(c) /\ \A k \in 1..Len(c) : F[k] = c[k]
        /\ \A k \in 1..Len(c) : ~ B!InCharacter(c, k) => Len(F) > Len(c)
    <3>1. /\ F \in Seq(T) /\ Len(F) >= Len(c)
          /\ (\A i \in 1..Len(c) : Len(q[i]) = 1) =>
                Len(F) = Len(c) /\ \A i \in 1..Len(c) : F[i] = q[i][1]
          /\ \A i \in 1..Len(c) : Len(q[i]) > 1 => Len(F) > Len(c)
      BY <1>6, <2>1 DEF Flat
    <3> QED  BY <1>5, <3>1
  <2>3. ASSUME \A k \in 1..Len(c) : B!InCharacter(c, k)
        PROVE  F = c
    <3>1. Len(F) = Len(c) /\ \A k \in 1..Len(c) : F[k] = c[k]
      BY <2>2, <2>3
    <3>2. c \in [1..Len(c) -> T]
      BY <1>2, <1>3, LenProperties
    <3>3. c \in Seq(T)
      BY <1>3, <3>2, SeqOfFunction
    <3> QED  BY <2>2, <3>1, <3>3, SeqEqual
  <2> QED  BY <1>1, <2>2, <2>3 DEF c, F, T, Decoded
<1> QED  BY <1>7, <1>8

\* toString of a whole buffer takes all of it.
LEMMA WholeBuffer == ASSUME BufferInv, NEW b \in Buf
                     PROVE  /\ bytes[b] \in Seq(Octet)
                            /\ B!TextRange(bytes[b], 0, MaxSize) = bytes[b]
<1>1. bytes[b] \in Seq(Octet) /\ Len(bytes[b]) <= MaxSize
  BY DEF BufferInv
<1>2. Len(bytes[b]) \in Nat /\ MaxSize \in Nat
  BY <1>1, LenProperties, BufferBounds
<1>3. /\ B!Least(MaxSize, Len(bytes[b])) = Len(bytes[b]) /\ B!Most(0, 0) = 0
      /\ B!Least(0, Len(bytes[b])) = 0
  BY <1>1, <1>2 DEF B!Least, B!Most
<1>4. SubSeq(bytes[b], 0 + 1, Len(bytes[b])) = bytes[b]
  <2>1. 0 + 1 = 1
    OBVIOUS
  <2> QED  BY <1>1, <2>1, SubSeqFull
<1> QED  BY <1>1, <1>3, <1>4, Zenon DEF B!TextRange, B!Bytes

LEMMA Halves ==
    ASSUME NEW i \in Int
    PROVE  /\ (2 * i - 1) % 2 = 1 /\ ((2 * i - 1) + 1) \div 2 = i
           /\ (2 * i) % 2 # 1 /\ (2 * i) \div 2 = i
OBVIOUS

LEMMA HalfOf ==
    ASSUME NEW n \in Nat, NEW i \in 1..2 * n
    PROVE  /\ i % 2 = 1 => (i + 1) \div 2 \in 1..n
           /\ i % 2 # 1 => i \div 2 \in 1..n
<1>1. i \in Int /\ 1 <= i /\ i <= 2 * n
  OBVIOUS
<1>2. i = 2 * (i \div 2) + (i % 2) /\ i % 2 \in {0, 1} /\ i \div 2 \in Int
  BY <1>1
<1>3. (i + 1) = 2 * ((i + 1) \div 2) + ((i + 1) % 2) /\ (i + 1) % 2 \in {0, 1}
      /\ (i + 1) \div 2 \in Int
  BY <1>1
<1> QED  BY <1>1, <1>2, <1>3

LEMMA HexKept == ASSUME BufferInv
                 PROVE  B!HexComesBack
<1> SUFFICES ASSUME NEW b \in Buf
             PROVE  B!fromHex(B!bufferToString(bytes[b], "hex", 0, MaxSize)) = bytes[b]
  BY DEF B!HexComesBack
<1> DEFINE s == bytes[b]
           text == B!hexText(s)
<1>1. s \in Seq(Octet) /\ B!bufferToString(s, "hex", 0, MaxSize) = text
  BY WholeBuffer DEF B!bufferToString
<1>2. Len(s) \in Nat /\ DOMAIN s = 1..Len(s)
  BY <1>1, LenProperties
<1> HIDE DEF s
<1>3. ASSUME NEW i \in 1..2 * Len(s)
      PROVE  (IF i % 2 = 1 THEN s[(i + 1) \div 2] \div 16 ELSE s[i \div 2] % 16) \in 0..15
  <2>1. \A k \in 1..Len(s) : s[k] \in 0..255
    <3> TAKE k \in 1..Len(s)
    <3>1. s[k] \in Octet
      BY <1>1, ElementOfSeq
    <3> QED  BY <3>1 DEF Octet
  <2>2. \A n \in 0..255 : n \div 16 \in 0..15 /\ n % 16 \in 0..15
    OBVIOUS
  <2>3. CASE i % 2 = 1
    <3>1. (i + 1) \div 2 \in 1..Len(s)
      BY <1>2, <2>3, HalfOf
    <3> QED  BY <2>1, <2>2, <2>3, <3>1
  <2>4. CASE i % 2 # 1
    <3>1. i \div 2 \in 1..Len(s)
      BY <1>2, <2>4, HalfOf
    <3> QED  BY <2>1, <2>2, <2>4, <3>1
  <2> QED  BY <2>3, <2>4
<1>4. text \in [1..2 * Len(s) -> 0..15]
  BY <1>3 DEF B!hexText
<1>5. Len(text) = 2 * Len(s) /\ (2 * Len(s)) \div 2 = Len(s)
  <2>1. 2 * Len(s) \in Nat /\ (2 * Len(s)) \div 2 = Len(s)
    <3>1. Len(s) \in Int /\ 2 * Len(s) \in Nat
      BY <1>2
    <3> QED  BY <3>1, Halves, Zenon
  <2> HIDE DEF text
  <2> QED  BY <1>4, <2>1, SeqOfFunction
<1>6. ASSUME NEW i \in 1..Len(s)
      PROVE  /\ text[2 * i - 1] = s[i] \div 16 /\ text[2 * i] = s[i] % 16
             /\ text[2 * i - 1] # 16 /\ text[2 * i] # 16
             /\ 16 * (s[i] \div 16) + (s[i] % 16) = s[i]
  <2> HIDE DEF text
  <2>1. /\ 2 * i - 1 \in 1..2 * Len(s) /\ 2 * i \in 1..2 * Len(s)
        /\ (2 * i - 1) % 2 = 1 /\ ((2 * i - 1) + 1) \div 2 = i
        /\ (2 * i) % 2 # 1 /\ (2 * i) \div 2 = i
    <3>1. i \in Nat /\ i >= 1 /\ i <= Len(s)
      BY <1>2
    <3> QED  BY <1>2, <3>1, Halves
  <2>2. text[2 * i - 1] = s[i] \div 16 /\ text[2 * i] = s[i] % 16
    <3>1. \A k \in 1..2 * Len(s) :
              text[k] = IF k % 2 = 1 THEN s[(k + 1) \div 2] \div 16 ELSE s[k \div 2] % 16
      BY DEF text, B!hexText
    <3> QED  BY <2>1, <3>1
  <2>3. text[2 * i - 1] \in 0..15 /\ text[2 * i] \in 0..15
    BY <1>4, <2>1
  <2>4. s[i] \in Octet
    BY <1>1, ElementOfSeq
  <2>5. \A n \in Int : 16 * (n \div 16) + (n % 16) = n
    OBVIOUS
  <2>6. 16 * (s[i] \div 16) + (s[i] % 16) = s[i]
    BY <2>4, <2>5, OctetKinds
  <2>7. text[2 * i - 1] # 16 /\ text[2 * i] # 16
    <3>1. \A n \in 0..15 : n # 16
      OBVIOUS
    <3> QED  BY <2>3, <3>1, Zenon
  <2> QED  BY <2>2, <2>6, <2>7, Zenon
<1> HIDE DEF text
<1>7. B!fromHex(text) = [i \in 1..Len(s) |->
          IF text[2 * i - 1] = 16 THEN 0
          ELSE IF text[2 * i] = 16 THEN text[2 * i - 1]
          ELSE 16 * text[2 * i - 1] + text[2 * i]]
  BY <1>5, Zenon DEF B!fromHex
<1>8. B!fromHex(text) = [i \in 1..Len(s) |-> s[i]]
  BY <1>6, <1>7
<1>9. s = [i \in 1..Len(s) |-> s[i]]
  BY <1>1, LenProperties
<1> QED  BY <1>1, <1>8, <1>9 DEF s

LEMMA TextKept == ASSUME BufferInv
                  PROVE  B!TextComesBack
<1> SUFFICES ASSUME NEW b \in Buf
             PROVE  B!fromUtf8(B!bufferToString(bytes[b], "utf8", 0, MaxSize)) = bytes[b]
                        <=> \A k \in DOMAIN bytes[b] :
                               bytes[b][k] # 0 /\ B!InCharacter(bytes[b], k)
  BY Zenon DEF B!TextComesBack
<1> DEFINE s == bytes[b]
           c == B!UntilZero(s)
           F == B!utf8Text(s)
<1>1. s \in Seq(Octet) /\ B!bufferToString(s, "utf8", 0, MaxSize) = F
  BY WholeBuffer DEF B!bufferToString
<1>2. Len(s) \in Nat /\ DOMAIN s = 1..Len(s)
  BY <1>1, LenProperties
<1>3. Decoded(F, c)
  BY <1>1, Utf8Text
<1> HIDE DEF s
<1>4. (\A k \in 1..Len(s) : s[k] # 0) => c = s
  <2>1. Octet \subseteq Int
    BY DEF Octet
  <2> QED  BY <1>1, <2>1, UntilZeroShape
<1> HIDE DEF c, F
<1>5. F \in Seq(Octet \ {0}) /\ \A k \in 1..Len(F) : F[k] # 0
  <2>1. F \in Seq(Octet \ {0})
    BY <1>3 DEF Decoded
  <2>2. \A k \in 1..Len(F) : F[k] \in Octet \ {0}
    BY <2>1, ElementOfSeq
  <2> QED  BY <2>1, <2>2
<1>6. B!fromUtf8(F) = F
  <2>1. Octet \ {0} \subseteq Int
    BY DEF Octet
  <2>2. B!UntilZero(F) = F
    BY <1>5, <2>1, UntilZeroShape
  <2> QED  BY <2>2 DEF B!fromUtf8
<1>7. ASSUME \A k \in 1..Len(s) : s[k] # 0 /\ B!InCharacter(s, k)
      PROVE  F = s
  BY <1>3, <1>4, <1>7, Zenon DEF Decoded
<1>8. ASSUME F = s
      PROVE  \A k \in 1..Len(s) : s[k] # 0 /\ B!InCharacter(s, k)
  <2>1. \A k \in 1..Len(s) : s[k] # 0
    BY <1>5, <1>8
  <2>2. c = s
    BY <1>4, <2>1
  <2> TAKE k \in 1..Len(s)
  <2>3. ~ B!InCharacter(s, k) => Len(s) > Len(s)
    BY <1>3, <1>8, <2>2, Zenon DEF Decoded
  <2> QED  BY <1>2, <2>1, <2>3
<1> QED  BY <1>1, <1>2, <1>6, <1>7, <1>8, Zenon DEF s

LEMMA SliceKept == ASSUME BufferInv
                   PROVE  B!SliceIsTheRange
<1> SUFFICES ASSUME NEW b \in Buf, NEW start \in Position, NEW end \in Position
             PROVE  LET s == bytes[b]
                        first == B!Most(At(start, Len(s)), 0)
                        range == {i \in 0 .. Len(s) - 1 :
                                    At(start, Len(s)) <= i /\ i < At(end, Len(s))}
                        slice == B!Slice(s, start, end) IN
                    /\ \A i \in range : \E j \in DOMAIN slice :
                           slice[j] = s[i + 1] /\ j - 1 = i - first
                    /\ \A j \in DOMAIN slice : first + j - 1 \in range
  BY Zenon DEF B!SliceIsTheRange, At
<1> DEFINE s == bytes[b]
           p == At(start, Len(s))
           q == At(end, Len(s))
           first == B!Most(p, 0)
           e == B!Least(q, Len(s))
           range == {i \in 0 .. Len(s) - 1 : p <= i /\ i < q}
           slice == B!Slice(s, start, end)
<1>1. s \in Seq(Octet) /\ Len(s) \in Nat /\ start \in Int /\ end \in Int
  <2>1. s \in Seq(Octet)
    BY DEF BufferInv
  <2> QED  BY <2>1, LenProperties, BufferBounds
<1>2. /\ slice \in Seq(Octet)
      /\ Len(slice) = IF first < e THEN e - first ELSE 0
      /\ \A i \in 1..e - first : slice[i] = s[first + i]
  BY <1>1, SliceShape
<1>3. DOMAIN slice = 1..Len(slice)
  BY <1>2, LenProperties
<1>4. /\ first \in Int /\ e \in Int /\ p \in Int /\ q \in Int
      /\ first = IF p > 0 THEN p ELSE 0
      /\ e = IF q < Len(s) THEN q ELSE Len(s)
  BY <1>1 DEF At, B!Most, B!Least
<1> HIDE DEF s, p, q, first, e, slice
<1>5. ASSUME NEW i \in range
      PROVE  \E j \in DOMAIN slice : slice[j] = s[i + 1] /\ j - 1 = i - first
  <2>1. i \in Int /\ 0 <= i /\ i < Len(s) /\ p <= i /\ i < q
    BY <1>1, <1>4
  <2>2. first <= i /\ i < e /\ first < e
    BY <1>1, <1>4, <2>1
  <2>3. /\ (i - first) + 1 \in 1..e - first /\ (i - first) + 1 \in 1..Len(slice)
        /\ first + ((i - first) + 1) = i + 1 /\ ((i - first) + 1) - 1 = i - first
    BY <1>2, <1>4, <2>1, <2>2
  <2>4. slice[(i - first) + 1] = s[i + 1]
    BY <1>2, <2>3
  <2> QED  BY <1>3, <2>3, <2>4
<1>6. ASSUME NEW j \in 1..Len(slice)
      PROVE  first + j - 1 \in range
  <2>1. first < e /\ j \in Int /\ 1 <= j /\ j <= e - first
    <3>1. Len(slice) = IF first < e THEN e - first ELSE 0
      BY <1>2
    <3> QED  BY <1>4, <3>1
  <2>2. /\ first + j - 1 \in Int
        /\ first <= first + j - 1 /\ first + j - 1 < e
    BY <1>4, <2>1
  <2>3. first + j - 1 \in 0 .. Len(s) - 1 /\ p <= first + j - 1 /\ first + j - 1 < q
    BY <1>1, <1>4, <2>2
  <2> QED  BY <2>3
<1>7. \A j \in DOMAIN slice : first + j - 1 \in range
  BY <1>3, <1>6, Zenon
<1> QED  BY <1>5, <1>7 DEF s, p, q, first, slice

LEMMA CopyKept == ASSUME BufferInv
                  PROVE  B!CopyFits
<1> SUFFICES ASSUME NEW b \in Buf, NEW c \in Buf,
                    NEW t \in Position, NEW f \in Position, NEW e \in Position,
                    t \in 0 .. Len(bytes[c])
             PROVE  LET n == B!CopyLen(bytes[b], bytes[c], t, f, e) IN
                    /\ n >= 0 /\ t + n <= Len(bytes[c])
                    /\ n > 0 => f + n <= Len(bytes[b]) /\ f + n <= e
                    /\ (n < e - f /\ f >= 0) =>
                           t + n = Len(bytes[c]) \/ f + n >= Len(bytes[b])
  BY Zenon DEF B!CopyFits
<1> DEFINE n == B!CopyLen(bytes[b], bytes[c], t, f, e)
<1>1. /\ bytes[b] \in Seq(Octet) /\ bytes[c] \in Seq(Octet)
      /\ t \in Int /\ f \in Int /\ e \in Int
  BY BufferBounds DEF BufferInv
<1>2. Len(bytes[c]) < SizeMod
  <2>1. Len(bytes[c]) \in Nat /\ Len(bytes[c]) <= MaxSize
    BY <1>1, LenProperties DEF BufferInv
  <2> QED  BY <2>1, BufferBounds
<1>3. /\ n \in Nat
      /\ t \in 0..Len(bytes[c]) => t + n <= Len(bytes[c])
      /\ n > 0 => t >= 0 /\ f >= 0 /\ f + n <= Len(bytes[b]) /\ f + n <= e
      /\ t \in 0..Len(bytes[c]) /\ n < e - f /\ f >= 0
            => t + n = Len(bytes[c]) \/ f + n >= Len(bytes[b])
  BY <1>1, <1>2, CopyShape
<1> HIDE DEF n
<1>4. n >= 0
  BY <1>3
<1> QED  BY <1>3, <1>4, Zenon DEF n

LEMMA IndexKept == ASSUME BufferInv
                   PROVE  B!IndexOfFinds
<1> SUFFICES ASSUME NEW b \in Buf, NEW start \in 0..MaxSize, NEW end \in 0..MaxSize
             PROVE  LET s == bytes[b]
                        piece == B!Bytes(s, start, B!Least(end, Len(s)))
                        at == B!bufferIndexOf(s, piece, 0) IN
                    piece # << >> =>
                        /\ at \in 0..start
                        /\ B!Bytes(s, at, at + Len(piece)) = piece
                        /\ B!bufferIncludes(s, piece)
  BY Zenon DEF B!IndexOfFinds
<1> DEFINE s == bytes[b]
           hi == B!Least(end, Len(s))
           piece == B!Bytes(s, start, hi)
           at == B!bufferIndexOf(s, piece, 0)
           match == {i \in 0 .. Len(s) - Len(piece) :
                       \A j \in DOMAIN piece : s[i + j] = piece[j]}
<1>1. /\ s \in Seq(Octet) /\ Len(s) \in Nat /\ start \in Nat /\ end \in Nat
  <2>1. s \in Seq(Octet)
    BY DEF BufferInv
  <2> QED  BY <2>1, LenProperties, BufferBounds
<1> HIDE DEF s
<1>2. hi \in Int /\ hi <= Len(s)
  BY <1>1 DEF B!Least
<1> HIDE DEF hi
<1>3. /\ piece \in Seq(Octet)
      /\ Len(piece) = IF start < hi THEN hi - start ELSE 0
      /\ \A i \in 1..hi - start : piece[i] = s[start + i]
  <2>1. start \in Int /\ (start >= 0 \/ hi <= start)
    BY <1>1
  <2> QED  BY <1>1, <1>2, <2>1, RangeOfBytes, Zenon
<1> HIDE DEF piece
<1>4. Len(piece) \in Nat /\ DOMAIN piece = 1..Len(piece)
  BY <1>3, LenProperties
<1> SUFFICES ASSUME piece # << >>
             PROVE  /\ at \in 0..start
                    /\ B!Bytes(s, at, at + Len(piece)) = piece
                    /\ B!bufferIncludes(s, piece)
  BY DEF s, piece, hi
<1>5. start < hi /\ Len(piece) = hi - start
  <2>1. Len(piece) # 0
    BY <1>3, EmptySeq
  <2> QED  BY <1>3, <2>1
<1>6. start \in match
  <2>1. start \in 0 .. Len(s) - Len(piece)
    BY <1>1, <1>2, <1>4, <1>5
  <2>2. \A j \in 1..Len(piece) : s[start + j] = piece[j]
    BY <1>3, <1>5
  <2> QED  BY <1>4, <2>1, <2>2
<1>7. /\ match \subseteq Nat
      /\ \A i \in match : /\ i + Len(piece) <= Len(s)
                          /\ \A j \in 1..Len(piece) : s[i + j] = piece[j]
  <2>1. \A i \in match : /\ i \in 0 .. Len(s) - Len(piece)
                          /\ \A j \in 1..Len(piece) : s[i + j] = piece[j]
    BY <1>4, Zenon
  <2>2. \A i \in match : i \in Nat /\ i + Len(piece) <= Len(s)
    <3> HIDE DEF match
    <3> QED  BY <1>1, <1>4, <2>1
  <2> QED  BY <2>1, <2>2
<1>8. at = CHOOSE i \in match : \A k \in match : i <= k
  <2>1. B!Most(IF 0 < 0 THEN 0 + Len(s) ELSE 0, 0) = 0 /\ ~ (0 >= Len(s))
    BY <1>1, <1>2, <1>5 DEF B!Most
  <2>2. ~ (match = {})
    BY <1>6
  <2>3. ~ (piece = << >>)
    OBVIOUS
  <2>4. at = LET from == B!Most(IF 0 < 0 THEN 0 + Len(s) ELSE 0, 0)
                 m == {i \in from .. Len(s) - Len(piece) :
                         \A j \in DOMAIN piece : s[i + j] = piece[j]}
             IN IF piece = << >> \/ from >= Len(s) \/ m = {} THEN -1
                ELSE CHOOSE i \in m : \A k \in m : i <= k
    BY Zenon DEF B!bufferIndexOf
  <2>5. at = IF piece = << >> \/ 0 >= Len(s) \/ match = {} THEN -1
             ELSE CHOOSE i \in match : \A k \in match : i <= k
    BY <2>1, <2>4, Zenon
  <2> QED  BY <2>1, <2>2, <2>3, <2>5, Zenon
<1> HIDE DEF match
<1>9. at \in match /\ \A k \in match : at <= k
  <2>1. \E i \in match : \A k \in match : i <= k
    BY <1>6, <1>7, Smallest, Zenon
  <2> QED  BY <1>8, <2>1, Zenon
<1> HIDE DEF at
<1>10. at \in Nat /\ at <= start /\ at + Len(piece) <= Len(s)
  BY <1>6, <1>7, <1>9
<1>11. B!Bytes(s, at, at + Len(piece)) = piece
  <2>1. /\ B!Bytes(s, at, at + Len(piece)) \in Seq(Octet)
        /\ Len(B!Bytes(s, at, at + Len(piece)))
               = IF at < at + Len(piece) THEN (at + Len(piece)) - at ELSE 0
        /\ \A i \in 1..(at + Len(piece)) - at :
               B!Bytes(s, at, at + Len(piece))[i] = s[at + i]
    <3>1. at \in Int /\ at + Len(piece) \in Int /\ at >= 0
      BY <1>4, <1>10
    <3> QED  BY <1>1, <1>10, <3>1, RangeOfBytes, Zenon
  <2>2. (at + Len(piece)) - at = Len(piece) /\ at < at + Len(piece)
    BY <1>1, <1>2, <1>4, <1>5, <1>10
  <2>3. \A j \in 1..Len(piece) : s[at + j] = piece[j]
    BY <1>7, <1>9, Zenon
  <2> DEFINE u == B!Bytes(s, at, at + Len(piece))
  <2>4. u \in Seq(Octet) /\ Len(u) = Len(piece) /\ \A i \in 1..Len(piece) : u[i] = piece[i]
    <3> HIDE DEF u
    <3> QED  BY <2>1, <2>2, <2>3, Zenon DEF u
  <2> HIDE DEF u
  <2>5. u = piece
    BY <1>3, <2>4, SeqEqual
  <2> QED  BY <2>5 DEF u
<1>12. B!bufferIncludes(s, piece)
  <2>1. at >= 0
    BY <1>10
  <2> QED  BY <2>1, Zenon DEF B!bufferIncludes, at
<1>13. at \in 0..start
  BY <1>1, <1>10
<1> QED  BY <1>11, <1>12, <1>13

LEMMA BufferSafe == ASSUME BufferInv
                    PROVE  B!Safety
<1>1. B!BeyondNeedsLateStart
  BY DEF BufferInv
<1> QED  BY <1>1, SliceKept, CopyKept, HexKept, TextKept, IndexKept, Zenon DEF B!Safety

\* The bytes that a call puts into a buffer.
LEMMA NewBytes ==
    /\ \A s \in B!Contents : s \in Seq(Octet)
    /\ \A n \in Number, m \in Number :
          [i \in DOMAIN <<n, m>> |-> <<n, m>>[i] % 256] \in Seq(Octet)
    /\ \A n \in Number, k \in 0..MaxSize : [i \in 1..k |-> n % 256] \in Seq(Octet)
    /\ \A x, y \in B!Letter : B!fromUtf8(x \o y) \in Seq(Octet)
    /\ \A h, l \in {0, 12, 16} : B!fromHex(<<h, l, 1>>) \in Seq(Octet)
<1>1. ASSUME NEW s \in B!Contents
      PROVE  s \in Seq(Octet)
  <2>1. PICK n \in 0..MaxSize : s \in [1..n -> B!Byte]
    BY Zenon DEF B!Contents
  <2>2. n \in Nat
    BY BufferBounds
  <2>3. \A x \in B!Byte : x \in Octet
    BY BufferBounds DEF B!Byte
  <2>4. s \in [1..n -> Octet]
    BY <2>1, <2>3
  <2> QED  BY <2>2, <2>4, SeqOfFunction
<1>2. ASSUME NEW n \in Number, NEW m \in Number
      PROVE  [i \in DOMAIN <<n, m>> |-> <<n, m>>[i] % 256] \in Seq(Octet)
  <2>1. DOMAIN <<n, m>> = 1..2 /\ <<n, m>>[1] = n /\ <<n, m>>[2] = m
    OBVIOUS
  <2>2. \A i \in 1..2 : i = 1 \/ i = 2
    OBVIOUS
  <2>3. n % 256 \in Octet /\ m % 256 \in Octet
    BY BufferBounds
  <2>4. \A i \in 1..2 : <<n, m>>[i] % 256 \in Octet
    BY <2>1, <2>2, <2>3, Zenon
  <2> DEFINE s == [i \in 1..2 |-> <<n, m>>[i] % 256]
  <2>5. s \in [1..2 -> Octet]
    BY <2>4, Zenon
  <2> HIDE DEF s
  <2>6. s \in Seq(Octet)
    <3>1. 2 \in Nat
      OBVIOUS
    <3> QED  BY <2>5, <3>1, SeqOfFunction, Zenon
  <2> QED  BY <2>1, <2>6, Zenon DEF s
<1>3. ASSUME NEW n \in Number, NEW k \in 0..MaxSize
      PROVE  [i \in 1..k |-> n % 256] \in Seq(Octet)
  <2>1. n % 256 \in Octet /\ k \in Nat
    BY BufferBounds
  <2>2. [i \in 1..k |-> n % 256] \in [1..k -> Octet]
    BY <2>1
  <2> QED  BY <2>1, <2>2, SeqOfFunction, Zenon
<1>4. ASSUME NEW x \in B!Letter, NEW y \in B!Letter
      PROVE  B!fromUtf8(x \o y) \in Seq(Octet)
  <2>1. 0 \in Octet /\ 66 \in Octet /\ 195 \in Octet /\ 169 \in Octet
    BY DEF Octet
  <2>2. Octet \subseteq Int
    BY DEF Octet
  <2>3. <<0>> \in Seq(Octet) /\ <<66>> \in Seq(Octet) /\ <<195, 169>> \in Seq(Octet)
    BY <2>1
  <2>4. x \in Seq(Octet) /\ y \in Seq(Octet)
    BY <2>3, Zenon DEF B!Letter
  <2>5. x \o y \in Seq(Octet)
    BY <2>4, ConcatProperties, Zenon
  <2> QED  BY <2>2, <2>5, UntilZeroShape, Zenon DEF B!fromUtf8
<1>5. ASSUME NEW h \in {0, 12, 16}, NEW l \in {0, 12, 16}
      PROVE  B!fromHex(<<h, l, 1>>) \in Seq(Octet)
  <2> DEFINE byte == IF h = 16 THEN 0 ELSE IF l = 16 THEN h ELSE 16 * h + l
             text == <<h, l, 1>>
             s == B!fromHex(text)
  <2>1. byte \in Octet
    BY DEF Octet
  <2> HIDE DEF byte
  <2>2. 1..Len(text) \div 2 = 1..1 /\ text[1] = h /\ text[2] = l
    OBVIOUS
  <2> HIDE DEF text
  <2>3. s = [i \in 1..1 |-> IF text[2 * i - 1] = 16 THEN 0
                            ELSE IF text[2 * i] = 16 THEN text[2 * i - 1]
                            ELSE 16 * text[2 * i - 1] + text[2 * i]]
    BY <2>2, Zenon DEF B!fromHex
  <2>4. \A i \in 1..1 : 2 * i - 1 = 1 /\ 2 * i = 2
    OBVIOUS
  <2>5. \A i \in 1..1 : (IF text[2 * i - 1] = 16 THEN 0
                         ELSE IF text[2 * i] = 16 THEN text[2 * i - 1]
                         ELSE 16 * text[2 * i - 1] + text[2 * i]) = byte
    BY <2>2, <2>4, Zenon DEF byte
  <2>6. s \in [1..1 -> Octet]
    BY <2>1, <2>3, <2>5, Zenon
  <2> HIDE DEF s
  <2>7. s \in Seq(Octet)
    <3>1. 1 \in Nat
      OBVIOUS
    <3> QED  BY <2>6, <3>1, SeqOfFunction, Zenon
  <2> QED  BY <2>7, Zenon DEF s, text
<1> QED  BY <1>1, <1>2, <1>3, <1>4, <1>5

LEMMA FilledBytes ==
    ASSUME NEW s \in Seq(Octet), NEW n \in Number,
           NEW start \in Position, NEW end \in Position
    PROVE  B!Fill(s, n, start, end) \in Seq(Octet)
<1> DEFINE e == B!Least(end, Len(s))
           from == B!Least(B!Most(start, 0), e)
           fill == [i \in 1..Len(s) |-> IF i \in from + 1 .. e THEN n % 256 ELSE s[i]]
<1>1. Len(s) \in Nat /\ DOMAIN s = 1..Len(s)
  BY LenProperties
<1>2. B!Fill(s, n, start, end) = fill
  BY <1>1, Zenon DEF B!Fill
<1>3. n % 256 \in Octet /\ \A i \in 1..Len(s) : s[i] \in Octet
  BY BufferBounds, ElementOfSeq
<1> HIDE DEF e, from
<1>4. fill \in [1..Len(s) -> Octet]
  BY <1>3, Zenon
<1> HIDE DEF fill
<1>5. fill \in Seq(Octet)
  BY <1>1, <1>4, SeqOfFunction, Zenon
<1> QED  BY <1>2, <1>5, Zenon


LEMMA BufferStutter == ASSUME BufferInv, UNCHANGED bufferVars
                       PROVE  BufferInv'
<1>1. bytes' = bytes /\ bufferFate' = bufferFate
  BY DEF bufferVars
<1> QED  BY <1>1, Zenon DEF BufferInv, B!BeyondNeedsLateStart

LEMMA BufferStep == ASSUME BufferInv, [Next]_vars
                    PROVE  BufferInv'
<1>1. CASE B!Next
  <2> PICK b \in Buf, c \in Buf :
         \/ \E s \in B!Contents : B!BufferConstructorSize(b, s)
         \/ \E n, m \in Number : B!BufferConstructorArray(b, <<n, m>>)
         \/ \E x, y \in B!Letter : B!BufferConstructorText(b, x \o y)
         \/ \E h, l \in {0, 12, 16} : B!BufferConstructorHex(b, <<h, l, 1>>)
         \/ \E n \in Number, k \in 0..MaxSize : B!bufferAlloc(b, k, n)
         \/ B!bufferConcat(b, b, c)
         \/ \E start, end \in Position :
             \/ B!bufferSlice(b, c, start, end)
             \/ \E n \in Number : B!bufferFill(b, n, start, end)
             \/ \E targetStart \in Position :
                    B!bufferCopy(b, c, targetStart, start, end)
    BY <1>1, Zenon DEF B!Next
  <2> DEFINE Stored == \E s \in Seq(Octet) : B!Holds(b, s)
  <2>0. Stored => BufferInv'
    BY BufferHolds, Zenon
  <2>1. ASSUME NEW s \in B!Contents, B!BufferConstructorSize(b, s)
        PROVE  Stored
    BY <2>1, NewBytes, Zenon DEF B!BufferConstructorSize
  <2>2. ASSUME NEW n \in Number, NEW m \in Number, B!BufferConstructorArray(b, <<n, m>>)
        PROVE  Stored
    BY <2>2, NewBytes, Zenon DEF B!BufferConstructorArray
  <2>3. ASSUME NEW x \in B!Letter, NEW y \in B!Letter, B!BufferConstructorText(b, x \o y)
        PROVE  Stored
    BY <2>3, NewBytes, Zenon DEF B!BufferConstructorText
  <2>4. ASSUME NEW h \in {0, 12, 16}, NEW l \in {0, 12, 16},
               B!BufferConstructorHex(b, <<h, l, 1>>)
        PROVE  Stored
    BY <2>4, NewBytes, Zenon DEF B!BufferConstructorHex
  <2>5. ASSUME NEW n \in Number, NEW k \in 0..MaxSize, B!bufferAlloc(b, k, n)
        PROVE  Stored
    BY <2>5, NewBytes, Zenon DEF B!bufferAlloc
  <2>6. bytes[b] \in Seq(Octet) /\ bytes[c] \in Seq(Octet)
    BY DEF BufferInv
  <2>7. ASSUME B!bufferConcat(b, b, c)
        PROVE  Stored
    <3>1. bytes[b] \o bytes[c] \in Seq(Octet)
      BY <2>6, ConcatProperties, Zenon
    <3> QED  BY <2>7, <3>1, Zenon DEF B!bufferConcat
  <2>8. ASSUME NEW start \in Position, NEW end \in Position, B!bufferSlice(b, c, start, end)
        PROVE  Stored
    <3>1. B!Slice(bytes[c], start, end) \in Seq(Octet)
      <4>1. start \in Int /\ end \in Int
        BY BufferBounds
      <4> QED  BY <2>6, <4>1, SliceShape
    <3> QED  BY <2>8, <3>1, Zenon DEF B!bufferSlice
  <2>9. ASSUME NEW start \in Position, NEW end \in Position, NEW n \in Number,
               B!bufferFill(b, n, start, end)
        PROVE  Stored
    <3>1. B!Fill(bytes[b], n, start, end) \in Seq(Octet)
      BY <2>6, FilledBytes, Zenon
    <3> QED  BY <2>9, <3>1, Zenon DEF B!bufferFill
  <2>10. ASSUME NEW start \in Position, NEW end \in Position, NEW targetStart \in Position,
                B!bufferCopy(b, c, targetStart, start, end)
         PROVE  BufferInv'
    BY <2>10, BufferCopies, Zenon
  <2> QED  BY <2>0, <2>1, <2>2, <2>3, <2>4, <2>5, <2>7, <2>8, <2>9, <2>10, Zenon
<1>2. CASE UNCHANGED bufferVars
  BY <1>2, BufferStutter
<1>3. CASE UNCHANGED vars
  BY <1>3, BufferStutter DEF vars
<1> QED  BY <1>1, <1>2, <1>3, Zenon DEF Next

\* BufferSafety (MCLibraries) for any buffers, bytes, positions and sizes: the
\* index arithmetic of slice, copy and indexOf stays in the buffers, a hexadecimal
\* text gives its buffer back, and a utf8 text gives back exactly what holds
\* characters and no zero byte.
THEOREM BuffersBounded == Spec => []BufferSafety
<1>1. Init => BufferInv
  BY BufferStart
<1>2. BufferInv /\ [Next]_vars => BufferInv'
  BY BufferStep
<1>3. BufferInv => BufferSafety
  BY BufferSafe DEF BufferSafety
<1> QED  BY <1>1, <1>2, <1>3, PTL DEF Spec

-----------------------------------------------------------------------------
(* Types                                                                   *)

LEMMA BufferTypes == ASSUME BufferInv
                     PROVE  B!TypeOK
<1>1. ASSUME NEW b \in Buf
      PROVE  Len(bytes[b]) <= MaxSize /\ \A i \in DOMAIN bytes[b] : bytes[b][i] \in 0..255
  <2>1. bytes[b] \in Seq(Octet) /\ Len(bytes[b]) <= MaxSize
    BY DEF BufferInv
  <2>2. \A i \in 1..Len(bytes[b]) : bytes[b][i] \in Octet
    BY <2>1, ElementOfSeq
  <2>3. DOMAIN bytes[b] = 1..Len(bytes[b])
    BY <2>1, LenProperties
  <2>4. \A n \in Octet : n \in 0..255
    BY DEF Octet
  <2> QED  BY <2>1, <2>2, <2>3, <2>4, Zenon
<1>2. bufferFate \in {"fine", "beyond", "overlap"}
  BY DEF BufferInv
<1> QED  BY <1>1, <1>2, Zenon DEF B!TypeOK

LEMMA ResolverTypesStart == ASSUME R!Start
                            PROVE  R!TypeOK
BY DEF R!Start, R!TypeOK, R!Coherent

LEMMA ResolverTypes == ASSUME R!TypeOK, [Next]_vars
                       PROVE  R!TypeOK'
<1>1. R!Next \/ UNCHANGED resolverVars
  BY DEF Next, vars
<1>2. CASE UNCHANGED resolverVars
  BY <1>2 DEF resolverVars, R!TypeOK, R!Coherent
<1> DEFINE Candidates == {<<"file", "">>, <<"ext", ".node">>, <<"index", ".mjs">>}
<1>3. ASSUME NEW c \in Candidates, R!PlaceChanges(c)
      PROVE  R!TypeOK'
  <2>1. /\ place' = (IF c \in place THEN place \ {c} ELSE place \cup {c})
        /\ R!Coherent(place') /\ json' = json /\ entries' = entries
    BY <1>3 DEF R!PlaceChanges, R!Toggle
  <2>2. place \subseteq Candidates
    BY DEF R!TypeOK
  <2> HIDE DEF Candidates
  <2>3. place' \subseteq Candidates
    BY <2>1, <2>2
  <2> QED  BY <2>1, <2>3, Zenon DEF R!TypeOK, Candidates
<1>4. ASSUME NEW l \in R!Level, NEW n \in R!Name, NEW e \in R!EntryPoint,
             NEW c \in Candidates, R!EntryChanges(l, n, e, c)
      PROVE  R!TypeOK'
  <2> DEFINE x == <<l, n, e, c>>
             Entries == R!Level \X R!Name \X R!EntryPoint \X Candidates
  <2>1. /\ entries' = (IF x \in entries THEN entries \ {x} ELSE entries \cup {x})
        /\ place' = place /\ json' = json
    BY <1>4 DEF R!EntryChanges, R!Toggle
  <2>2. x \in Entries /\ entries \subseteq Entries
    BY DEF R!TypeOK
  <2> HIDE DEF x, Entries
  <2>3. entries' \subseteq Entries
    BY <2>1, <2>2
  <2> QED  BY <2>1, <2>3, Zenon DEF R!TypeOK, R!Coherent, Entries
<1>5. ASSUME NEW l \in R!Level, NEW n \in R!Name,
             NEW fields \in R!Fields \cup {R!NoJson}, R!JsonChanges(l, n, fields)
      PROVE  R!TypeOK'
  <2>1. /\ json' = [json EXCEPT ![<<l, n>>] = fields]
        /\ place' = place /\ entries' = entries
    BY <1>5 DEF R!JsonChanges
  <2>2. json' \in [R!Level \X R!Name -> R!Fields \cup {R!NoJson}]
    BY <2>1 DEF R!TypeOK
  <2> QED  BY <2>1, <2>2, Zenon DEF R!TypeOK, R!Coherent
<1> QED  BY <1>1, <1>2, <1>3, <1>4, <1>5, Zenon DEF R!Next

\* The threads that have called the bridge and do not have the lock yet.
Pending == {t \in Thread : stack[t] # << >> /\ t # mapMutex}

\* Every call takes at most one reference, and takes it only once it has the
\* lock; the objects that the outer calls name are protoCore's.
BridgeCounts ==
    /\ IsFiniteSet(Pending) /\ calls \in 0..MaxBridgeCalls /\ wrapped \in BOOLEAN
    /\ \A v \in Value : held[v] + Cardinality(Pending) <= calls
    /\ \A t \in Pending : Head(stack[t]).proto \in Proto
    /\ reverse \subseteq Proto

\* A pending thread leaves the bridge or gets the lock.
LEMMA CallCounts ==
    ASSUME BridgeInv, BridgeCounts, NEW t \in Pending,
           UNCHANGED <<wrapped, calls>>,
           \A u \in Thread : u # t => stack'[u] = stack[u] /\ (u = mapMutex' <=> u = mapMutex),
           stack'[t] = << >> \/ mapMutex' = t,
           held' = held \/ \E v \in Value : held' = C!Stored(v),
           reverse' \subseteq Proto
    PROVE  BridgeCounts'
<1>1. Pending' = Pending \ {t}
  BY DEF Pending
<1>2. /\ IsFiniteSet(Pending) /\ Cardinality(Pending) \in Nat
      /\ IsFiniteSet(Pending') /\ Cardinality(Pending') = Cardinality(Pending) - 1
  BY <1>1, FS_RemoveElement, FS_CardinalityType DEF BridgeCounts
<1>3. ASSUME NEW v \in Value
      PROVE  held'[v] + Cardinality(Pending') <= calls'
  <2>1. held[v] \in Nat /\ held[v] + Cardinality(Pending) <= calls /\ calls \in Int
    BY DEF BridgeCounts, BridgeInv, BridgeTables
  <2>2. held'[v] \in {held[v], held[v] + 1}
    BY DEF C!Stored, BridgeInv, BridgeTables
  <2> QED  BY <1>2, <2>1, <2>2
<1>4. ASSUME NEW u \in Pending'
      PROVE  Head(stack'[u]).proto \in Proto
  <2>1. u \in Pending /\ u \in Thread /\ u # t
    BY <1>1 DEF Pending
  <2>2. stack'[u] = stack[u]
    BY <2>1
  <2> QED  BY <2>1, <2>2 DEF BridgeCounts
<1>5. IsFiniteSet(Pending') /\ calls' \in 0..MaxBridgeCalls /\ wrapped' \in BOOLEAN
  BY <1>2 DEF BridgeCounts
<1> HIDE DEF Pending
<1> QED  BY <1>3, <1>4, <1>5 DEF BridgeCounts

LEMMA BodyCounts ==
    ASSUME BridgeInv, BridgeCounts, NEW t \in Thread, NEW o, C!Locks(t, o),
           NEW inner, C!Ends(t, inner),
           held' = held \/ \E v \in Value : held' = C!Stored(v),
           reverse' \subseteq Proto
    PROVE  BridgeCounts'
<1>1. mapMutex = C!Nobody /\ t # mapMutex /\ stack[t] # << >>
  BY LockedStep DEF C!Locks
<1>2. t \in Pending
  BY <1>1 DEF Pending
<1>3. UNCHANGED <<wrapped, calls>>
  BY DEF C!Locks
<1>4. DOMAIN stack = Thread
  BY DEF BridgeInv, BridgeStacks
<1>5. /\ \A u \in Thread : u # t => stack'[u] = stack[u]
      /\ mapMutex' = IF stack'[t] = << >> THEN C!Nobody ELSE t
  BY <1>4 DEF C!Ends
<1>6. \A u \in Thread : u # t => (u = mapMutex' <=> u = mapMutex)
  BY <1>1, <1>5, LibraryAssumption
<1> QED  BY <1>2, <1>3, <1>5, <1>6, CallCounts

LEMMA StepCounts == ASSUME BridgeInv, BridgeCounts, NEW t \in Thread, C!BridgeStep(t)
                    PROVE  BridgeCounts'
<1>0. reverse \subseteq Proto
  BY DEF BridgeCounts
<1>1. CASE C!registerMapping(t)
  <2> DEFINE f == Head(stack[t])
             inner == <<C!Frame("registerRoot", f.js, f.proto)>>
  <2>1. /\ C!Locks(t, "registerMapping") /\ C!Ends(t, inner)
        /\ held' = C!Stored(f.js) /\ reverse' = reverse \cup {f.proto}
    BY <1>1 DEF C!registerMapping
  <2>2. f.js \in Value /\ t # mapMutex /\ stack[t] # << >>
    BY <2>1, LockedStep DEF C!Locks
  <2>3. f.proto \in Proto
    BY <2>2 DEF BridgeCounts, Pending
  <2> HIDE DEF f, inner
  <2> QED  BY <1>0, <2>1, <2>2, <2>3, BodyCounts
<1>2. CASE C!registerNothing(t)
  <2>1. /\ stack[t] # << >> /\ stack' = [stack EXCEPT ![t] = Tail(@)]
        /\ UNCHANGED <<mapMutex, forward, reverse, held, wrapped, calls>>
    BY <1>2 DEF C!registerNothing
  <2>2. /\ DOMAIN stack = Thread
        /\ IF t = mapMutex THEN Waits(stack[t]) ELSE Before(stack[t])
    BY DEF BridgeInv, BridgeStacks
  <2>3. stack'[t] = Tail(stack[t]) /\ \A u \in Thread : u # t => stack'[u] = stack[u]
    BY <2>1, <2>2
  <2>4. CASE t = mapMutex
    <3>1. Pending' = Pending /\ \A u \in Pending : stack'[u] = stack[u]
      BY <2>1, <2>3, <2>4 DEF Pending
    <3> QED  BY <2>1, <3>1 DEF BridgeCounts
  <2>5. CASE t # mapMutex
    <3>1. t \in Pending
      BY <2>1, <2>5 DEF Pending
    <3>2. PICK f \in BridgeFrame : stack[t] = <<f>>
      BY <2>1, <2>2, <2>5 DEF Before
    <3>3. Tail(<<f>>) = << >>
      OBVIOUS
    <3>4. stack'[t] = << >>
      BY <2>3, <3>2, <3>3
    <3> QED  BY <1>0, <2>1, <2>3, <3>1, <3>4, CallCounts
  <2> QED  BY <2>4, <2>5
<1>3. CASE C!unregisterMapping(t)
  <2>1. C!Locks(t, "unregisterMapping") /\ held' = held /\ reverse' \subseteq reverse
    BY <1>3 DEF C!unregisterMapping
  <2>2. \E inner : C!Ends(t, inner)
    BY <1>3 DEF C!unregisterMapping
  <2> QED  BY <1>0, <2>1, <2>2, BodyCounts
<1>4. CASE C!registerRoot(t)
  <2>1. C!Locks(t, "registerRoot") /\ held' = held /\ reverse' = reverse
    BY <1>4 DEF C!registerRoot
  <2>2. \E inner : C!Ends(t, inner)
    BY <1>4 DEF C!registerRoot
  <2> QED  BY <1>0, <2>1, <2>2, BodyCounts
<1>5. CASE C!unregisterRoot(t)
  <2>1. /\ C!Locks(t, "unregisterRoot") /\ C!Ends(t, << >>)
        /\ held' = held /\ reverse' = reverse
    BY <1>5 DEF C!unregisterRoot
  <2> QED  BY <1>0, <2>1, BodyCounts
<1>6. CASE C!registerWeakRef(t)
  <2>1. /\ C!Locks(t, "registerWeakRef") /\ C!Ends(t, << >>)
        /\ held' = C!Stored(Head(stack[t]).js) /\ reverse' = reverse
    BY <1>6 DEF C!registerWeakRef
  <2>2. Head(stack[t]).js \in Value
    BY <2>1, LockedStep
  <2> QED  BY <1>0, <2>1, <2>2, BodyCounts
<1>7. CASE C!unregisterWeakRef(t)
  <2>1. /\ C!Locks(t, "unregisterWeakRef") /\ C!Ends(t, << >>)
        /\ held' = held /\ reverse' = reverse
    BY <1>7 DEF C!unregisterWeakRef
  <2> QED  BY <1>0, <2>1, BodyCounts
<1>8. CASE C!readTables(t)
  <2>1. PICK o \in C!Reads : C!Locks(t, o)
    BY <1>8 DEF C!readTables
  <2>2. C!Ends(t, << >>) /\ held' = held /\ reverse' = reverse
    BY <1>8 DEF C!readTables
  <2> QED  BY <1>0, <2>1, <2>2, BodyCounts
<1>9. CASE C!getMemoryStats(t)
  <2>1. C!Locks(t, "getMemoryStats") /\ held' = held /\ reverse' = reverse
    BY <1>9 DEF C!getMemoryStats
  <2>2. \E inner : C!Ends(t, inner)
    BY <1>9 DEF C!getMemoryStats
  <2> QED  BY <1>0, <2>1, <2>2, BodyCounts
<1>10. CASE C!cleanup(t)
  <2>1. C!Locks(t, "cleanup") /\ C!Ends(t, << >>) /\ held' = held /\ reverse' = {}
    BY <1>10 DEF C!cleanup
  <2> QED  BY <2>1, BodyCounts
<1> QED
  BY <1>1, <1>2, <1>3, <1>4, <1>5, <1>6, <1>7, <1>8, <1>9, <1>10 DEF C!BridgeStep

LEMMA EnterCounts ==
    ASSUME BridgeInv, BridgeCounts, NEW t \in Thread, NEW f, f.proto \in Proto,
           C!Enter(t, f)
    PROVE  BridgeCounts'
<1>1. /\ stack[t] = << >> /\ stack' = [stack EXCEPT ![t] = <<f>>]
      /\ calls < MaxBridgeCalls /\ calls' = calls + 1
      /\ UNCHANGED <<mapMutex, reverse, held, wrapped>>
  BY DEF C!Enter, C!Idle
<1>2. BridgeStacks
  BY DEF BridgeInv
<1>3. t # mapMutex
  BY <1>1, <1>2, WaitsAlone DEF BridgeStacks, Waits
<1>4. stack'[t] = <<f>> /\ \A u \in Thread : u # t => stack'[u] = stack[u]
  BY <1>1, <1>2 DEF BridgeStacks
<1>5. <<f>> # << >> /\ Head(<<f>>) = f
  OBVIOUS
<1>6. Pending' = Pending \cup {t} /\ t \notin Pending
  BY <1>1, <1>3, <1>4, <1>5 DEF Pending
<1>7. /\ IsFiniteSet(Pending') /\ Cardinality(Pending') = Cardinality(Pending) + 1
      /\ Cardinality(Pending) \in Nat
  BY <1>6, FS_AddElement, FS_CardinalityType DEF BridgeCounts
<1>8. ASSUME NEW v \in Value
      PROVE  held'[v] + Cardinality(Pending') <= calls'
  <2>1. held[v] \in Nat /\ held[v] + Cardinality(Pending) <= calls /\ calls \in Int
    BY DEF BridgeCounts, BridgeInv, BridgeTables
  <2> QED  BY <1>1, <1>7, <2>1
<1>9. ASSUME NEW u \in Pending'
      PROVE  Head(stack'[u]).proto \in Proto
  <2>1. CASE u = t
    BY <1>4, <1>5, <2>1
  <2>2. CASE u # t
    <3>1. u \in Pending /\ u \in Thread
      BY <1>6, <2>2 DEF Pending
    <3> QED  BY <1>4, <2>2, <3>1 DEF BridgeCounts
  <2> QED  BY <2>1, <2>2
<1>10. calls' \in 0..MaxBridgeCalls
  BY <1>1, LibraryAssumption DEF BridgeCounts
<1>11. wrapped' \in BOOLEAN /\ reverse' \subseteq Proto
  BY <1>1 DEF BridgeCounts
<1> HIDE DEF Pending
<1> QED  BY <1>7, <1>8, <1>9, <1>10, <1>11 DEF BridgeCounts

LEMMA StutterCounts ==
    ASSUME BridgeCounts, UNCHANGED <<mapMutex, stack, reverse, held, calls>>,
           wrapped' \in BOOLEAN
    PROVE  BridgeCounts'
BY DEF BridgeCounts, Pending

LEMMA StartCounts == ASSUME C!Start
                     PROVE  BridgeCounts
<1>1. Pending = {}
  BY DEF Pending, C!Start, C!BridgeStart
<1>2. IsFiniteSet({}) /\ Cardinality({}) = 0
  BY FS_EmptySet
<1>3. calls \in 0..MaxBridgeCalls /\ calls = 0 /\ wrapped \in BOOLEAN /\ reverse = {}
  <2>1. MaxBridgeCalls \in Nat
    BY LibraryAssumption
  <2>2. 0 \in 0..MaxBridgeCalls
    BY <2>1
  <2>3. calls = 0 /\ wrapped = FALSE /\ reverse = {}
    BY DEF C!Start, C!BridgeStart
  <2> QED  BY <2>2, <2>3
<1>4. \A v \in Value : held[v] = 0
  BY DEF C!Start, C!BridgeStart
<1> HIDE DEF Pending
<1>5. IsFiniteSet(Pending) /\ Cardinality(Pending) = 0
  BY <1>1, <1>2, Zenon
<1>6. \A v \in Value : held[v] + Cardinality(Pending) <= calls
  BY <1>3, <1>4, <1>5
<1> QED  BY <1>1, <1>3, <1>5, <1>6 DEF BridgeCounts

LEMMA NextCounts == ASSUME BridgeInv, BridgeCounts, [Next]_vars
                    PROVE  BridgeCounts'
<1>0. wrapped \in BOOLEAN
  BY DEF BridgeCounts
<1>1. ASSUME UNCHANGED bridgeVars
      PROVE  BridgeCounts'
  BY <1>0, <1>1, StutterCounts DEF bridgeVars
<1>2. ASSUME C!JSContextWrapper
      PROVE  BridgeCounts'
  BY <1>2, StutterCounts DEF C!JSContextWrapper
<1>3. CASE C!BridgeNext
  <2>1. ASSUME NEW t \in Thread, C!BridgeCall(t)
        PROVE  BridgeCounts'
    <3>1. PICK o \in C!Public : \E v \in Value, p \in Proto : C!Enter(t, C!Frame(o, v, p))
      BY <2>1 DEF C!BridgeCall
    <3>2. PICK v \in Value : \E p \in Proto : C!Enter(t, C!Frame(o, v, p))
      BY <3>1
    <3>3. PICK p \in Proto : C!Enter(t, C!Frame(o, v, p))
      BY <3>2
    <3>4. C!Frame(o, v, p).proto \in Proto
      BY DEF C!Frame
    <3> QED  BY <3>3, <3>4, EnterCounts
  <2> QED  BY <1>2, <1>3, <2>1, StepCounts DEF C!BridgeNext
<1>4. CASE C!Next
  <2>1. ASSUME NEW t \in Thread, NEW v \in Sample, C!Operation(t, v)
        PROVE  BridgeCounts'
    <3>1. ASSUME NEW f, C!Enter(t, C!Frame("registerMapping", f, "p"))
          PROVE  BridgeCounts'
      <4>1. C!Frame("registerMapping", f, "p").proto \in Proto
        BY LibraryAssumption DEF C!Frame
      <4> QED  BY <3>1, <4>1, EnterCounts
    <3>2. \/ UNCHANGED bridgeVars
          \/ \E f : C!Enter(t, C!Frame("registerMapping", f, "p"))
      BY <2>1, CollectionSteps
    <3> QED  BY <1>1, <3>1, <3>2
  <2>2. ASSUME NEW t \in Thread, C!SparseListConstructor(t)
        PROVE  BridgeCounts'
    BY <1>1, <2>2 DEF C!SparseListConstructor, C!Does, C!bridgeVars, bridgeVars
  <2>3. ASSUME NEW t \in Thread, C!registerMapping(t)
        PROVE  BridgeCounts'
    BY <2>3, StepCounts DEF C!BridgeStep
  <2> QED  BY <1>2, <1>4, <2>1, <2>2, <2>3 DEF C!Next
<1> QED  BY <1>1, <1>3, <1>4 DEF Next, vars

LEMMA BridgeTypes == ASSUME BridgeInv, BridgeCounts
                     PROVE  C!BridgeTypeOK
<1>1. \A t \in Thread : Len(stack[t]) <= 2
  <2>1. \A f \in BridgeFrame : Len(<<f>>) <= 2
    OBVIOUS
  <2>2. \A f \in BridgeFrame : \A g \in BridgeFrame : Len(<<f, g>>) <= 2
    OBVIOUS
  <2>3. Len(<< >>) <= 2
    BY EmptySeq
  <2> TAKE t \in Thread
  <2>4. Waits(stack[t]) \/ Before(stack[t])
    BY DEF BridgeInv, BridgeStacks
  <2> QED  BY <2>1, <2>2, <2>3, <2>4, Zenon DEF Waits, Before
<1>2. held \in [Value -> 0..MaxBridgeCalls]
  <2>1. IsFiniteSet(Pending)
    BY DEF BridgeCounts
  <2>2. Cardinality(Pending) \in Nat
    BY <2>1, FS_CardinalityType
  <2>3. ASSUME NEW v \in Value
        PROVE  held[v] \in 0..MaxBridgeCalls
    <3>1. held[v] \in Nat /\ held[v] + Cardinality(Pending) <= calls
          /\ calls \in 0..MaxBridgeCalls
      BY DEF BridgeCounts, BridgeInv, BridgeTables
    <3> QED  BY <2>2, <3>1, LibraryAssumption
  <2>4. held \in [Value -> Nat]
    BY DEF BridgeInv, BridgeTables
  <2> QED  BY <2>3, <2>4
<1>3. forward \in [Value -> Mapping] /\ mapMutex \in Thread \cup {C!Nobody}
  BY DEF BridgeInv, BridgeTables, BridgeStacks
<1>4. reverse \subseteq Proto /\ wrapped \in BOOLEAN /\ calls \in 0..MaxBridgeCalls
  BY DEF BridgeCounts
<1> QED  BY <1>1, <1>2, <1>3, <1>4, Zenon DEF C!BridgeTypeOK, Mapping

\* Every operation adds one object at most.
CoreSizes ==
    /\ ops \in 0..MaxOps
    /\ IsFiniteSet(protoSet) /\ Cardinality(protoSet) <= ops
    /\ \A p \in DOMAIN protoMultiset : protoMultiset[p] <= ops

LEMMA SizesStart == ASSUME C!Start
                    PROVE  CoreSizes
<1>1. ops = 0 /\ protoSet = {} /\ protoMultiset = << >>
  BY DEF C!Start
<1>2. IsFiniteSet({}) /\ Cardinality({}) = 0
  BY FS_EmptySet
<1> QED  BY <1>1, <1>2, LibraryAssumption DEF CoreSizes

LEMMA SizesGrow ==
    ASSUME CoreInv, CoreSizes, ops < MaxOps, ops' = ops + 1,
           \/ protoSet' \subseteq protoSet
           \/ \E x : protoSet' = protoSet \cup {x} \/ protoSet' = {x},
           \/ protoMultiset' = protoMultiset
           \/ \E x : \/ protoMultiset' = C!With(protoMultiset, x, C!Counted(protoMultiset, x) + 1)
                     \/ protoMultiset' = [protoMultiset EXCEPT ![x] = @ - 1]
                     \/ protoMultiset' = C!With(<<>>, x, 1)
    PROVE  CoreSizes'
<1>1. ops \in Nat /\ ops' \in 0..MaxOps
  BY LibraryAssumption DEF CoreSizes
<1>2. /\ IsFiniteSet(protoSet) /\ Cardinality(protoSet) \in Nat
      /\ Cardinality(protoSet) <= ops
  BY FS_CardinalityType DEF CoreSizes
<1>3. IsFiniteSet(protoSet') /\ Cardinality(protoSet') <= ops'
  <2>1. CASE protoSet' \subseteq protoSet
    <3>1. IsFiniteSet(protoSet') /\ Cardinality(protoSet') <= Cardinality(protoSet)
      BY <1>2, <2>1, FS_Subset
    <3>2. Cardinality(protoSet') \in Nat
      BY <3>1, FS_CardinalityType
    <3> QED  BY <1>1, <1>2, <3>1, <3>2
  <2>2. ASSUME NEW x, protoSet' = protoSet \cup {x}
        PROVE  IsFiniteSet(protoSet') /\ Cardinality(protoSet') <= ops'
    <3>1. /\ IsFiniteSet(protoSet')
          /\ Cardinality(protoSet') = IF x \in protoSet THEN Cardinality(protoSet)
                                      ELSE Cardinality(protoSet) + 1
      BY <1>2, <2>2, FS_AddElement
    <3> QED  BY <1>1, <1>2, <3>1
  <2>3. ASSUME NEW x, protoSet' = {x}
        PROVE  IsFiniteSet(protoSet') /\ Cardinality(protoSet') <= ops'
    <3>1. IsFiniteSet(protoSet') /\ Cardinality(protoSet') = 1
      BY <2>3, FS_Singleton, Zenon
    <3>2. 1 <= ops'
      BY <1>1
    <3> QED  BY <3>1, <3>2
  <2> QED  BY <2>1, <2>2, <2>3
<1>4. \A p \in DOMAIN protoMultiset : protoMultiset[p] \in Nat /\ protoMultiset[p] <= ops
  BY DEF CoreInv, CoreBag, CoreSizes
<1>5. \A p \in DOMAIN protoMultiset' : protoMultiset'[p] <= ops'
  <2>1. CASE protoMultiset' = protoMultiset
    BY <1>1, <1>4, <2>1
  <2>2. ASSUME NEW x,
               protoMultiset' = C!With(protoMultiset, x, C!Counted(protoMultiset, x) + 1)
        PROVE  \A p \in DOMAIN protoMultiset' : protoMultiset'[p] <= ops'
    <3>1. C!Counted(protoMultiset, x) \in Nat /\ C!Counted(protoMultiset, x) <= ops
      BY <1>1, <1>4 DEF C!Counted
    <3> QED  BY <1>1, <1>4, <2>2, <3>1 DEF C!With
  <2>3. ASSUME NEW x, protoMultiset' = [protoMultiset EXCEPT ![x] = @ - 1]
        PROVE  \A p \in DOMAIN protoMultiset' : protoMultiset'[p] <= ops'
    BY <1>1, <1>4, <2>3
  <2>4. ASSUME NEW x, protoMultiset' = C!With(<<>>, x, 1)
        PROVE  \A p \in DOMAIN protoMultiset' : protoMultiset'[p] <= ops'
    <3>1. protoMultiset' = [p \in {x} |-> 1]
      BY <2>4 DEF C!With
    <3> QED  BY <1>1, <3>1
  <2> QED  BY <2>1, <2>2, <2>3, <2>4
<1> QED  BY <1>1, <1>3, <1>5 DEF CoreSizes

\* An operation on the collections, as their sizes see it.
LEMMA OperationSizes ==
    ASSUME CoreInv, CoreSizes, NEW t \in Thread, NEW v \in Sample, C!Operation(t, v)
    PROVE  CoreSizes'
<1>1. ASSUME C!Stays(t, v)
      PROVE  CoreSizes'
  BY <1>1 DEF C!Stays, C!coreVars, CoreSizes
<1>2. ASSUME NEW c, C!Does(t, c, v)
      PROVE  ops < MaxOps /\ ops' = ops + 1
  BY <1>2 DEF C!Does
<1>3. ASSUME C!SetConstructor(t, v) \/ C!SetAdd(t, v) \/ C!SetRemove(t, v)
      PROVE  CoreSizes'
  <2>1. ops < MaxOps /\ ops' = ops + 1
    BY <1>2, <1>3 DEF C!SetConstructor, C!SetAdd, C!SetRemove
  <2>2. /\ \/ protoSet' \subseteq protoSet
           \/ \E x : protoSet' = protoSet \cup {x} \/ protoSet' = {x}
        /\ protoMultiset' = protoMultiset
    BY <1>3 DEF C!SetConstructor, C!SetAdd, C!SetRemove
  <2> QED  BY <2>1, <2>2, SizesGrow
<1>4. ASSUME C!MultisetConstructor(t, v) \/ C!MultisetAdd(t, v) \/ C!MultisetRemove(t, v)
      PROVE  CoreSizes'
  <2>1. ops < MaxOps /\ ops' = ops + 1 /\ protoSet' = protoSet
    BY <1>2, <1>4 DEF C!MultisetConstructor, C!MultisetAdd, C!MultisetRemove
  <2>2. \/ protoMultiset' = protoMultiset
        \/ \E x : \/ protoMultiset' = C!With(protoMultiset, x, C!Counted(protoMultiset, x) + 1)
                  \/ protoMultiset' = [protoMultiset EXCEPT ![x] = @ - 1]
                  \/ protoMultiset' = C!With(<<>>, x, 1)
    BY <1>4, Zenon DEF C!MultisetConstructor, C!MultisetAdd, C!MultisetRemove
  <2>3. protoSet' \subseteq protoSet
    BY <2>1
  <2> QED  BY <2>1, <2>2, <2>3, SizesGrow, Zenon
<1>5. ASSUME NEW i \in Index, C!SparseListSet(t, i, v)
      PROVE  CoreSizes'
  BY <1>5, SizesGrow DEF C!SparseListSet, C!Does
<1> QED
  BY <1>1, <1>3, <1>4, <1>5
  DEF C!Operation, C!SetHas, C!MultisetCount, C!Tuple, C!ImmutableObject,
      C!MutableObject, C!IsImmutable, C!MakeImmutable, C!MakeMutable

LEMMA NextSizes == ASSUME CoreInv, CoreSizes, [Next]_vars
                   PROVE  CoreSizes'
<1>1. ASSUME UNCHANGED coreVars
      PROVE  CoreSizes'
  BY <1>1 DEF coreVars, CoreSizes
<1>2. CASE C!Next
  <2>1. ASSUME NEW t \in Thread, C!SparseListConstructor(t)
        PROVE  CoreSizes'
    BY <2>1, SizesGrow DEF C!SparseListConstructor, C!Does
  <2> QED  BY <1>1, <1>2, <2>1, OperationSizes DEF C!Next, C!coreVars, coreVars
<1> QED  BY <1>1, <1>2 DEF Next, vars

LEMMA SameSize == \A set : C!Cardinality(set) = Cardinality(set)
BY DEF C!Cardinality, Cardinality, C!IsFiniteSet, IsFiniteSet

LEMMA CoreTypes == ASSUME BridgeInv, BridgeCounts, CoreInv, CoreSizes
                   PROVE  C!TypeOK
<1>1. C!BridgeTypeOK
  BY BridgeTypes
<1>2. C!Cardinality(protoSet) <= MaxOps /\ ops \in 0..MaxOps
  <2>1. Cardinality(protoSet) <= ops /\ ops \in 0..MaxOps /\ Cardinality(protoSet) \in Nat
    BY FS_CardinalityType DEF CoreSizes
  <2>2. Cardinality(protoSet) <= MaxOps
    BY <2>1, LibraryAssumption
  <2> QED  BY <2>1, <2>2, SameSize, Zenon
<1>3. \A p \in DOMAIN protoMultiset : protoMultiset[p] \in 0..MaxOps
  BY LibraryAssumption DEF CoreInv, CoreBag, CoreSizes
<1>4. members \subseteq Sample /\ \A i \in Index : stored[i] \in Sample \cup {C!Absent}
  BY DEF CoreInv, CoreSet, CoreList, Plain
<1> QED  BY <1>1, <1>2, <1>3, <1>4 DEF C!TypeOK

\* TypesOK (MCLibraries) for any values of the constants: the variables of every
\* library keep their types, the calls of the bridge take no more references than
\* there were calls, and no more downloads run than the call allows.
THEOREM TypesKept == Spec => []TypesOK
<1> DEFINE Inv == /\ BridgeInv /\ BridgeCounts /\ CoreInv /\ CoreSizes
                  /\ EmitterInv /\ StreamInv /\ BufferInv /\ R!TypeOK
<1>1. Init => Inv
  <2> SUFFICES ASSUME Init  PROVE  Inv
    OBVIOUS
  <2>1. BridgeInv /\ BridgeCounts /\ CoreInv /\ CoreSizes
    BY BridgeStarts, StartCounts, CoreStart, SizesStart DEF Init
  <2>2. EmitterInv /\ StreamInv
    BY EmitterStart, StreamStart DEF Init
  <2>3. BufferInv /\ R!TypeOK
    BY BufferStart, ResolverTypesStart DEF Init
  <2> QED  BY <2>1, <2>2, <2>3
<1>2. Inv /\ [Next]_vars => Inv'
  <2> SUFFICES ASSUME Inv, [Next]_vars  PROVE  Inv'
    OBVIOUS
  <2>1. BridgeInv' /\ BridgeCounts'
    BY BridgeStep, NextCounts
  <2>2. CoreInv' /\ CoreSizes'
    BY CoreStep, NextSizes
  <2>3. EmitterInv'
    BY EmitterNext
  <2>4. StreamInv'
    BY StreamStep, StreamStutter, StreamNext
  <2>5. BufferInv' /\ R!TypeOK'
    BY BufferStep, ResolverTypes
  <2> QED  BY <2>1, <2>2, <2>3, <2>4, <2>5
<1>3. Inv /\ L!TypeOK => TypesOK
  BY CoreTypes, EmitterTypes, BufferTypes DEF TypesOK, StreamInv
<1> QED  BY <1>1, <1>2, <1>3, DownloadsLimited, PTL DEF Spec

-----------------------------------------------------------------------------
(* The properties of the run                                               *)

\* BridgeSafety (MCLibraries): the tables of the bridge and the collections that
\* are built on it, for any threads, values, calls and indices.
THEOREM BridgeSafe == Spec => []BridgeSafety
BY MappingsPinned, CollectionsAnswer, PTL DEF BridgeSafety

\* PackageSafety (MCLibraries): npm chooses the newest version in a range of any
\* list of versions, and what it reports as installed is, for any packages and any
\* number of parallel downloads.
THEOREM PackagesSafe == Spec => []PackageSafety
BY NewestChosen, InstallsReported, PTL DEF PackageSafety

\* ScriptSafety (MCLibraries): emitters, streams, buffers and the resolver, for
\* any bounds of their state.
THEOREM ScriptsSafe == Spec => []ScriptSafety
BY HandlersCalled, WritesKept, BuffersBounded, FilesFound, PTL DEF ScriptSafety
=============================================================================
