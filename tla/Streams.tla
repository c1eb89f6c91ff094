------------------------------ MODULE Streams -------------------------------
(***************************************************************************)
(* A stream object (src/src/modules/stream/StreamModule.cpp).  The         *)
(* constructors of Readable and Writable look for a global EventEmitter,   *)
(* which the events module does not define but a script may; they keep a   *)
(* pointer to the emitter and give up the only reference to it twice.      *)
(* Nothing takes chunks out of a Writable and nothing puts any into a      *)
(* Readable.                                                               *)
(***************************************************************************)
EXTENDS Naturals, Sequences

CONSTANTS
    Chunk,          \* data the script writes
    highWaterMark,  \* 16384 in the code; counted in chunks
    MaxWrites       \* bound: calls of write() and end()

VARIABLES
    kind,        \* class of the stream, or "none"
    emitter,     \* "none", or "freed": gone, but the stream points to it
    global,      \* the script has defined a global EventEmitter
    buffer,      \* chunks of the Writable
    streamEnded,
    offered,     \* ghost: chunks written before the first end()
    writes,
    streamFate   \* "fine", or "undefined" after the use of a freed emitter

vars == <<kind, emitter, global, buffer, streamEnded, offered, writes, streamFate>>

Start ==
    /\ kind = "none" /\ emitter = "none" /\ global = FALSE
    /\ buffer = <<>> /\ streamEnded = FALSE
    /\ offered = <<>> /\ writes = 0
    /\ streamFate = "fine"

DefineGlobal ==
    /\ ~global /\ global' = TRUE
    /\ UNCHANGED <<kind, emitter, buffer, streamEnded, offered, writes, streamFate>>

\* JS_SetPropertyStr takes the reference of the new emitter, JS_FreeValue
\* gives it up again: the object is gone, two pointers to it remain.
Construct(class, emits) ==
    /\ kind = "none"
    /\ kind' = class
    /\ emitter' = IF emits /\ global THEN "freed" ELSE "none"
    /\ UNCHANGED <<global, buffer, streamEnded, offered, writes, streamFate>>

ReadableStreamConstructor == Construct("Readable", TRUE)
WritableStreamConstructor == Construct("Writable", TRUE)
DuplexStreamConstructor == Construct("Duplex", FALSE)
TransformStreamConstructor == Construct("Transform", FALSE)
PassThroughConstructor == TransformStreamConstructor

\* 'drain', 'finish' and the finalizer use the emitter.
UsesFreed == emitter = "freed"

\* The prototype of a Duplex or a Transform has write(), but the object is not
\* a Writable: the chunk is dropped and the answer is FALSE.
Accepts == kind = "Writable" /\ ~streamEnded

Pushed(c) == IF Accepts THEN Append(buffer, c) ELSE buffer

writableWrite(c) ==
    /\ kind \in {"Writable", "Duplex", "Transform"}
    /\ streamFate = "fine" /\ writes < MaxWrites
    /\ writes' = writes + 1
    /\ buffer' = Pushed(c)
    /\ streamFate' = IF Accepts /\ Len(Pushed(c)) < highWaterMark /\ UsesFreed
                     THEN "undefined" ELSE "fine"
    /\ offered' = IF streamEnded THEN offered ELSE Append(offered, c)
    /\ UNCHANGED <<kind, emitter, global, streamEnded>>

\* end(c) writes c first; end() of an ended stream emits 'finish' again.
writableEnd(chunks) ==
    /\ kind = "Writable"
    /\ streamFate = "fine" /\ writes < MaxWrites
    /\ writes' = writes + 1
    /\ buffer' = IF chunks = <<>> THEN buffer ELSE Pushed(chunks[1])
    /\ offered' = IF streamEnded THEN offered ELSE offered \o chunks
    /\ streamEnded' = TRUE
    /\ streamFate' = IF UsesFreed THEN "undefined" ELSE "fine"
    /\ UNCHANGED <<kind, emitter, global>>

\* read() takes the first chunk; pipe() returns its argument, nothing more.
readableRead ==
    IF buffer # <<>> THEN Head(buffer) ELSE IF streamEnded THEN "null" ELSE "undefined"

\* The finalizer gives up the reference the data never had.
Finalize ==
    /\ kind # "none" /\ streamFate = "fine"
    /\ kind' = "none"
    /\ streamFate' = IF UsesFreed THEN "undefined" ELSE "fine"
    /\ buffer' = <<>> /\ streamEnded' = FALSE /\ offered' = <<>>
    /\ emitter' = "none"
    /\ UNCHANGED <<global, writes>>

Next ==
    \/ DefineGlobal
    \/ ReadableStreamConstructor \/ WritableStreamConstructor
    \/ DuplexStreamConstructor \/ TransformStreamConstructor
    \/ PassThroughConstructor
    \/ \E c \in Chunk : writableWrite(c) \/ writableEnd(<<c>>)
    \/ writableEnd(<<>>) \/ Finalize

Spec == Start /\ [][Next]_vars

(***************************************************************************)
(* Properties                                                              *)
(***************************************************************************)
\* Every variable keeps its type.
TypeOK ==
    /\ kind \in {"none", "Readable", "Writable", "Duplex", "Transform"}
    /\ buffer \in Seq(Chunk)
    /\ writes \in 0..MaxWrites
    /\ streamFate \in {"fine", "undefined"}

\* A Writable holds what was written before its first end(), in that order,
\* the chunk given to end() included and nothing that came later.
BufferIsWhatWasWritten == kind = "Writable" => buffer = offered

\* A Readable never gives a chunk and never ends.
ReadableIsSilent == kind = "Readable" => readableRead = "undefined"

\* Freed memory is used only if the script has defined a global EventEmitter.
UndefinedNeedsGlobal == streamFate = "undefined" => global

\* The facts above.
Safety ==
    BufferIsWhatWasWritten /\ ReadableIsSilent /\ UndefinedNeedsGlobal

=============================================================================
