------------------------------ MODULE CommonJS -------------------------------
(***************************************************************************)
(* require() (src/src/modules/CommonJSLoader.cpp): the cache of modules,   *)
(* the evaluation of JavaScript files, which may require each other in a   *)
(* circle, throw, be required again later, and native addons.              *)
(*                                                                         *)
(* Everything runs on the main thread, so the interleaving is that of the  *)
(* nested evaluations: stack holds the files whose body is being evaluated.*)
(* Loading a file makes two module objects: one is cached before the       *)
(* evaluation and read after it (.cpp:167-191), the other is the "module"  *)
(* the body sees (.cpp:305).                                               *)
(*                                                                         *)
(* createModuleObject() gives the exports object to a property and then    *)
(* drops the only reference (.cpp:207, 216): the object is freed.  Using   *)
(* it is undefined; the process goes on or crashes.                        *)
(***************************************************************************)
EXTENDS Naturals, Sequences, SequencesExt

CONSTANTS
    JsFile,     \* the JavaScript files specifiers resolve to
    Native,     \* the native addons, likewise
    Bare,       \* bare specifiers of built-in modules
    MaxLoads    \* bound: how often one file is loaded

File == JsFile \cup Native

ASSUME FileAssumption == JsFile \cap Native = {} /\ MaxLoads \in Nat

VARIABLES
    stack,      \* the files being evaluated, outermost first
    cache,      \* moduleCache for files
    builtin,    \* moduleCache for bare specifiers: the keys umd: and builtin:
    loads,      \* how often each file was loaded
    exported,   \* what the last load of a file left in its module.exports
    result,     \* what the last require of a JavaScript file returned
    crashed     \* undefined behaviour ended the process

vars == <<stack, cache, builtin, loads, exported, result, crashed>>

\* JavaScript values the loader handles.  "outer" and "inner" are the exports
\* objects of the two module objects of a load, "own" what the body assigned to
\* module.exports.
Value(kind, f, n) == [kind |-> kind, file |-> f, load |-> n]
NoValue == [kind |-> "none"]
Values ==
    [kind : {"module", "outer", "inner", "own", "native"},
     file : File, load : 1..MaxLoads]

NoResult == [got |-> NoValue]

TypeOK ==
    /\ stack \in Seq([file : JsFile, load : 1..MaxLoads,
                      exports : {"inner", "own"}])
    /\ cache \in [File -> Values \cup {NoValue}]
    /\ builtin \in [Bare -> SUBSET {"umd", "builtin"}]
    /\ loads \in [File -> 0..MaxLoads]
    /\ exported \in [JsFile -> Values \cup {NoValue}]
    /\ result = NoResult \/
       result \in [file : File, got : Values, circular : BOOLEAN]
    /\ crashed \in BOOLEAN

Init ==
    /\ stack = << >>
    /\ cache = [f \in File |-> NoValue]
    /\ builtin = [b \in Bare |-> {}]
    /\ loads = [f \in File |-> 0]
    /\ exported = [f \in JsFile |-> NoValue]
    /\ result = NoResult
    /\ crashed = FALSE

\* A step of a live process, which may crash if cond makes it undefined.
Undefined(cond) ==
    /\ ~crashed
    /\ crashed' \in IF cond THEN BOOLEAN ELSE {FALSE}

Defined == Undefined(FALSE)

-----------------------------------------------------------------------------
(* require() of a file (.cpp:112-198).  The specifier was resolved (.cpp:113):*)
(* relative ones against the directory of the main script, whoever calls    *)
(* (.cpp:242-256), so any file may require any other.                       *)

Evaluating == {frame.file : frame \in ToSet(stack)}

\* Returned to the caller.
Return(f, value) ==
    result' = [file |-> f, got |-> value, circular |-> f \in Evaluating]

\* Slip: the value is read with operator[], which makes an entry.
HitUnchecked(f) ==
    /\ Return(f, cache[f])
    /\ Defined
    /\ UNCHANGED <<stack, cache, builtin, loads, exported>>

\* The cached value, complete or not (.cpp:121-127).
Hit(f) ==
    /\ cache[f] # NoValue
    /\ Return(f, cache[f])
    /\ Defined
    /\ UNCHANGED <<stack, cache, builtin, loads, exported>>

\* Cached before the evaluation, for circular dependencies (.cpp:169-173).
CachedEarly(f, n) == [cache EXCEPT ![f] = Value("module", f, n)]

\* Two module objects are made (.cpp:167, 305), the inner exports are read from
\* the freed object (.cpp:306), and the body is called (.cpp:329).
Begin(f) ==
    /\ cache[f] = NoValue
    /\ loads[f] < MaxLoads
    /\ LET n == loads[f] + 1
       IN  /\ stack' = Append(stack, [file |-> f, load |-> n,
                                      exports |-> "inner"])
           /\ cache' = CachedEarly(f, n)
           /\ loads' = [loads EXCEPT ![f] = n]
    /\ Undefined(TRUE)
    /\ UNCHANGED <<builtin, exported, result>>

\* The wrapper does not compile: the exception is thrown after the cache entry was
\* made and erased again (.cpp:312-318, 177-181).
CompileError(f) ==
    /\ cache[f] = NoValue
    /\ loads[f] < MaxLoads
    /\ loads' = [loads EXCEPT ![f] = @ + 1]
    /\ Undefined(TRUE)
    /\ UNCHANGED <<stack, cache, builtin, exported, result>>

\* The body assigns module.exports, which releases the inner exports once more.
Assign ==
    /\ stack # << >>
    /\ Last(stack).exports = "inner"
    /\ stack' = [stack EXCEPT ![Len(stack)].exports = "own"]
    /\ Undefined(TRUE)
    /\ UNCHANGED <<cache, builtin, loads, exported, result>>

\* The exports of the outer module object replace it in the cache (.cpp:185-192).
FinalCache(f, n) == [cache EXCEPT ![f] = Value("outer", f, n)]

\* The body returns (.cpp:184-197).
Finish ==
    /\ stack # << >>
    /\ LET frame == Last(stack)
       IN  /\ cache' = FinalCache(frame.file, frame.load)
           /\ exported' = [exported EXCEPT ![frame.file] =
                              Value(frame.exports, frame.file, frame.load)]
           /\ stack' = Front(stack)
           /\ result' = [file |-> frame.file, circular |-> FALSE,
                         got |-> Value("outer", frame.file, frame.load)]
    /\ Undefined(TRUE)
    /\ UNCHANGED <<builtin, loads>>

\* Slip: a body that throws leaves its entry in the cache.
ThrowKeepsEntry ==
    /\ stack # << >>
    /\ stack' = Front(stack)
    /\ Defined
    /\ UNCHANGED <<cache, builtin, loads, exported, result>>

\* Slip: a failure clears the whole cache.
ThrowClearsCache ==
    /\ stack # << >>
    /\ stack' = Front(stack)
    /\ cache' = [f \in File |-> NoValue]
    /\ Defined
    /\ UNCHANGED <<builtin, loads, exported, result>>

\* The body throws: the entry is erased (.cpp:177-181).  The caller may catch.
Throw ==
    /\ stack # << >>
    /\ stack' = Front(stack)
    /\ cache' = [cache EXCEPT ![Last(stack).file] = NoValue]
    /\ Defined
    /\ UNCHANGED <<builtin, loads, exported, result>>

\* A native addon (.cpp:130-154).  It is not cached if the library cannot be
\* opened or its init function fails, in which case it is unloaded again.  The init
\* function works on the freed exports.
LoadNative(f) ==
    /\ cache[f] = NoValue
    /\ loads[f] < MaxLoads
    /\ LET n == loads[f] + 1
       IN  /\ loads' = [loads EXCEPT ![f] = n]
           /\ \/ UNCHANGED <<cache, result>>
              \/ /\ cache' = [cache EXCEPT ![f] = Value("native", f, n)]
                 /\ Return(f, Value("native", f, n))
    /\ Undefined(TRUE)
    /\ UNCHANGED <<stack, builtin, exported>>

\* Bare specifiers: the unified module discovery first, under a key of its own,
\* then a property of the global object (.cpp:49-110).
RequireBare(b) ==
    /\ "umd" \notin builtin[b]
    /\ \E key \in {"umd", "builtin"} : builtin' = [builtin EXCEPT ![b] = @ \cup {key}]
    /\ Defined
    /\ UNCHANGED <<stack, cache, loads, exported, result>>

Next ==
    \/ \E f \in File : Hit(f)
    \/ \E f \in JsFile : Begin(f) \/ CompileError(f)
    \/ \E f \in Native : LoadNative(f)
    \/ Assign \/ Finish \/ Throw
    \/ \E b \in Bare : RequireBare(b)

Spec == Init /\ [][Next]_vars

-----------------------------------------------------------------------------
(* Properties *)

\* The cache follows the evaluation of each file, however the evaluations nest and
\* whichever of them throw: a file under evaluation is cached as the module object
\* of this very load and is not entered again, a file that completed as its
\* exports, and one that failed, or was never tried, not at all (.cpp:121-192).
CacheFollowsEvaluation ==
    /\ \A i, j \in DOMAIN stack : stack[i].file = stack[j].file => i = j
    /\ \A f \in JsFile :
          /\ f \in Evaluating => cache[f] = Value("module", f, loads[f])
          /\ f \notin Evaluating =>
                 cache[f] \in {NoValue, Value("outer", f, loads[f])}
          /\ cache[f].kind = "outer" => exported[f].load = loads[f]

\* A file that completed keeps its value and is not evaluated again, whatever else
\* is required, throws or fails to load (.cpp:121-127).
CompletedIsFinal ==
    [][\A f \in JsFile :
          cache[f].kind = "outer" => cache'[f] = cache[f] /\ loads'[f] = loads[f]]_vars

\* "@return JSValue The module's exports object" (CommonJSLoader.h:24), for a file
\* that assigned module.exports as tests/integration/native_addons/fixture.js does.
\* See the run CommonJSOwnExports.
RequireReturnsExports ==
    result # NoResult /\ ~result.circular /\ result.file \in JsFile =>
        result.got = exported[result.file]
=============================================================================
