----------------------------- MODULE ProtoCore ------------------------------
(***************************************************************************)
(* The protoCore global of scripts (src/src/modules/ProtoCoreModule.cpp)   *)
(* and the conversions it is built on (src/src/TypeBridge.cpp), over the   *)
(* bridge they register functions with.  A behaviour follows one object of *)
(* one class; protoCore's own collections are external and modelled by     *)
(* their names: a set, a bag, a function on indices.                       *)
(***************************************************************************)
EXTENDS GCBridge, FiniteSets

CONSTANTS
    Sample,      \* JS values the script passes, made with Js
    Index,       \* indices of the SparseList
    MaxInt32,    \* the largest number toJS gives back as a number
    MaxOps       \* bound: operations on the collections

VARIABLES
    class,       \* of the object followed
    protoSet,    \* protoCore objects in the Set
    protoMultiset, \* [object -> Nat] on the objects added so far
    sparseList,  \* [Index -> object or Hole]
    ops,         \* operations so far; names the objects they create
    members,     \* ghost: values added to the Set and not removed since
    copies,      \* ghost: [value -> additions less removals of values like it]
    stored       \* ghost: [Index -> the value last set, or Absent]

coreVars == <<class, protoSet, protoMultiset, sparseList, ops, members, copies,
              stored>>
vars == <<bridgeVars, coreVars>>

Absent == [type |-> "absent", x |-> 0]
Hole == <<"hole", 0>>

(***************************************************************************)
(* JS values.  x is the number in halves for "number", the integer for     *)
(* "bigint" and "string" (a name of the text), the one number (in halves)  *)
(* in an "array", the function of a "function" or "object" ("none" if the  *)
(* object has no method).                                                  *)
(***************************************************************************)
Js(type, x) == [type |-> type, x |-> x]

FunctionsOf(v) == IF v.type \in {"function", "object"} THEN {v.x} \ {"none"}
                  ELSE {}

(***************************************************************************)
(* TypeBridge                                                              *)
(***************************************************************************)
fromNumber(x) == IF x % 2 = 0 THEN <<"integer", x \div 2>> ELSE <<"double", x>>

\* A function, a RegExp, a Map or any other object becomes a new object; the
\* dense array becomes a list of its converted items.
fromJS(v) ==
    CASE v.type \in {"null", "undefined"} -> <<"none", 0>>
      [] v.type = "number"   -> fromNumber(v.x)
      [] v.type = "bigint"   -> <<"integer", v.x>>
      [] v.type = "string"   -> <<"string", v.x>>
      [] v.type = "array"    -> <<"list", fromNumber(v.x)>>
      [] OTHER               -> <<"cell", ops>>

toNumber(p) ==
    IF p[1] = "double" THEN Js("number", p[2])
    ELSE IF p[2] <= MaxInt32 THEN Js("number", 2 * p[2])
    ELSE Js("bigint", p[2])

toJS(p) ==
    CASE p[1] = "none"   -> Js("null", 0)
      [] p[1] = "string" -> Js("string", p[2])
      [] p[1] = "list"   -> IF toNumber(p[2]).type = "number"
                            THEN Js("array", toNumber(p[2]).x)
                            ELSE Js("bigints", toNumber(p[2]).x)
      [] p[1] = "cell"   -> Js("object", "none")
      [] OTHER           -> toNumber(p)

(***************************************************************************)
(* An operation converts its argument first.  A function in it goes to     *)
(* registerMapping, which does not return; otherwise the operation is done *)
(* in one step of the script.                                              *)
(***************************************************************************)
Stays(t, v) ==
    /\ \E f \in FunctionsOf(v) :
           Enter(t, Frame("registerMapping", f, "p"))
    /\ UNCHANGED coreVars

Does(t, of, v) ==
    /\ Idle(t) /\ class = of /\ FunctionsOf(v) = {}
    /\ ops < MaxOps
    /\ ops' = ops + 1
    /\ UNCHANGED <<bridgeVars, class>>

\* Values that protoCore cannot tell apart once they are converted.
Alike(v, w) ==
    \/ v.type = w.type /\ v.x = w.x /\ v.type # "object"
    \/ {v.type, w.type} = {"null", "undefined"}
    \/ v.type = "number" /\ w.type = "bigint" /\ v.x = 2 * w.x
    \/ w.type = "number" /\ v.type = "bigint" /\ w.x = 2 * v.x

SetAdd(t, v) ==
    /\ Does(t, "Set", v)
    /\ protoSet' = protoSet \cup {fromJS(v)}
    /\ members' = members \cup {v}
    /\ UNCHANGED <<protoMultiset, sparseList, copies, stored>>

SetRemove(t, v) ==
    /\ Does(t, "Set", v)
    /\ protoSet' = protoSet \ {fromJS(v)}
    /\ members' = {w \in members : ~Alike(w, v)}
    /\ UNCHANGED <<protoMultiset, sparseList, copies, stored>>

\* new protoCore.Set([v])
SetConstructor(t, v) ==
    /\ Does(t, "Set", v)
    /\ protoSet' = {fromJS(v)}
    /\ members' = {v}
    /\ UNCHANGED <<protoMultiset, sparseList, copies, stored>>

Counted(bag, p) == IF p \in DOMAIN bag THEN bag[p] ELSE 0

With(bag, p, n) == [q \in DOMAIN bag \cup {p} |-> IF q = p THEN n ELSE bag[q]]

MultisetAdd(t, v) ==
    LET p == fromJS(v) IN
    /\ Does(t, "Multiset", v)
    /\ protoMultiset' = With(protoMultiset, p, Counted(protoMultiset, p) + 1)
    /\ copies' = [w \in Sample |-> IF Alike(w, v) THEN copies[w] + 1 ELSE copies[w]]
    /\ UNCHANGED <<protoSet, sparseList, members, stored>>

MultisetRemove(t, v) ==
    LET p == fromJS(v) IN
    /\ Does(t, "Multiset", v)
    /\ protoMultiset' = IF Counted(protoMultiset, p) = 0 THEN protoMultiset
                        ELSE [protoMultiset EXCEPT ![p] = @ - 1]
    /\ copies' = [w \in Sample |-> IF Alike(w, v) /\ copies[w] > 0
                                  THEN copies[w] - 1 ELSE copies[w]]
    /\ UNCHANGED <<protoSet, sparseList, members, stored>>

\* new protoCore.Multiset([v])
MultisetConstructor(t, v) ==
    /\ Does(t, "Multiset", v)
    /\ protoMultiset' = With(<<>>, fromJS(v), 1)
    /\ copies' = [w \in Sample |-> IF Alike(w, v) THEN 1 ELSE 0]
    /\ UNCHANGED <<protoSet, sparseList, members, stored>>

SparseListSet(t, i, v) ==
    /\ Does(t, "SparseList", v)
    /\ sparseList' = [sparseList EXCEPT ![i] = fromJS(v)]
    /\ stored' = [stored EXCEPT ![i] = v]
    /\ UNCHANGED <<protoSet, protoMultiset, members, copies>>

SparseListConstructor(t) ==
    /\ Does(t, "SparseList", Absent)
    /\ sparseList' = [i \in Index |-> Hole]
    /\ stored' = [i \in Index |-> Absent]
    /\ UNCHANGED <<protoSet, protoMultiset, members, copies>>

\* has(), count(), the writes above, Tuple, ImmutableObject, MutableObject,
\* isImmutable, makeImmutable and makeMutable of a value with a function in it.
SetHas(t, v)          == Stays(t, v)
MultisetCount(t, v)   == Stays(t, v)
Tuple(t, v)           == Stays(t, v)
ImmutableObject(t, v) == Stays(t, v)
MutableObject(t, v)   == Stays(t, v)
IsImmutable(t, v)     == Stays(t, v)
MakeImmutable(t, v)   == Stays(t, v)
MakeMutable(t, v)     == Stays(t, v)

\* SparseList.get, and has() and count() of a value without functions.
SparseListGet(i) ==
    IF sparseList[i] = Hole THEN Js("undefined", 0) ELSE toJS(sparseList[i])
SetSize == Cardinality(protoSet)
Has(v) == fromJS(v) \in protoSet

(***************************************************************************)
(* The specification                                                       *)
(***************************************************************************)
Start ==
    /\ BridgeStart
    /\ class \in {"Set", "Multiset", "SparseList"}
    /\ protoSet = {} /\ protoMultiset = <<>>
    /\ sparseList = [i \in Index |-> Hole]
    /\ ops = 0
    /\ members = {}
    /\ copies = [v \in Sample |-> 0]
    /\ stored = [i \in Index |-> Absent]

Operation(t, v) ==
    \/ SetConstructor(t, v) \/ SetAdd(t, v) \/ SetRemove(t, v) \/ SetHas(t, v)
    \/ MultisetConstructor(t, v) \/ MultisetAdd(t, v) \/ MultisetRemove(t, v)
    \/ MultisetCount(t, v)
    \/ \E i \in Index : SparseListSet(t, i, v)
    \/ Tuple(t, v) \/ ImmutableObject(t, v) \/ MutableObject(t, v)
    \/ IsImmutable(t, v) \/ MakeImmutable(t, v) \/ MakeMutable(t, v)

Next ==
    \/ JSContextWrapper /\ UNCHANGED coreVars
    \/ \E t \in Thread :
        \/ \E v \in Sample : Operation(t, v)
        \/ SparseListConstructor(t)
        \/ registerMapping(t) /\ UNCHANGED coreVars

Spec == Start /\ [][Next]_vars

(***************************************************************************)
(* Properties                                                              *)
(***************************************************************************)
\* Every variable keeps its type.
TypeOK ==
    /\ BridgeTypeOK
    /\ Cardinality(protoSet) <= MaxOps
    /\ \A p \in DOMAIN protoMultiset : protoMultiset[p] \in 0..MaxOps
    /\ ops \in 0..MaxOps
    /\ members \subseteq Sample
    /\ \A i \in Index : stored[i] \in Sample \cup {Absent}

\* has(v) is TRUE exactly when a value that protoCore cannot tell from v was
\* added and not removed since; an object is never found again, nor removed.
SetAnswers ==
    \A v \in Sample : v.type \notin {"function", "object"} =>
        (Has(v) <=> \E w \in members : Alike(v, w))

\* count(v) is the number of values like v added less the ones removed.
MultisetAnswers ==
    \A v \in Sample : v.type \notin {"function", "object"} =>
        Counted(protoMultiset, fromJS(v)) = copies[v]

\* get(i) gives back the value last set for exactly the values that survive
\* both conversions: an integral number above MaxInt32 comes back as a BigInt,
\* a small BigInt as a number, undefined as null, a method-less object as an
\* object without its properties.
Survives(v) ==
    CASE v.type \in {"null", "string"} -> TRUE
      [] v.type \in {"number", "array"} -> v.x % 2 = 1 \/ v.x <= 2 * MaxInt32
      [] v.type = "bigint" -> v.x > MaxInt32
      [] OTHER -> FALSE

SparseListAnswers ==
    \A i \in Index : (stored[i] # Absent /\ stored[i].type # "object") =>
        (SparseListGet(i) = stored[i] <=> Survives(stored[i]))

\* A function never reaches a collection: the call that was to put it there
\* holds mapMutex and has not returned.
FunctionsStayOut ==
    /\ \A v \in members : FunctionsOf(v) = {}
    /\ reverse # {} => mapMutex # Nobody

\* The facts above.
CoreSafety ==
    SetAnswers /\ MultisetAnswers /\ SparseListAnswers /\ FunctionsStayOut

=============================================================================
