------------------------------ MODULE Resolver ------------------------------
(***************************************************************************)
(* From a specifier to a file (src/src/modules/ModuleResolver.cpp), while  *)
(* files come and go.  A path stands for its candidates: the file of that  *)
(* name, the file with each extension, the index file of the directory of  *)
(* that name.                                                              *)
(***************************************************************************)
EXTENDS Naturals, Sequences

CONSTANTS
    Depth,       \* directories from the importing file up, "/" excluded
    Specifier,   \* bare specifiers, sequences of path components
    Candidate,   \* subset of AllCandidates that may exist
    MaxChanges   \* bound: changes of the file system

VARIABLES
    place,       \* candidates at the path of a relative or absolute specifier
    json,        \* [Level \X Name -> fields of package.json, or NoJson]
    entries,     \* <<level, name, entry point, candidate>> that exist
    fsChanges

vars == <<place, json, entries, fsChanges>>

Extensions == <<".node", ".so", ".protojs", ".js", ".mjs">>
ExtensionSet == {Extensions[i] : i \in DOMAIN Extensions}

\* The candidates of a path in the order in which they are tried.
Order == <<<<"file", "">>>> \o [i \in DOMAIN Extensions |-> <<"ext", Extensions[i]>>]
                            \o [i \in DOMAIN Extensions |-> <<"index", Extensions[i]>>]
AllCandidates == {Order[i] : i \in DOMAIN Order}
None == <<"none", "">>

\* parsePackageJson: main and module are given or not, type is "module" or not;
\* exports is never filled.
Fields == [main : BOOLEAN, module : BOOLEAN, type : {"module", "commonjs"}]
NoJson == [main |-> FALSE, module |-> FALSE, type |-> "none"]

\* The first two components, whether or not the first one is a scope.
packageName(spec) == IF Len(spec) > 2 THEN SubSeq(spec, 1, 2) ELSE spec

Level == 1..Depth
Name == {packageName(s) : s \in Specifier}
EntryPoint == {"main.js", "module.mjs", "index.js"}

Start ==
    /\ place = {} /\ entries = {} /\ fsChanges = 0
    /\ json = [p \in Level \X Name |-> NoJson]

(***************************************************************************)
(* The file system, external                                               *)
(***************************************************************************)
\* A name is a file or a directory.
Coherent(set) == ~(<<"file", "">> \in set /\ \E c \in set : c[1] = "index")

AtEntry(l, n, e) == {c \in AllCandidates : <<l, n, e, c>> \in entries}

Toggle(set, x) == IF x \in set THEN set \ {x} ELSE set \cup {x}

Changes == fsChanges < MaxChanges /\ fsChanges' = fsChanges + 1

PlaceChanges(c) ==
    /\ Changes
    /\ place' = Toggle(place, c) /\ Coherent(place')
    /\ UNCHANGED <<json, entries>>

EntryChanges(l, n, e, c) ==
    /\ Changes
    /\ Coherent(Toggle(AtEntry(l, n, e), c))
    /\ entries' = Toggle(entries, <<l, n, e, c>>)
    /\ UNCHANGED <<place, json>>

JsonChanges(l, n, fields) ==
    /\ Changes
    /\ json' = [json EXCEPT ![<<l, n>>] = fields]
    /\ UNCHANGED <<place, entries>>

(***************************************************************************)
(* ModuleResolver                                                          *)
(***************************************************************************)
Preference(i) == Order[i]

\* isFile, tryExtensions, tryDirectory
try(set) ==
    LET found == {i \in DOMAIN Order : Preference(i) \in set} IN
    IF found = {} THEN None
    ELSE Preference(CHOOSE i \in found : \A j \in found : i <= j)

\* setTypeFromPath: own is the extension of the path itself.
setTypeFromPath(c, own) ==
    LET ext == IF c[1] = "file" THEN own ELSE c[2] IN
    CASE ext = ".mjs" -> "ESM"
      [] ext \in {".node", ".so", ".dll", ".dylib", ".protojs"} -> "Native"
      [] OTHER -> "CommonJS"

Result(at, c, type, isPackage) ==
    [at |-> at, file |-> c, type |-> type, isPackage |-> isPackage]

resolveRelative(own) ==
    Result("place", try(place),
           IF try(place) = None THEN "CommonJS" ELSE setTypeFromPath(try(place), own),
           FALSE)

\* An absolute path that is not there is returned as it was given.
resolveAbsolute(own) ==
    IF try(place) # None THEN resolveRelative(own)
    ELSE Result("place", <<"file", "">>, "CommonJS", FALSE)

entryPoint(fields) ==
    IF fields.module /\ fields.type = "module" THEN "module.mjs"
    ELSE IF fields.main THEN "main.js" ELSE "index.js"

\* What the package.json at a level says, before the name of the file does.
jsonType(fields) ==
    IF entryPoint(fields) # "index.js" /\ fields.type = "module" THEN "ESM"
    ELSE "CommonJS"

Own(e) == IF e = "module.mjs" THEN ".mjs" ELSE ".js"

entryFile(l, n) ==
    IF json[<<l, n>>] = NoJson THEN None
    ELSE try(AtEntry(l, n, entryPoint(json[<<l, n>>])))

\* The walk goes up until a package has a package.json and an entry point that
\* is there; result keeps the type and isPackage of one that has only the first.
resolveNodeModules(spec) ==
    LET n == packageName(spec)
        usable == {l \in Level : entryFile(l, n) # None}
        listed == {l \in Level : json[<<l, n>>] # NoJson} IN
    IF usable # {}
    THEN LET l == CHOOSE l \in usable : \A k \in usable : l <= k
             e == entryPoint(json[<<l, n>>])
         IN Result(<<l, n, e>>, entryFile(l, n),
                   setTypeFromPath(entryFile(l, n), Own(e)), TRUE)
    ELSE Result("nowhere", None,
                IF listed = {} THEN "CommonJS"
                ELSE jsonType(json[<<CHOOSE l \in listed :
                                         \A k \in listed : k <= l, n>>]),
                listed # {})

Next ==
    \/ \E c \in Candidate : PlaceChanges(c)
    \/ \E l \in Level, n \in Name :
        \/ \E e \in EntryPoint, c \in Candidate : EntryChanges(l, n, e, c)
        \/ \E fields \in Fields \cup {NoJson} : JsonChanges(l, n, fields)

Spec == Start /\ [][Next]_vars

(***************************************************************************)
(* Properties                                                              *)
(***************************************************************************)
\* Every variable keeps its type.
TypeOK ==
    /\ place \subseteq Candidate /\ Coherent(place)
    /\ json \in [Level \X Name -> Fields \cup {NoJson}]
    /\ entries \subseteq (Level \X Name \X EntryPoint \X Candidate)

\* A file that is found exists, except for an absolute path: then require()
\* fails only when it opens the file.
FoundExists ==
    /\ resolveRelative("").file \in place \cup {None}
    /\ \A s \in Specifier :
        LET r == resolveNodeModules(s) IN
        r.file # None =>
            r.file \in AtEntry(r.at[1], r.at[2], r.at[3])
    /\ resolveAbsolute("").file # None

\* A package is taken from the nearest directory that has a usable one: what is
\* farther away decides nothing.
NearestDecides ==
    \A s \in Specifier :
        LET r == resolveNodeModules(s) IN
        r.file # None =>
            \A l \in Level : l < r.at[1] =>
                entryFile(l, packageName(s)) = None

\* A native library hides a script of the same name, and only a path that is
\* itself a file hides the library.
NativeHidesScript ==
    \A own \in {"", ".js"} :
        LET r == resolveRelative(own) IN
        (\E c \in place : c[1] = "ext" /\ c[2] \in {".node", ".so", ".protojs"})
            => r.type = "Native" \/ r.file[1] = "file"

\* The facts above.
Safety == FoundExists /\ NearestDecides /\ NativeHidesScript

=============================================================================
