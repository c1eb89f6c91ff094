------------------------------ MODULE Packages ------------------------------
(***************************************************************************)
(* The package installer (src/src/npm/PackageInstaller.cpp) and the        *)
(* registry client (src/src/npm/NPMRegistry.cpp): one call at a time       *)
(* resolves versions, downloads tarballs, in parallel if it was asked to,  *)
(* and extracts them.  The registry is external: it may publish, withdraw  *)
(* and fail at any time.                                                   *)
(*                                                                         *)
(* The results of parallel downloads are bits of one word of a             *)
(* std::vector<bool>: each task reads the word and writes it back.         *)
(***************************************************************************)
EXTENDS Naturals, FiniteSets

CONSTANTS
    Package,         \* requested packages
    Version,         \* natural numbers: the order of their names
    Concurrency,     \* values of options.parallelDownloads, 0 excepted
    MaxCalls,        \* bound: calls of the installer
    MaxChanges       \* bound: changes of the registry

VARIABLES
    registry,   \* [Package -> SUBSET Version]
    changes,    \* changes of the registry so far
    cache,      \* [Package -> SUBSET Version], g_cache; {} is no entry
    call,       \* the call in progress, or "none"
    maxConcurrency, \* downloads it makes at once
    todo,       \* packages the call has not resolved yet
    resolved,   \* [Package -> Version or 0]
    task,       \* [Package -> step of its download]
    fetched,    \* packages whose tarball was downloaded
    word,       \* the bits of results: packages with TRUE
    seen,       \* [Package -> word as its task read it]
    overlapped, \* ghost: a task wrote a word that had changed since
    dir,        \* [Package -> versions with files in its directory]
    tmp,        \* packages with a .tmp directory
    reply,      \* what the last call returned
    made        \* calls so far

vars == <<registry, changes, cache, call, maxConcurrency, todo, resolved, task,
          fetched, word, seen, overlapped, dir, tmp, reply, made>>
fileVars == <<dir, tmp>>
callVars == <<call, maxConcurrency, todo, resolved, reply, made>>
taskVars == <<task, fetched, word, seen, overlapped>>
netVars == <<registry, changes>>

Start ==
    /\ registry = [p \in Package |-> Version] /\ changes = 0
    /\ cache = [p \in Package |-> {}]
    /\ call = "none" /\ todo = {} /\ made = 0 /\ maxConcurrency = 1
    /\ resolved = [p \in Package |-> 0]
    /\ task = [p \in Package |-> "none"]
    /\ fetched = {} /\ word = {} /\ seen = [p \in Package |-> {}]
    /\ overlapped = FALSE
    /\ dir = [p \in Package |-> {}] /\ tmp = {}
    /\ reply = [ok |-> TRUE, of |-> {}]

(***************************************************************************)
(* The registry                                                            *)
(***************************************************************************)
\* The set of published versions changes; 0 versions: it cannot be reached.
RegistryChanges(p, set) ==
    /\ changes < MaxChanges /\ set # registry[p]
    /\ registry' = [registry EXCEPT ![p] = set]
    /\ changes' = changes + 1
    /\ UNCHANGED <<cache, callVars, taskVars, fileVars>>

\* The entry is older than g_cacheTTL, or clearCache is called.
CacheExpires(p) ==
    /\ cache[p] # {}
    /\ cache' = [cache EXCEPT ![p] = {}]
    /\ UNCHANGED <<netVars, callVars, taskVars, fileVars>>

\* fetchPackage: the cached metadata, else the registry's, which is cached.
fetchPackage(p) == IF cache[p] # {} THEN cache[p] ELSE registry[p]

Highest(set) == IF set = {} THEN 0 ELSE CHOOSE v \in set : \A w \in set : w <= v

(***************************************************************************)
(* Calls                                                                   *)
(***************************************************************************)
Begin(op, packages, n) ==
    /\ call = "none" /\ made < MaxCalls
    /\ call' = op /\ made' = made + 1 /\ maxConcurrency' = n
    /\ todo' = packages
    /\ resolved' = [p \in Package |-> 0]
    /\ fetched' = {} /\ word' = {} /\ overlapped' = FALSE
    /\ task' = [p \in Package |-> "none"] /\ seen' = [p \in Package |-> {}]
    /\ UNCHANGED <<netVars, cache, reply>>

installPackages(n) == Begin("installPackages", Package, n) /\ UNCHANGED fileVars

\* install() of a package.json, and installPackage: one after the other.
installPackage(p) == Begin("installPackage", {p}, 1) /\ UNCHANGED fileVars

uninstallPackage(p) ==
    /\ call = "none" /\ dir[p] # {}
    /\ dir' = [dir EXCEPT ![p] = {}]
    /\ reply' = [ok |-> TRUE, of |-> {}]
    /\ UNCHANGED <<netVars, cache, call, maxConcurrency, todo, resolved, made,
                   taskVars, tmp>>

\* updatePackage uninstalls first, whatever the installation will do.
updatePackage(p) ==
    /\ Begin("updatePackage", {p}, 1)
    /\ dir' = [dir EXCEPT ![p] = {}]
    /\ UNCHANGED tmp

\* resolveVersion of the next package.  One that cannot be resolved is left
\* out by installPackages and is the failure of the other calls.
resolve(p) ==
    LET v == Highest(fetchPackage(p)) IN
    /\ call # "none" /\ p \in todo /\ \A q \in todo : p <= q
    /\ todo' = todo \ {p}
    /\ cache' = [cache EXCEPT ![p] = fetchPackage(p)]
    /\ resolved' = [resolved EXCEPT ![p] = v]
    /\ tmp' = IF v # 0 THEN tmp \cup {p} ELSE tmp
    /\ task' = IF v # 0 THEN [task EXCEPT ![p] = "ready"] ELSE task
    /\ UNCHANGED <<netVars, call, maxConcurrency, reply, made, fetched, word,
                   seen, overlapped, dir>>

Specs == {p \in Package : resolved[p] # 0}
Running == {p \in Package : task[p] \in {"fetch", "download", "read", "write"}}

(***************************************************************************)
(* Downloads: batches of at most maxConcurrency tasks in the order of the  *)
(* specs; the next batch starts when the last one is complete.             *)
(***************************************************************************)
Ready == {p \in Package : task[p] = "ready"}

\* A slip: every package is downloaded at once.
BatchAll == Ready

Batch == {p \in Ready : Cardinality({q \in Ready : q < p}) < maxConcurrency}

startBatch ==
    /\ call # "none" /\ todo = {} /\ Running = {} /\ Ready # {}
    /\ task' = [p \in Package |-> IF p \in Batch THEN "fetch" ELSE task[p]]
    /\ UNCHANGED <<netVars, cache, callVars, fetched, word, seen, overlapped,
                   fileVars>>

Reaches(p, step) ==
    /\ task' = [task EXCEPT ![p] = step]
    /\ UNCHANGED <<netVars, callVars, overlapped, fileVars>>

\* What a task does when downloadPackage returns: only parallel ones share
\* results.
After == IF call = "installPackages" THEN "read" ELSE "done"

\* downloadPackage asks for the metadata again; the version may be gone.
downloadFetch(p) ==
    /\ task[p] = "fetch"
    /\ cache' = [cache EXCEPT ![p] = fetchPackage(p)]
    /\ Reaches(p, IF resolved[p] \in fetchPackage(p) THEN "download" ELSE After)
    /\ UNCHANGED <<fetched, word, seen>>

\* httpDownload returns TRUE, perhaps with a tarball cut short.
httpDownload(p, ok) ==
    /\ task[p] = "download"
    /\ fetched' = IF ok THEN fetched \cup {p} ELSE fetched
    /\ Reaches(p, After)
    /\ UNCHANGED <<cache, word, seen>>

\* results[idx] = ok reads the word that holds the bit ...
readWord(p) ==
    /\ task[p] = "read"
    /\ seen' = [seen EXCEPT ![p] = word]
    /\ Reaches(p, "write")
    /\ UNCHANGED <<cache, fetched, word>>

Bit(p) == IF p \in fetched THEN seen[p] \cup {p} ELSE seen[p] \ {p}

\* ... and writes it back with its own bit changed.
writeWord(p) ==
    /\ task[p] = "write"
    /\ word' = Bit(p)
    /\ overlapped' = (overlapped \/ seen[p] # word)
    /\ task' = [task EXCEPT ![p] = "done"]
    /\ UNCHANGED <<netVars, cache, callVars, fetched, seen, fileVars>>

(***************************************************************************)
(* Extraction, in the order of the specs, and the end of the call.  tar    *)
(* may fail after it has written some files.                               *)
(***************************************************************************)
Downloaded(p) == IF call = "installPackages" THEN p \in word ELSE p \in fetched

extractTarball(p, ok) ==
    LET files == dir[p] \cup {resolved[p]} IN
    /\ todo = {} /\ Running = {} /\ Ready = {}
    /\ task[p] = "done" /\ Downloaded(p)
    /\ \A q \in Package : q < p => task[q] # "done"
    /\ task' = [task EXCEPT ![p] = IF ok THEN "installed" ELSE "failed"]
    /\ dir' \in {[dir EXCEPT ![p] = files]}
                    \cup (IF ok THEN {} ELSE {dir})
    /\ tmp' = tmp \ {p}
    /\ UNCHANGED <<netVars, cache, callVars, fetched, word, seen, overlapped>>

downloadFailed(p) ==
    /\ todo = {} /\ Running = {} /\ Ready = {}
    /\ task[p] = "done" /\ ~Downloaded(p)
    /\ \A q \in Package : q < p => task[q] # "done"
    /\ task' = [task EXCEPT ![p] = "failed"]
    /\ tmp' = tmp \ {p}
    /\ UNCHANGED <<netVars, cache, callVars, fetched, word, seen, overlapped,
                   dir>>

Return ==
    /\ call # "none" /\ todo = {}
    /\ \A p \in Package : task[p] \in {"none", "installed", "failed"}
    /\ reply' = [ok |-> /\ Specs # {}
                        /\ \A p \in Specs : task[p] = "installed",
                 of |-> Specs]
    /\ call' = "none"
    /\ UNCHANGED <<netVars, cache, maxConcurrency, todo, resolved, made,
                   taskVars, fileVars>>

Next ==
    \/ \E p \in Package, set \in SUBSET Version : RegistryChanges(p, set)
    \/ \E p \in Package :
        \/ CacheExpires(p) \/ installPackage(p) \/ uninstallPackage(p)
        \/ updatePackage(p) \/ resolve(p) \/ downloadFetch(p) \/ readWord(p)
        \/ writeWord(p) \/ downloadFailed(p)
        \/ \E ok \in BOOLEAN : httpDownload(p, ok) \/ extractTarball(p, ok)
    \/ \E n \in Concurrency : installPackages(n)
    \/ startBatch \/ Return

Spec == Start /\ [][Next]_vars

(***************************************************************************)
(* Properties                                                              *)
(***************************************************************************)
\* Every variable keeps its type, and a batch has at most maxConcurrency tasks.
TypeOK ==
    /\ registry \in [Package -> SUBSET Version]
    /\ cache \in [Package -> SUBSET Version]
    /\ call \in {"none", "installPackages", "installPackage", "updatePackage"}
    /\ resolved \in [Package -> Version \cup {0}]
    /\ dir \in [Package -> SUBSET Version]
    /\ Cardinality(Running) <= maxConcurrency
    /\ reply.ok \in BOOLEAN

\* Between calls no .tmp directory is left, whatever failed.
NoTmpLeft == call = "none" => tmp = {}

\* A download is never reported that did not happen: the race on the word of
\* results can lose a success but not invent one.
NoInventedDownload == word \subseteq fetched

\* A success is lost only when two tasks of a batch overlapped in the word.
LossNeedsOverlap ==
    (/\ call = "installPackages" /\ ~overlapped
     /\ \A p \in Package : task[p] \notin {"read", "write"})
        => \A p \in fetched : p \in word

\* A call that returns TRUE has put the files of the version it resolved in
\* the directory of each package it resolved (installPackages also returns
\* TRUE when it could not resolve some of them).
TrueMeansInstalled ==
    (call = "none" /\ reply.ok) => \A p \in reply.of : resolved[p] \in dir[p]

\* The facts above.
Safety ==
    /\ NoTmpLeft /\ NoInventedDownload /\ LossNeedsOverlap
    /\ TrueMeansInstalled

=============================================================================
