------------------------------- MODULE Semver -------------------------------
(***************************************************************************)
(* The choice of a package version (src/src/npm/Semver.cpp and             *)
(* NPMRegistry::resolveVersion), for every set of versions a registry may  *)
(* publish.  Versions is the order in which the std::map of the metadata   *)
(* lists the names; a published version is its position in it.             *)
(***************************************************************************)
EXTENDS Integers, Sequences

CONSTANTS
    Versions,   \* Seq([parsed, n : <<major, minor, patch>>, pre])
    Range       \* set of [op, target], target a position

VARIABLE published   \* positions of the versions the registry lists

Start == published = {}

(***************************************************************************)
(* Operators of Semver                                                     *)
(***************************************************************************)
\* parse fails on a name without three numbers; pre is 0 without a prerelease
\* and otherwise its rank among the prerelease strings.  Versions has no name
\* with a '-' behind its '+' (1.0.0+a-b), on which parse throws out_of_range
\* (.cpp:31).
parse(i) == Versions[i].parsed

Sign(a, b) == IF a < b THEN -1 ELSE IF a > b THEN 1 ELSE 0

comparePrerelease(p, q) ==
    CASE p = 0 /\ q # 0 -> 1
      [] p # 0 /\ q = 0 -> -1
      [] OTHER -> Sign(p, q)

\* Two versions are equal if either cannot be parsed.
compare(i, j) ==
    LET m == Versions[i].n
        n == Versions[j].n
        differ == {k \in 1..3 : m[k] # n[k]} IN
    IF ~parse(i) \/ ~parse(j) THEN 0
    ELSE IF differ # {}
    THEN LET k == CHOOSE k \in differ : \A l \in differ : k <= l
         IN Sign(m[k], n[k])
    ELSE comparePrerelease(Versions[i].pre, Versions[j].pre)

\* A slip: the patch is compared although the minor differs.
caretFlat(m, n) == m[1] = n[1] /\ m[3] >= n[3]

\* ^n accepts m: for a major version above 0 nothing but it is compared.
caret(m, n) ==
    /\ m[1] = n[1]
    /\ m[1] = 0 => m[2] = n[2] /\ m[3] >= n[3]

tilde(m, n) == m[1] = n[1] /\ m[2] = n[2] /\ m[3] >= n[3]

satisfies(i, r) ==
    LET c == compare(i, r.target)
        both == parse(i) /\ parse(r.target) IN
    CASE r.op \in {"*", "latest"} -> TRUE
      [] r.op = "="  -> c = 0
      [] r.op = ">"  -> c > 0
      [] r.op = ">=" -> c >= 0
      [] r.op = "<"  -> c < 0
      [] r.op = "<=" -> c <= 0
      [] r.op = "~"  -> both /\ tilde(Versions[i].n, Versions[r.target].n)
      [] r.op = "^"  -> both /\ caret(Versions[i].n, Versions[r.target].n)

\* The versions are scanned in the order of the map; 0 is the empty name.
Better(i, best, r) ==
    satisfies(i, r) /\ (best = 0 \/ compare(i, best) > 0)

findHighest(names, r) ==
    LET best[k \in 0..Len(Versions)] ==
            IF k = 0 THEN 0
            ELSE IF k \in names /\ Better(k, best[k - 1], r) THEN k
            ELSE best[k - 1]
    IN best[Len(Versions)]

resolveVersion(names, r) == findHighest(names, r)

\* The registry publishes or withdraws a version.
Publish(i) ==
    published' = IF i \in published THEN published \ {i} ELSE published \cup {i}

Next == \E i \in DOMAIN Versions : Publish(i)

Spec == Start /\ [][Next]_published

(***************************************************************************)
(* What ranges mean: ~n is the versions from n to the next minor version,  *)
(* ^n the ones from n to the next version that may break compatibility.    *)
(***************************************************************************)
Newer(i, j) == parse(i) /\ parse(j) /\ compare(i, j) >= 0

Means(i, r) ==
    LET m == Versions[i].n
        n == Versions[r.target].n IN
    CASE r.op = "~" -> Newer(i, r.target) /\ m[1] = n[1] /\ m[2] = n[2]
      [] r.op = "^" -> Newer(i, r.target) /\ m[1] = n[1]
                       /\ (n[1] = 0 => m[2] = n[2])
      [] OTHER -> satisfies(i, r)

\* If every published name can be parsed and one is in the range, the version
\* chosen is in the range and none in the range is newer.  The comparison of
\* ^ with the major version alone only shows when the range is empty.
ResolvesHighest ==
    \A r \in Range :
        LET inRange == {i \in published : Means(i, r)}
            chosen == resolveVersion(published, r) IN
        (inRange # {} /\ \A i \in published : parse(i)) =>
            /\ chosen \in inRange
            /\ \A i \in inRange : compare(chosen, i) >= 0

=============================================================================
