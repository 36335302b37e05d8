------------------------------ MODULE DiffGraphs ------------------------------
(***************************************************************************)
(* The target graphs that a comparison works on (internal/targetdiff,      *)
(* types Target and Graph) and what a comparison should find in a pair of  *)
(* them, said without an algorithm.                                        *)
(*                                                                         *)
(* A graph is a function from the names it has to targets.  Of a target    *)
(* only what a comparison reads is kept: the hash, whether it is a source  *)
(* file, the direct dependencies (a set: the producer lists each once) and *)
(* the allowlisted attributes.                                             *)
(***************************************************************************)
EXTENDS Integers, FiniteSets

CONSTANTS Names,    \* labels of targets
          Hashes,   \* target hashes; "" is the hash of an excluded target or a cycle
          Attrs     \* values of the allowlisted attributes

ASSUME NamesAssumption == IsFiniteSet(Names)

Targets == [hash : Hashes, source : BOOLEAN, deps : SUBSET Names, attrs : Attrs]

\* Every dependency is a target of the graph: tgb.Encode refuses any other.
IsGraph(g) ==
    /\ DOMAIN g \subseteq Names
    /\ \A n \in DOMAIN g : g[n] \in Targets /\ g[n].deps \subseteq DOMAIN g

Dependents(g, n) == {m \in DOMAIN g : n \in g[m].deps}

-----------------------------------------------------------------------------
(* The reference: what changed, what changed by itself, and how far the     *)
(* rest is from it.                                                         *)

NewIn(b, a) == DOMAIN a \ DOMAIN b
DeletedIn(b, a) == DOMAIN b \ DOMAIN a
ModifiedIn(b, a) == {n \in DOMAIN a \cap DOMAIN b : b[n].hash # a[n].hash}
ChangedIn(b, a) == NewIn(b, a) \cup DeletedIn(b, a) \cup ModifiedIn(b, a)

\* A modified target is a change of its own unless a modified dependency, and
\* nothing about the target itself, accounts for its hash.
OwnChange(b, a, n) ==
    \/ a[n].source
    \/ a[n].deps \cap ModifiedIn(b, a) = {}
    \/ a[n].deps # b[n].deps
    \/ a[n].attrs # b[n].attrs
    \/ \E d \in a[n].deps \cap ChangedIn(b, a) : a[d].source

SeedsIn(b, a) ==
    NewIn(b, a) \cup DeletedIn(b, a) \cup {n \in ModifiedIn(b, a) : OwnChange(b, a, n)}

\* Merkle hashes: a target whose hash stayed has no changed dependency.  An
\* excluded target, whose hash is always empty, may be an exception.
HashesCover(b, a) ==
    \A n \in DOMAIN a \cap DOMAIN b : a[n].hash = b[n].hash => a[n].deps \cap ChangedIn(b, a) = {}

\* Within[k]: the members of S that a path of at most k dependencies, all of it
\* in S, connects to one of the roots.
Within(g, S, roots) ==
    LET W[k \in 0..Cardinality(Names)] ==
          IF k = 0 THEN roots
          ELSE LET nearer == W[k - 1]
               IN nearer \cup {n \in S \cap DOMAIN g : g[n].deps \cap nearer # {}}
    IN W

\* The length of the shortest such path up to limit (unless negative), or -1.
Shortest(g, S, roots, limit) ==
    LET W == Within(g, S, roots)
        far == Cardinality(Names)
    IN [n \in S |->
          IF n \notin W[far] THEN -1
          ELSE LET d == CHOOSE k \in 0..far : n \in W[k] /\ \A j \in 0..(k - 1) : n \notin W[j]
               IN IF limit >= 0 /\ d > limit THEN -1 ELSE d]

=============================================================================
