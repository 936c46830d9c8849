---------------------------- MODULE Collections ----------------------------
(***************************************************************************)
(* Two computations that several components share: the closure that both   *)
(* component catalogs compute over their dependencies, and the entries of  *)
(* a backup that stay in it when a restore has put back the others.        *)
(***************************************************************************)
EXTENDS Integers, Sequences, FiniteSets

\* The nodes one step further: those of S and all that they need.
Grow(succ, S) == S \cup UNION {succ[c] : c \in S}

\* Everything reachable from S.  A step that adds nothing is the last one, so
\* as many steps as there are nodes are enough.
Reachable(nodes, succ, S) ==
    LET grow[n \in 0 .. Cardinality(nodes)] ==
            IF n = 0 THEN S ELSE Grow(succ, grow[n - 1])
    IN  grow[Cardinality(nodes)]

\* g names the positions I in ascending order.
Ascending(g, I) ==
    /\ g \in [1 .. Cardinality(I) -> I]
    /\ \A j, k \in DOMAIN g : j < k => g[j] < g[k]
    /\ \A i \in I : \E j \in DOMAIN g : g[j] = i

\* The entries of s at the positions I, in their order.
Retained(s, I) ==
    LET at == CHOOSE g \in [1 .. Cardinality(I) -> I] : Ascending(g, I)
    IN  [j \in 1 .. Cardinality(I) |-> s[at[j]]]
=============================================================================
