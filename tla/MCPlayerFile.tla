---------------------------- MODULE MCPlayerFile ----------------------------
(* PlayerFile for TLC: two connections and three objects of one character. *)
EXTENDS PlayerFile, TLC

CONSTANTS u1, u2, o1, o2, o3

TwoConns == {u1, u2}
ThreeObjs == {o1, o2, o3}

\* Of a coder, who may have any number of bodies, a smaller part is explored than of a
\* mortal: one connection, two objects, and no progress.
CodersPart ==
  coder => /\ Cardinality(Objs \ Free) <= 2
           /\ Cardinality({u \in TwoConns : conn[u] # Off}) <= 1
           /\ \A o \in Objs : obj[o].v <= 1

\* Connections are alike, and so are objects.
Alike == Permutations(TwoConns) \cup Permutations(ThreeObjs)
=============================================================================
