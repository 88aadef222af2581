----------------------------- MODULE MCAfforest -----------------------------
(* Small instances of Afforest for TLC.                                    *)
EXTENDS Afforest, SequencesExt

\* Sorted neighbour lists, as gapbs-1.5/src/builder.h makes them.
Sorted(S) == SetToSortSeq(S, <)
Undirected(E, k) ==
  [out |-> [u \in Node |-> Sorted({v \in Node : {u, v} \in E})],
   directed |-> FALSE, rounds |-> k]
DirectedGraph(E, k) ==
  [out |-> [u \in Node |-> Sorted({v \in Node : <<u, v>> \in E})],
   directed |-> TRUE, rounds |-> k]

\* Edges that no sampling round links, between two trees, in an undirected
\* and in a directed graph; two nodes that contend for one root;
\* an isolated node.
GraphsDef ==
  { Undirected({{0, 2}, {1, 3}, {2, 3}}, 1),
    Undirected({{1, 3}, {2, 3}}, 1),
    DirectedGraph({<<2, 0>>, <<2, 1>>, <<2, 3>>}, 2) }
=============================================================================
