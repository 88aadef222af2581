------------------------------ MODULE Afforest ------------------------------
(***************************************************************************)
(* Connected components of the GAP benchmark suite (gapbs-1.5/src/cc.cc):  *)
(* the Afforest algorithm.  comp is a forest of parent pointers over the   *)
(* nodes.  Threads of OpenMP loops link the two trees of an edge with a    *)
(* compare-and-swap on a root, first for a few neighbours of each node,    *)
(* and compress the forest between the loops.  Then the nodes of one large *)
(* component are skipped and the other nodes link their remaining edges.   *)
(*                                                                         *)
(* comp is shared without locks: every load and store of an element is a   *)
(* step of its own.  Where the compiler may reuse a value it has loaded    *)
(* (no synchronisation lies between), both outcomes are allowed.  A loop   *)
(* hands out its nodes in any order (schedule(dynamic)) and ends at a      *)
(* barrier.                                                                *)
(***************************************************************************)
EXTENDS Integers, Sequences

CONSTANTS
  N,        \* number of nodes, 0..N-1
  Workers,  \* OpenMP threads
  Graphs    \* arguments of Afforest: a graph [out, directed] with the
            \* neighbor_rounds to sample [rounds]

Node == 0..(N - 1)

\* Nodes a node has an edge to, or from.
OutSet(gr, u) == {gr.out[u][i] : i \in 1..Len(gr.out[u])}
InSet(gr, u)  == {v \in Node : u \in OutSet(gr, v)}

\* An undirected graph stores every edge in both directions.
ASSUME AfforestAssumption ==
  /\ N \in Nat \ {0}
  /\ \A gr \in Graphs :
       /\ gr.rounds \in Nat \ {0}
       /\ gr.out \in [Node -> Seq(Node)] /\ gr.directed \in BOOLEAN
       /\ gr.directed \/ \A u, v \in Node :
            v \in OutSet(gr, u) => u \in OutSet(gr, v)

VARIABLES
  g,      \* the arguments
  comp,   \* parent of each node, in the end its component
  stage,  \* the parallel loop that runs
  round,  \* r of the sampling rounds
  c,      \* the component SampleFrequentElement returned
  todo,   \* nodes of the loop no thread has taken yet
  pc,     \* where each thread is
  at,     \* the node a thread works on (u of Link, n of Compress)
  rest,   \* neighbours of it that it has still to link
  to,     \* v of Link
  a, b,   \* p1 and p2 of Link; a is comp[n] in Compress
  t       \* the last value loaded through a or b

vars == <<g, comp, stage, round, c, todo, pc, at, rest, to, a, b, t>>

TypeOK ==
  /\ g \in Graphs /\ comp \in [Node -> Node]
  /\ stage \in {"link", "compress", "final", "last", "done"}
  /\ round \in 0..(g.rounds - 1) /\ c \in Node /\ todo \subseteq Node
  /\ pc \in [Workers -> {"idle", "next", "p2", "loop", "cas", "reload", "p1b",
                         "p2b", "up", "jump", "crawl"}]
  /\ at \in [Workers -> Node] /\ rest \in [Workers -> SUBSET Node]
  /\ to \in [Workers -> Node]
  /\ a \in [Workers -> Node] /\ b \in [Workers -> Node] /\ t \in [Workers -> Node]

\* Every node is a tree of its own; the first sampling round begins.
Init ==
  /\ g \in Graphs /\ comp = [n \in Node |-> n]
  /\ stage = "link" /\ round = 0 /\ c = 0 /\ todo = Node
  /\ pc = [w \in Workers |-> "idle"] /\ at = [w \in Workers |-> 0]
  /\ rest = [w \in Workers |-> {}] /\ to = [w \in Workers |-> 0]
  /\ a = [w \in Workers |-> 0] /\ b = [w \in Workers |-> 0]
  /\ t = [w \in Workers |-> 0]

-----------------------------------------------------------------------------
(* The bodies of the link loops: which neighbours a node links.            *)

\* The neighbour at offset r, if there is one.
Sampled(gr, u, r) == IF r < Len(gr.out[u]) THEN {gr.out[u][r + 1]} ELSE {}

\* The neighbours behind the sampled ones; in a directed graph all nodes
\* with an edge to u as well.
Remaining(gr, u) ==
  {gr.out[u][i] : i \in (gr.rounds + 1)..Len(gr.out[u])}
    \cup (IF gr.directed THEN InSet(gr, u) ELSE {})

Take(w, u, targets) ==
  /\ pc[w] = "idle" /\ u \in todo /\ todo' = todo \ {u}
  /\ at' = [at EXCEPT ![w] = u] /\ rest' = [rest EXCEPT ![w] = targets]
  /\ pc' = [pc EXCEPT ![w] = "next"]

LinkTake(w, u) ==
  /\ stage = "link" /\ Take(w, u, Sampled(g, u, round))
  /\ UNCHANGED <<g, comp, stage, round, c, to, a, b, t>>

\* Nodes that carry the sampled label are skipped.
FinalTake(w, u) ==
  /\ stage = "final"
  /\ IF comp[u] = c
     THEN /\ pc[w] = "idle" /\ u \in todo /\ todo' = todo \ {u}
          /\ UNCHANGED <<pc, at, rest>>
     ELSE Take(w, u, Remaining(g, u))
  /\ UNCHANGED <<g, comp, stage, round, c, to, a, b, t>>

\* The next neighbour, with the first load of Link; or the node is done.
NextNeighbor(w) ==
  /\ pc[w] = "next"
  /\ \/ /\ rest[w] = {} /\ pc' = [pc EXCEPT ![w] = "idle"]
        /\ UNCHANGED <<rest, to, a>>
     \/ \E v \in rest[w] :
          /\ rest' = [rest EXCEPT ![w] = @ \ {v}] /\ to' = [to EXCEPT ![w] = v]
          /\ a' = [a EXCEPT ![w] = comp[at[w]]]
          /\ pc' = [pc EXCEPT ![w] = "p2"]
  /\ UNCHANGED <<g, comp, stage, round, c, todo, at, b, t>>

-----------------------------------------------------------------------------
(* Link.                                                                   *)

High(w) == IF a[w] > b[w] THEN a[w] ELSE b[w]
Low(w)  == IF a[w] > b[w] THEN b[w] ELSE a[w]

LoadP2(w) ==
  /\ pc[w] = "p2"
  /\ b' = [b EXCEPT ![w] = comp[to[w]]] /\ pc' = [pc EXCEPT ![w] = "loop"]
  /\ UNCHANGED <<g, comp, stage, round, c, todo, at, rest, to, a, t>>

\* p_high = comp[high]: already low, a root to be swapped, or neither.
Loop(w) ==
  /\ pc[w] = "loop"
  /\ IF a[w] = b[w]
     THEN pc' = [pc EXCEPT ![w] = "next"] /\ UNCHANGED t
     ELSE /\ t' = [t EXCEPT ![w] = comp[High(w)]]
          /\ pc' = [pc EXCEPT ![w] =
               IF comp[High(w)] = Low(w) THEN "next"
               ELSE IF comp[High(w)] = High(w) THEN "cas" ELSE "reload"]
  /\ UNCHANGED <<g, comp, stage, round, c, todo, at, rest, to, a, b>>

\* A store in place of the compare-and-swap.
CasBlind(w) ==
  /\ pc[w] = "cas"
  /\ comp' = [comp EXCEPT ![High(w)] = Low(w)]
  /\ pc' = [pc EXCEPT ![w] = "next"]
  /\ UNCHANGED <<g, stage, round, c, todo, at, rest, to, a, b, t>>

\* The compare-and-swap with high and low exchanged.
CasUpward(w) ==
  /\ pc[w] = "cas"
  /\ IF comp[Low(w)] = Low(w)
     THEN /\ comp' = [comp EXCEPT ![Low(w)] = High(w)]
          /\ pc' = [pc EXCEPT ![w] = "next"]
     ELSE pc' = [pc EXCEPT ![w] = "reload"] /\ UNCHANGED comp
  /\ UNCHANGED <<g, stage, round, c, todo, at, rest, to, a, b, t>>

\* compare_and_swap(comp[high], high, low)
Cas(w) ==
  /\ pc[w] = "cas"
  /\ IF comp[High(w)] = High(w)
     THEN /\ comp' = [comp EXCEPT ![High(w)] = Low(w)]
          /\ pc' = [pc EXCEPT ![w] = "next"]
     ELSE pc' = [pc EXCEPT ![w] = "reload"] /\ UNCHANGED comp
  /\ UNCHANGED <<g, stage, round, c, todo, at, rest, to, a, b, t>>

\* Reload that tries the same two labels again.
ReloadStale(w) ==
  /\ pc[w] = "reload" /\ pc' = [pc EXCEPT ![w] = "loop"]
  /\ UNCHANGED <<g, comp, stage, round, c, todo, at, rest, to, a, b, t>>

\* p1 = comp[comp[high]]: the inner load, or p_high again.  b keeps low.
Reload(w) ==
  /\ pc[w] = "reload"
  /\ \E x \in {t[w], comp[High(w)]} : t' = [t EXCEPT ![w] = x]
  /\ b' = [b EXCEPT ![w] = Low(w)] /\ pc' = [pc EXCEPT ![w] = "p1b"]
  /\ UNCHANGED <<g, comp, stage, round, c, todo, at, rest, to, a>>

\* The outer load.
ReloadP1(w) ==
  /\ pc[w] = "p1b"
  /\ a' = [a EXCEPT ![w] = comp[t[w]]] /\ pc' = [pc EXCEPT ![w] = "p2b"]
  /\ UNCHANGED <<g, comp, stage, round, c, todo, at, rest, to, b, t>>

\* p2 = comp[low]
ReloadP2(w) ==
  /\ pc[w] = "p2b"
  /\ b' = [b EXCEPT ![w] = comp[b[w]]] /\ pc' = [pc EXCEPT ![w] = "loop"]
  /\ UNCHANGED <<g, comp, stage, round, c, todo, at, rest, to, a, t>>

-----------------------------------------------------------------------------
(* Compress: while (comp[n] != comp[comp[n]]) comp[n] = comp[comp[n]].     *)

CompressTake(w, n) ==
  /\ stage \in {"compress", "last"}
  /\ pc[w] = "idle" /\ n \in todo /\ todo' = todo \ {n}
  /\ at' = [at EXCEPT ![w] = n] /\ a' = [a EXCEPT ![w] = comp[n]]
  /\ pc' = [pc EXCEPT ![w] = "up"]
  /\ UNCHANGED <<g, comp, stage, round, c, rest, to, b, t>>

\* The loop condition: comp[comp[n]].
Up(w) ==
  /\ pc[w] = "up"
  /\ t' = [t EXCEPT ![w] = comp[a[w]]]
  /\ pc' = [pc EXCEPT ![w] = IF comp[a[w]] = a[w] THEN "idle" ELSE "jump"]
  /\ UNCHANGED <<g, comp, stage, round, c, todo, at, rest, to, a, b>>

\* The assignment, of the value just compared or of a fresh one.
Jump(w) ==
  /\ pc[w] = "jump"
  /\ \/ /\ comp' = [comp EXCEPT ![at[w]] = t[w]]
        /\ pc' = [pc EXCEPT ![w] = "crawl"] /\ UNCHANGED t
     \/ /\ t' = [t EXCEPT ![w] = comp[a[w]]] /\ UNCHANGED <<comp, pc>>
  /\ UNCHANGED <<g, stage, round, c, todo, at, rest, to, a, b>>

Crawl(w) ==
  /\ pc[w] = "crawl"
  /\ a' = [a EXCEPT ![w] = comp[at[w]]] /\ pc' = [pc EXCEPT ![w] = "up"]
  /\ UNCHANGED <<g, comp, stage, round, c, todo, at, rest, to, b, t>>

-----------------------------------------------------------------------------
(* The barriers between the parallel loops.                                *)

Barrier ==
  /\ todo = {} /\ \A w \in Workers : pc[w] = "idle"
  /\ UNCHANGED <<g, comp, pc, at, rest, to, a, b, t>>

EndLink ==
  /\ stage = "link" /\ Barrier
  /\ stage' = "compress" /\ todo' = Node /\ UNCHANGED <<round, c>>

\* The next round; after the last one SampleFrequentElement returns the
\* label of some node.
EndCompress ==
  /\ stage = "compress" /\ Barrier /\ todo' = Node
  /\ \/ /\ round + 1 < g.rounds /\ round' = round + 1
        /\ stage' = "link" /\ UNCHANGED c
     \/ /\ round + 1 >= g.rounds /\ UNCHANGED round
        /\ stage' = "final" /\ \E n \in Node : c' = comp[n]

EndFinal ==
  /\ stage = "final" /\ Barrier
  /\ stage' = "last" /\ todo' = Node /\ UNCHANGED <<round, c>>

EndLast ==
  /\ stage = "last" /\ Barrier
  /\ stage' = "done" /\ UNCHANGED <<round, c, todo>>

-----------------------------------------------------------------------------
LinkStep(w) ==
  NextNeighbor(w) \/ LoadP2(w) \/ Loop(w) \/ Cas(w) \/ Reload(w)
    \/ ReloadP1(w) \/ ReloadP2(w)

CompressStep(w) == Up(w) \/ Jump(w) \/ Crawl(w)

TakeStep(w) == \E n \in Node : LinkTake(w, n) \/ FinalTake(w, n) \/ CompressTake(w, n)

Ends == EndLink \/ EndCompress \/ EndFinal \/ EndLast

\* The components are returned.
Done == stage = "done" /\ UNCHANGED vars

Next == (\E w \in Workers : TakeStep(w) \/ LinkStep(w) \/ CompressStep(w)) \/ Ends \/ Done

Spec == Init /\ [][Next]_vars

\* Each thread of a parallel region goes on, and so does the region.
FairSpec ==
  /\ Spec /\ WF_vars(Ends)
  /\ \A w \in Workers : WF_vars(TakeStep(w) \/ LinkStep(w) \/ CompressStep(w))

-----------------------------------------------------------------------------
(* Properties.  Two nodes are connected when no labelling of the nodes     *)
(* that is constant along edges tells them apart.                          *)

Labels == [Node -> Node]

AlongEdges(f) == \A u \in Node : \A v \in OutSet(g, u) : f[u] = f[v]

Connected(u, v) == \A f \in Labels : AlongEdges(f) => f[u] = f[v]

\* Parent pointers lead to smaller nodes only, whatever loads and stores of
\* Link and Compress interleave: the forest never has a cycle.
Descending == \A n \in Node : comp[n] <= n

\* When Afforest returns, two nodes have the same label exactly when they are
\* connected: no edge is missed by sampling, by skipping the large component
\* or by a lost compare-and-swap, and no two components are merged (what
\* CCVerifier checks for the runs it sees).
Components ==
  stage = "done" =>
    \A u, v \in Node : comp[u] = comp[v] <=> Connected(u, v)

\* Afforest returns: the retry loop of Link and the loop of Compress end.
Returns == <>(stage = "done")
=============================================================================
