--------------------------- MODULE AfforestProofs ---------------------------
(***************************************************************************)
(* Afforest computes the connected components of every graph, with any     *)
(* number of threads.                                                      *)
(*                                                                         *)
(* A labelling is consistent when it is constant along the parent          *)
(* pointers.  The consistent labellings only become fewer: a swap adds a   *)
(* pointer at a root, and a compression replaces a pointer by another one  *)
(* into the same tree.  So two nodes that are joined stay joined, and what *)
(* a thread knows of the labels it has loaded remains true however old     *)
(* they are.                                                               *)
(***************************************************************************)
EXTENDS Afforest, TLAPS

Consistent(f) == \A n \in Node : f[n] = f[comp[n]]

\* Nodes in the same tree.
Joined(u, v) == \A f \in Labels : Consistent(f) => f[u] = f[v]

\* Constant along the pointers of the nodes below n.
Below(f, n) == \A m \in Node : m < n => f[m] = f[comp[m]]

\* Labels x and y stand for u and v, in either order.
Pair(f, x, y, u, v) ==
  \/ f[x] = f[u] /\ f[y] = f[v]
  \/ f[x] = f[v] /\ f[y] = f[u]

Linking == {"p2", "loop", "cas", "reload", "p1b", "p2b"}

StagesOK ==
  /\ stage \in {"compress", "last"} =>
       \A w \in Workers : pc[w] \in {"idle", "up", "jump", "crawl"}
  /\ stage \in {"link", "final"} =>
       \A w \in Workers : pc[w] \in {"idle", "next"} \cup Linking
  /\ stage = "done" => todo = {} /\ \A w \in Workers : pc[w] = "idle"

\* A node is in the hands of one thread.
Exclusive ==
  \A w \in Workers : pc[w] # "idle" =>
    /\ at[w] \notin todo
    /\ \A x \in Workers : x # w /\ pc[x] # "idle" => at[x] # at[w]

\* Parent pointers stay within a component.
Within == \A f \in Labels : AlongEdges(f) => Consistent(f)

\* The neighbours a thread links for a node.
Targets(u) == IF stage = "link" THEN Sampled(g, u, round) ELSE Remaining(g, u)

\* What a thread that links knows of the labels it holds.
Loaded(w, f) ==
  /\ pc[w] = "p2" => f[a[w]] = f[at[w]]
  /\ pc[w] \in {"loop", "cas", "reload", "p2b"} =>
       Pair(f, a[w], b[w], at[w], to[w])
  /\ pc[w] \in {"cas", "reload"} => f[t[w]] = f[High(w)]
  /\ pc[w] = "p1b" => Pair(f, t[w], b[w], at[w], to[w])

LinkOK(w) ==
  pc[w] \in {"next"} \cup Linking =>
    /\ rest[w] \subseteq Targets(at[w])
    /\ pc[w] \in Linking => to[w] \in Targets(at[w])
    /\ pc[w] \in {"cas", "reload"} => a[w] # b[w]
    /\ \A v \in Targets(at[w]) \ rest[w] :
         (pc[w] \in Linking /\ v = to[w]) \/ Joined(at[w], v)
    /\ \A f \in Labels : Consistent(f) => Loaded(w, f)

\* What a thread that compresses knows.
CompressOK(w) ==
  /\ pc[w] \in {"up", "jump"} => a[w] = comp[at[w]]
  /\ pc[w] = "jump" =>
       /\ a[w] < at[w] /\ t[w] <= a[w]
       /\ \A f \in Labels : Below(f, at[w]) => f[a[w]] = f[t[w]]

\* The loop has finished with a node.
Handled(u) == u \notin todo /\ \A w \in Workers : pc[w] # "idle" => at[w] # u

\* The first k sampling rounds have linked what they sampled.
SampledDone(k) ==
  \A u \in Node : \A r \in 0..(k - 1) : \A v \in Sampled(g, u, r) : Joined(u, v)

Progress ==
  /\ stage = "link" =>
       /\ SampledDone(round)
       /\ \A u \in Node : Handled(u) => \A v \in Sampled(g, u, round) : Joined(u, v)
  /\ stage = "compress" => SampledDone(round + 1)
  /\ stage = "final" =>
       /\ SampledDone(g.rounds)
       /\ \A u \in Node : Handled(u) =>
            Joined(u, c) \/ \A v \in Remaining(g, u) : Joined(u, v)
  /\ stage \in {"last", "done"} =>
       \A u \in Node : \A v \in OutSet(g, u) : Joined(u, v)

\* Compressed nodes point to roots.
Flat ==
  stage \in {"compress", "last", "done"} =>
    \A n \in Node : Handled(n) => comp[comp[n]] = comp[n]

IInv ==
  /\ TypeOK /\ Descending /\ StagesOK /\ Exclusive /\ Within
  /\ \A w \in Workers : LinkOK(w) /\ CompressOK(w)
  /\ Progress /\ Flat

-----------------------------------------------------------------------------
(* The graph.                                                              *)

\* What the link loops of Afforest work on are edges of the graph.
LEMMA TargetsAreEdges ==
  ASSUME NEW gr \in Graphs, NEW u \in Node, NEW r \in Nat
  PROVE  /\ OutSet(gr, u) \subseteq Node
         /\ Sampled(gr, u, r) \subseteq OutSet(gr, u)
         /\ \A v \in Remaining(gr, u) : v \in OutSet(gr, u) \/ v \in InSet(gr, u)
  <1>1. gr.out[u] \in Seq(Node) /\ gr.rounds \in Nat \ {0}
    BY AfforestAssumption
  <1> QED
    BY <1>1 DEF OutSet, InSet, Sampled, Remaining

\* Every edge is sampled by some round or remains for the final loop.
LEMMA EdgesAreTargets ==
  ASSUME NEW gr \in Graphs, NEW u \in Node, NEW v \in OutSet(gr, u)
  PROVE  v \in Remaining(gr, u) \/ \E r \in 0..(gr.rounds - 1) : v \in Sampled(gr, u, r)
  <1>1. gr.out[u] \in Seq(Node) /\ gr.rounds \in Nat \ {0}
    BY AfforestAssumption
  <1>2. PICK i \in 1..Len(gr.out[u]) : v = gr.out[u][i]
    BY DEF OutSet
  <1>3. CASE i > gr.rounds
    BY <1>1, <1>2, <1>3 DEF Remaining
  <1>4. CASE i <= gr.rounds
    <2>1. i - 1 \in 0..(gr.rounds - 1) /\ i - 1 < Len(gr.out[u])
      BY <1>1, <1>2, <1>4
    <2>2. v \in Sampled(gr, u, i - 1)
      BY <1>1, <1>2, <2>1 DEF Sampled
    <2> QED BY <2>1, <2>2
  <1> QED BY <1>1, <1>2, <1>3, <1>4

\* Labels that are constant along edges are equal on what Link is called with.
LEMMA TargetsAgree ==
  ASSUME TypeOK, NEW f \in Labels, AlongEdges(f), NEW u \in Node, NEW v \in Targets(u)
  PROVE  v \in Node /\ f[u] = f[v]
  <1>0. g \in Graphs /\ round \in Nat
    BY AfforestAssumption DEF TypeOK
  <1>1. v \in OutSet(g, u) \/ v \in InSet(g, u)
    BY <1>0, TargetsAreEdges DEF Targets
  <1>2. OutSet(g, u) \subseteq Node
    BY Zenon, <1>0, TargetsAreEdges
  <1> QED
    BY <1>1, <1>2 DEF AlongEdges, InSet

-----------------------------------------------------------------------------
(* Steps.                                                                  *)

CasWrite(w) ==
  /\ pc[w] = "cas" /\ comp[High(w)] = High(w)
  /\ comp' = [comp EXCEPT ![High(w)] = Low(w)]

JumpWrite(w) == pc[w] = "jump" /\ comp' = [comp EXCEPT ![at[w]] = t[w]]

\* Only the compare-and-swap of Link and the assignment of Compress write comp.
LEMMA Writers ==
  ASSUME [Next]_vars
  PROVE  \/ UNCHANGED comp
         \/ \E w \in Workers : CasWrite(w)
         \/ \E w \in Workers : JumpWrite(w)
  BY ZenonT(30) DEF Next, vars, TakeStep, LinkStep, CompressStep, Ends, Done, LinkTake,
    FinalTake, CompressTake, NextNeighbor, LoadP2, Loop, Cas, Reload, ReloadP1,
    ReloadP2, Up, Jump, Crawl, EndLink, EndCompress, EndFinal, EndLast, Barrier,
    CasWrite, JumpWrite

\* The graph never changes; the loop and its round do at a barrier only.
LEMMA Frame ==
  ASSUME [Next]_vars
  PROVE  /\ UNCHANGED g
         /\ Ends \/ UNCHANGED <<stage, round, c>>
  BY DEF Next, vars, TakeStep, LinkStep, CompressStep, Ends, Done, LinkTake,
    FinalTake, CompressTake, NextNeighbor, LoadP2, Loop, Cas, Reload, ReloadP1,
    ReloadP2, Up, Jump, Crawl, EndLink, EndCompress, EndFinal, EndLast, Barrier

LEMMA HighLow ==
  ASSUME TypeOK, NEW w \in Workers
  PROVE  /\ High(w) \in Node /\ Low(w) \in Node /\ Low(w) <= High(w)
         /\ a[w] # b[w] => Low(w) < High(w)
         /\ (High(w) = a[w] /\ Low(w) = b[w]) \/ (High(w) = b[w] /\ Low(w) = a[w])
  BY AfforestAssumption DEF TypeOK, High, Low, Node

\* Consistent labellings only become fewer.
LEMMA Shrink ==
  ASSUME IInv, [Next]_vars, NEW f \in Labels, Consistent(f)'
  PROVE  Consistent(f)
  <1>t. comp \in [Node -> Node] /\ N \in Nat
    BY AfforestAssumption DEF IInv, TypeOK
  <1>1. CASE UNCHANGED comp
    BY <1>1 DEF Consistent
  <1>2. ASSUME NEW w \in Workers, CasWrite(w) PROVE Consistent(f)
    <2>1. High(w) \in Node
      BY HighLow DEF IInv
    <2>2. SUFFICES ASSUME NEW n \in Node PROVE f[n] = f[comp[n]]
      BY DEF Consistent
    <2>3. CASE n = High(w)
      BY <1>2, <2>3 DEF CasWrite
    <2>4. CASE n # High(w)
      <3>1. comp'[n] = comp[n]
        BY <1>t, <1>2, <2>1, <2>4 DEF CasWrite
      <3> QED BY <3>1 DEF Consistent
    <2> QED BY <2>3, <2>4
  <1>3. ASSUME NEW w \in Workers, JumpWrite(w) PROVE Consistent(f)
    <2>1. at[w] \in Node /\ t[w] \in Node /\ CompressOK(w) /\ pc[w] = "jump"
      BY <1>3 DEF IInv, TypeOK, JumpWrite
    <2>2. \A m \in Node : m # at[w] => comp'[m] = comp[m]
      BY <1>t, <1>3, <2>1 DEF JumpWrite
    <2>3. comp'[at[w]] = t[w]
      BY <1>t, <1>3, <2>1 DEF JumpWrite
    <2>4. Below(f, at[w])
      BY <2>1, <2>2 DEF Below, Consistent, Node
    <2>5. f[comp[at[w]]] = f[t[w]]
      BY <2>1, <2>4 DEF CompressOK
    <2>6. f[at[w]] = f[t[w]]
      BY <2>1, <2>3 DEF Consistent
    <2> QED
      BY <2>2, <2>5, <2>6 DEF Consistent
  <1> QED BY <1>1, <1>2, <1>3, Writers

\* What is joined stays joined.
LEMMA JoinedStable ==
  ASSUME IInv, [Next]_vars, NEW u, NEW v, Joined(u, v)
  PROVE  Joined(u, v)'
  <1>1. \A f \in Labels : Consistent(f)' => Consistent(f)
    BY Shrink
  <1> QED BY Zenon, <1>1 DEF Joined, Labels, Node

-----------------------------------------------------------------------------
(* The conjuncts of the invariant, one lemma each.                         *)

LEMMA TypeStep ==
  ASSUME TypeOK, [Next]_vars
  PROVE  TypeOK'
  <1>g. /\ g \in Graphs /\ round \in Nat /\ g.rounds \in Nat \ {0}
        /\ \A u \in Node : Sampled(g, u, round) \subseteq Node
        /\ \A u \in Node : Remaining(g, u) \subseteq Node
    <2>1. g \in Graphs /\ round \in Nat /\ g.rounds \in Nat \ {0}
      BY AfforestAssumption DEF TypeOK
    <2> QED BY <2>1, TargetsAreEdges DEF InSet
  <1>1. ASSUME NEW w \in Workers, NEW n \in Node, LinkTake(w, n) PROVE TypeOK'
    BY <1>1, <1>g DEF TypeOK, LinkTake, Take
  <1>2. ASSUME NEW w \in Workers, NEW n \in Node, FinalTake(w, n) PROVE TypeOK'
    BY <1>2, <1>g DEF TypeOK, FinalTake, Take
  <1>3. ASSUME NEW w \in Workers, NEW n \in Node, CompressTake(w, n) PROVE TypeOK'
    BY <1>3 DEF TypeOK, CompressTake
  <1>4. ASSUME NEW w \in Workers, NextNeighbor(w) PROVE TypeOK'
    BY <1>4 DEF TypeOK, NextNeighbor
  <1>5. ASSUME NEW w \in Workers, LoadP2(w) \/ ReloadP1(w) \/ ReloadP2(w) \/ Crawl(w)
        PROVE TypeOK'
    BY <1>5 DEF TypeOK, LoadP2, ReloadP1, ReloadP2, Crawl
  <1>6. ASSUME NEW w \in Workers, Loop(w) \/ Cas(w) \/ Reload(w) PROVE TypeOK'
    <2>1. High(w) \in Node /\ Low(w) \in Node
      BY HighLow
    <2> QED BY <1>6, <2>1 DEF TypeOK, Loop, Cas, Reload
  <1>7. ASSUME NEW w \in Workers, Up(w) \/ Jump(w) PROVE TypeOK'
    BY <1>7 DEF TypeOK, Up, Jump
  <1>8. CASE Ends
    BY <1>8, <1>g DEF TypeOK, Ends, EndLink, EndCompress, EndFinal, EndLast, Barrier
  <1>9. CASE UNCHANGED vars
    BY <1>9 DEF TypeOK, vars
  <1> QED
    BY <1>1, <1>2, <1>3, <1>4, <1>5, <1>6, <1>7, <1>8, <1>9
      DEF Next, TakeStep, LinkStep, CompressStep, Done

LEMMA DescendingStep ==
  ASSUME IInv, [Next]_vars
  PROVE  Descending'
  <1>t. comp \in [Node -> Node] /\ N \in Nat /\ Descending
    BY AfforestAssumption DEF IInv, TypeOK
  <1>1. CASE UNCHANGED comp
    BY <1>t, <1>1 DEF Descending
  <1>2. ASSUME NEW w \in Workers, CasWrite(w) PROVE Descending'
    <2>1. High(w) \in Node /\ Low(w) \in Node /\ Low(w) <= High(w)
      BY HighLow DEF IInv
    <2> QED BY <1>t, <1>2, <2>1 DEF CasWrite, Descending
  <1>3. ASSUME NEW w \in Workers, JumpWrite(w) PROVE Descending'
    <2>1. at[w] \in Node /\ t[w] \in Node /\ a[w] \in Node /\ CompressOK(w)
      BY DEF IInv, TypeOK
    <2>2. t[w] <= at[w]
      BY <1>3, <2>1, <1>t DEF JumpWrite, CompressOK, Node
    <2> QED BY <1>t, <1>3, <2>1, <2>2 DEF JumpWrite, Descending
  <1> QED BY <1>1, <1>2, <1>3, Writers

LEMMA StagesStep ==
  ASSUME IInv, [Next]_vars
  PROVE  StagesOK'
  <1> USE DEF StagesOK, Linking
  <1>t. TypeOK /\ StagesOK
    BY DEF IInv
  <1>1. ASSUME NEW w \in Workers, NEW n \in Node,
               LinkTake(w, n) \/ FinalTake(w, n) \/ CompressTake(w, n)
        PROVE StagesOK'
    BY Zenon, <1>t, <1>1 DEF TypeOK, LinkTake, FinalTake, CompressTake, Take
  <1>2. ASSUME NEW w \in Workers, LinkStep(w) PROVE StagesOK'
    BY <1>t, <1>2 DEF TypeOK, LinkStep, NextNeighbor, LoadP2, Loop, Cas, Reload,
      ReloadP1, ReloadP2
  <1>3. ASSUME NEW w \in Workers, CompressStep(w) PROVE StagesOK'
    BY <1>t, <1>3 DEF TypeOK, CompressStep, Up, Jump, Crawl
  <1>4. CASE Ends
    BY <1>t, <1>4 DEF TypeOK, Ends, EndLink, EndCompress, EndFinal, EndLast, Barrier
  <1>5. CASE UNCHANGED vars
    BY <1>t, <1>5 DEF vars
  <1> QED
    BY <1>1, <1>2, <1>3, <1>4, <1>5 DEF Next, TakeStep, Done

LEMMA ExclusiveStep ==
  ASSUME IInv, [Next]_vars
  PROVE  Exclusive'
  <1> USE DEF Exclusive
  <1>t. TypeOK /\ Exclusive /\ StagesOK
    BY DEF IInv
  <1>1. ASSUME NEW w \in Workers, NEW n \in Node,
               LinkTake(w, n) \/ FinalTake(w, n) \/ CompressTake(w, n)
        PROVE Exclusive'
    BY <1>t, <1>1 DEF TypeOK, LinkTake, FinalTake, CompressTake, Take
  <1>2. ASSUME NEW w \in Workers, LinkStep(w) PROVE Exclusive'
    BY <1>t, <1>2 DEF TypeOK, LinkStep, NextNeighbor, LoadP2, Loop, Cas, Reload,
      ReloadP1, ReloadP2
  <1>3. ASSUME NEW w \in Workers, CompressStep(w) PROVE Exclusive'
    BY <1>t, <1>3 DEF TypeOK, CompressStep, Up, Jump, Crawl
  <1>4. CASE Ends
    BY <1>t, <1>4 DEF TypeOK, Ends, EndLink, EndCompress, EndFinal, EndLast, Barrier
  <1>5. CASE UNCHANGED vars
    BY <1>t, <1>5 DEF vars
  <1> QED
    BY <1>1, <1>2, <1>3, <1>4, <1>5 DEF Next, TakeStep, Done

\* The swap of Link joins the two ends of an edge, Compress stays in a tree.
LEMMA WithinStep ==
  ASSUME IInv, [Next]_vars
  PROVE  Within'
  <1>t. TypeOK /\ comp \in [Node -> Node] /\ N \in Nat
    BY AfforestAssumption DEF IInv, TypeOK
  <1>s. SUFFICES ASSUME NEW f \in Labels, AlongEdges(f) PROVE Consistent(f)'
    <2>1. UNCHANGED g
      BY Frame
    <2>2. \A f \in Labels : AlongEdges(f)' => AlongEdges(f)
      BY <2>1 DEF AlongEdges, OutSet
    <2>3. ASSUME \A f \in Labels : AlongEdges(f) => Consistent(f)'
          PROVE  Within'
      BY <2>2, <2>3, Zenon DEF Within, Labels, Node
    <2> QED BY <2>3
  <1>f. Consistent(f)
    BY <1>s DEF IInv, Within
  <1>1. CASE UNCHANGED comp
    BY <1>f, <1>1 DEF Consistent
  <1>2. ASSUME NEW w \in Workers, CasWrite(w) PROVE Consistent(f)'
    <2>1. High(w) \in Node /\ Low(w) \in Node
          /\ ((High(w) = a[w] /\ Low(w) = b[w]) \/ (High(w) = b[w] /\ Low(w) = a[w]))
      BY HighLow DEF IInv
    <2>2. at[w] \in Node /\ pc[w] = "cas" /\ LinkOK(w)
      BY Zenon, <1>2 DEF IInv, TypeOK, CasWrite
    <2>3. to[w] \in Targets(at[w]) /\ Loaded(w, f)
      BY <2>2, <1>f DEF LinkOK, Linking
    <2>4. f[at[w]] = f[to[w]]
      BY <1>s, <1>t, <2>2, <2>3, TargetsAgree
    <2>5. f[a[w]] = f[b[w]]
      BY <2>2, <2>3, <2>4 DEF Loaded, Pair
    <2>6. f[High(w)] = f[Low(w)]
      BY <2>1, <2>5
    <2> QED BY <1>t, <1>f, <1>2, <2>1, <2>6 DEF CasWrite, Consistent
  <1>3. ASSUME NEW w \in Workers, JumpWrite(w) PROVE Consistent(f)'
    <2>1. at[w] \in Node /\ t[w] \in Node /\ CompressOK(w) /\ pc[w] = "jump"
      BY <1>3 DEF IInv, TypeOK, JumpWrite
    <2>2. f[comp[at[w]]] = f[t[w]]
      BY Zenon, <1>f, <2>1 DEF CompressOK, Below, Consistent
    <2> QED BY <1>t, <1>f, <1>3, <2>1, <2>2 DEF JumpWrite, Consistent
  <1> QED BY <1>1, <1>2, <1>3, Writers

\* What a thread knows does not depend on the steps of the others.
LEMMA LinkFrame ==
  ASSUME IInv, [Next]_vars, NEW x \in Workers,
         pc'[x] = pc[x], at'[x] = at[x], rest'[x] = rest[x], to'[x] = to[x],
         a'[x] = a[x], b'[x] = b[x], t'[x] = t[x], stage' = stage, round' = round
  PROVE  LinkOK(x)'
  <1>1. LinkOK(x) /\ g' = g
    BY Frame DEF IInv
  <1>2. Targets(at[x])' = Targets(at[x])
    BY ZenonT(30), <1>1 DEF Targets, Sampled, Remaining, InSet, OutSet
  <1>3. \A f \in Labels : Loaded(x, f) => Loaded(x, f)'
    BY DEF Loaded, Pair, High
  <1>4. \A f \in Labels : Consistent(f)' => Consistent(f)
    BY Zenon, Shrink
  <1>5. \A u, v : Joined(u, v) => Joined(u, v)'
    BY JoinedStable
  <1>6. Labels' = Labels
    BY DEF Labels, Node
  <1> QED
    BY Zenon, <1>1, <1>2, <1>3, <1>4, <1>5, <1>6 DEF LinkOK

\* Link knows which two nodes its labels stand for.
LEMMA LinkOKStep ==
  ASSUME IInv, [Next]_vars, NEW x \in Workers
  PROVE  LinkOK(x)'
  <1>t. TypeOK /\ TypeOK' /\ LinkOK(x) /\ g' = g /\ comp \in [Node -> Node]
        /\ Labels' = Labels
    BY Zenon, TypeStep, Frame DEF IInv, TypeOK, Labels, Node
  <1>j. \A u, v : Joined(u, v) => Joined(u, v)'
    BY JoinedStable
  <1>h. High(x) \in Node /\ Low(x) \in Node
        /\ ((High(x) = a[x] /\ Low(x) = b[x]) \/ (High(x) = b[x] /\ Low(x) = a[x]))
    BY <1>t, HighLow
  <1>n. at[x] \in Node /\ to[x] \in Node /\ a[x] \in Node /\ b[x] \in Node /\ t[x] \in Node
    BY <1>t DEF TypeOK
  <1>1. ASSUME NEW n \in Node, LinkTake(x, n) \/ FinalTake(x, n) PROVE LinkOK(x)'
    <2>1. CASE pc'[x] = "idle"
      BY Zenon, <2>1 DEF LinkOK, Linking
    <2>2. CASE pc'[x] # "idle"
      <3>1. Take(x, n, Targets(n)) /\ stage' = stage /\ round' = round
        BY Zenon, <1>1, <2>2 DEF LinkTake, FinalTake, Take, Targets
      <3>2. pc'[x] = "next" /\ at'[x] = n /\ rest'[x] = Targets(n)
        BY Zenon, <1>t, <3>1 DEF Take, TypeOK
      <3>3. Targets(n)' = Targets(n)
        BY Zenon, <1>t, <3>1 DEF Targets, Sampled, Remaining, InSet, OutSet
      <3> QED BY Zenon, <3>2, <3>3 DEF LinkOK, Linking, Loaded
    <2> QED BY Zenon, <2>1, <2>2
  <1>2. ASSUME NEW n \in Node, CompressTake(x, n) PROVE LinkOK(x)'
    BY Zenon, <1>t, <1>2 DEF CompressTake, LinkOK, Linking, TypeOK
  <1>3. CASE CompressStep(x)
    <2>1. pc'[x] \in {"idle", "up", "jump", "crawl"}
      BY <1>t, <1>3 DEF CompressStep, Up, Jump, Crawl, TypeOK
    <2> QED BY Zenon, <2>1 DEF LinkOK, Linking
  <1>4. CASE LinkStep(x)
    <2>f. stage' = stage /\ round' = round /\ at' = at
      BY Zenon, <1>4 DEF LinkStep, NextNeighbor, LoadP2, Loop, Cas, Reload, ReloadP1, ReloadP2
    <2>g. Targets(at[x])' = Targets(at[x])
      BY <1>t, <2>f DEF Targets, Sampled, Remaining, InSet, OutSet
    <2>k. /\ rest[x] \subseteq Targets(at[x])
          /\ pc[x] \in Linking => to[x] \in Targets(at[x])
          /\ pc[x] \in {"cas", "reload"} => a[x] # b[x]
          /\ \A v \in Targets(at[x]) \ rest[x] :
               (pc[x] \in Linking /\ v = to[x]) \/ Joined(at[x], v)
          /\ \A f \in Labels : Consistent(f) => Loaded(x, f)
      <3>1. pc[x] \in {"next"} \cup Linking
        BY Zenon, <1>4 DEF LinkStep, NextNeighbor, LoadP2, Loop, Cas, Reload, ReloadP1,
          ReloadP2, Linking
      <3> QED BY Zenon, <1>t, <3>1 DEF LinkOK
    <2>s. \A f \in Labels : Consistent(f)' => Consistent(f) /\ Loaded(x, f)
      BY Zenon, <2>k, Shrink
    \* Link returns.
    <2>r. ASSUME pc[x] \in Linking, pc'[x] = "next", rest' = rest, to' = to,
                 Joined(at[x], to[x])'
          PROVE  LinkOK(x)'
      <3>1. \A v \in Targets(at[x]) \ rest[x] : Joined(at[x], v)'
        BY Zenon, <1>j, <2>f, <2>k, <2>r
      <3> QED BY Zenon, <2>f, <2>g, <2>k, <2>r, <3>1 DEF LinkOK, Linking, Loaded
    \* Link goes on.
    <2>o. ASSUME pc[x] \in Linking, pc'[x] \in Linking, rest' = rest, to' = to,
                 pc'[x] \in {"cas", "reload"} => a'[x] # b'[x],
                 \A f \in Labels : Consistent(f)' => Loaded(x, f)'
          PROVE  LinkOK(x)'
      <3>1. \A v \in Targets(at[x]) \ rest[x] : v = to[x] \/ Joined(at[x], v)'
        BY <1>j, <2>f, <2>k, <2>o
      <3> QED BY Zenon, <1>t, <2>f, <2>g, <2>k, <2>o, <3>1 DEF LinkOK, Linking
    <2>1. CASE NextNeighbor(x)
      <3>1. pc[x] = "next" /\ comp' = comp
        BY <2>1 DEF NextNeighbor
      <3>2. CASE pc'[x] = "idle"
        BY ZenonT(30), <3>2 DEF LinkOK, Linking
      <3>3. ASSUME NEW v \in rest[x], rest' = [rest EXCEPT ![x] = @ \ {v}],
                   to' = [to EXCEPT ![x] = v], a' = [a EXCEPT ![x] = comp[at[x]]],
                   pc' = [pc EXCEPT ![x] = "p2"]
            PROVE  LinkOK(x)'
        <4>1. pc'[x] = "p2" /\ rest'[x] = rest[x] \ {v} /\ to'[x] = v
              /\ a'[x] = comp[at[x]]
          BY Zenon, <1>t, <3>3 DEF TypeOK
        <4>2. \A f \in Labels : Consistent(f)' => Loaded(x, f)'
          BY Zenon, <1>n, <2>f, <3>1, <4>1 DEF Consistent, Loaded
        <4>3. \A z \in Targets(at[x]) \ rest'[x] : z = v \/ Joined(at[x], z)'
          BY Zenon, <1>j, <2>f, <2>k, <3>1, <4>1 DEF Linking
        <4> QED BY <1>t, <2>f, <2>g, <2>k, <4>1, <4>2, <4>3 DEF LinkOK, Linking
      <3>4. pc'[x] = "idle" \/ \E v \in rest[x] :
              /\ rest' = [rest EXCEPT ![x] = @ \ {v}] /\ to' = [to EXCEPT ![x] = v]
              /\ a' = [a EXCEPT ![x] = comp[at[x]]] /\ pc' = [pc EXCEPT ![x] = "p2"]
        BY Zenon, <1>t, <2>1 DEF NextNeighbor, TypeOK
      <3> QED BY Zenon, <3>2, <3>3, <3>4
    <2>2. CASE LoadP2(x)
      <3>1. pc[x] = "p2" /\ pc'[x] = "loop" /\ b'[x] = comp[to[x]] /\ a' = a
            /\ rest' = rest /\ to' = to /\ comp' = comp
        BY ZenonT(30), <1>t, <2>2 DEF LoadP2, TypeOK
      <3>2. \A f \in Labels : Consistent(f)' => Loaded(x, f)'
        BY <1>n, <2>f, <2>s, <3>1 DEF Consistent, Loaded, Pair
      <3> QED BY Zenon, <2>o, <3>1, <3>2 DEF Linking
    <2>3. CASE Loop(x)
      <3>1. pc[x] = "loop" /\ a' = a /\ b' = b /\ rest' = rest /\ to' = to /\ comp' = comp
        BY Zenon, <2>3 DEF Loop
      <3>2. \A f \in Labels : Consistent(f)' => Pair(f, a[x], b[x], at[x], to[x])
        BY <2>s, <3>1 DEF Loaded
      <3>3. CASE a[x] = b[x] \/ comp[High(x)] = Low(x)
        <4>1. pc'[x] = "next"
          BY Zenon, <1>t, <2>3, <3>3 DEF Loop, TypeOK
        <4>2. \A f \in Labels : Consistent(f)' => f[a[x]] = f[b[x]]
          BY <1>h, <3>1, <3>3 DEF Consistent
        <4>3. Joined(at[x], to[x])'
          BY Zenon, <1>t, <2>f, <3>1, <3>2, <4>2 DEF Joined, Pair
        <4> QED BY Zenon, <2>r, <3>1, <4>1, <4>3 DEF Linking
      <3>4. CASE a[x] # b[x] /\ comp[High(x)] # Low(x)
        <4>1. pc'[x] \in {"cas", "reload"} /\ t'[x] = comp[High(x)]
          BY <1>t, <2>3, <3>4 DEF Loop, TypeOK
        <4>2. High(x)' = High(x)
          BY Zenon, <3>1 DEF High
        <4>3. \A f \in Labels : Consistent(f)' => Loaded(x, f)'
          BY Zenon, <1>h, <2>f, <3>1, <3>2, <4>1, <4>2 DEF Consistent, Loaded, Pair
        <4> QED BY Zenon, <2>o, <3>1, <3>4, <4>1, <4>3 DEF Linking
      <3> QED BY <3>3, <3>4
    <2>4. CASE Cas(x)
      <3>1. pc[x] = "cas" /\ a' = a /\ b' = b /\ t' = t /\ rest' = rest /\ to' = to
        BY Zenon, <2>4 DEF Cas
      <3>2. \A f \in Labels : Consistent(f)' =>
              Pair(f, a[x], b[x], at[x], to[x]) /\ f[t[x]] = f[High(x)]
        BY Zenon, <2>s, <3>1 DEF Loaded
      <3>3. CASE comp[High(x)] = High(x)
        <4>1. pc'[x] = "next" /\ comp'[High(x)] = Low(x)
          BY Zenon, <1>t, <1>h, <2>4, <3>3 DEF Cas, TypeOK
        <4>2. \A f \in Labels : Consistent(f)' => f[a[x]] = f[b[x]]
          BY Zenon, <1>h, <4>1 DEF Consistent
        <4>3. Joined(at[x], to[x])'
          BY Zenon, <1>t, <2>f, <3>1, <3>2, <4>2 DEF Joined, Pair
        <4> QED BY Zenon, <2>r, <3>1, <4>1, <4>3 DEF Linking
      <3>4. CASE comp[High(x)] # High(x)
        <4>1. pc'[x] = "reload"
          BY <1>t, <2>4, <3>4 DEF Cas, TypeOK
        <4>2. High(x)' = High(x)
          BY <3>1 DEF High
        <4>3. \A f \in Labels : Consistent(f)' => Loaded(x, f)'
          BY Zenon, <2>f, <3>1, <3>2, <4>1, <4>2 DEF Loaded, Pair
        <4> QED BY Zenon, <2>o, <2>k, <3>1, <4>1, <4>3 DEF Linking
      <3> QED BY <3>3, <3>4
    <2>5. CASE Reload(x)
      <3>1. pc[x] = "reload" /\ pc'[x] = "p1b" /\ b'[x] = Low(x) /\ rest' = rest
            /\ to' = to /\ comp' = comp /\ t'[x] \in {t[x], comp[High(x)]}
        BY <1>t, <2>5 DEF Reload, TypeOK
      <3>2. \A f \in Labels : Consistent(f)' => f[t'[x]] = f[High(x)]
        BY Zenon, <1>h, <2>s, <3>1 DEF Consistent, Loaded
      <3>3. \A f \in Labels : Consistent(f)' => Loaded(x, f)'
        BY ZenonT(30), <1>h, <2>f, <2>s, <3>1, <3>2 DEF Loaded, Pair
      <3> QED BY Zenon, <2>o, <3>1, <3>3 DEF Linking
    <2>6. CASE ReloadP1(x)
      <3>1. pc[x] = "p1b" /\ pc'[x] = "p2b" /\ a'[x] = comp[t[x]] /\ b' = b
            /\ rest' = rest /\ to' = to /\ comp' = comp
        BY Zenon, <1>t, <2>6 DEF ReloadP1, TypeOK
      <3>2. \A f \in Labels : Consistent(f)' => Loaded(x, f)'
        BY <1>n, <2>f, <2>s, <3>1 DEF Consistent, Loaded, Pair
      <3> QED BY <2>o, <3>1, <3>2 DEF Linking
    <2>7. CASE ReloadP2(x)
      <3>1. pc[x] = "p2b" /\ pc'[x] = "loop" /\ b'[x] = comp[b[x]] /\ a' = a
            /\ rest' = rest /\ to' = to /\ comp' = comp
        BY <1>t, <2>7 DEF ReloadP2, TypeOK
      <3>2. \A f \in Labels : Consistent(f)' => Loaded(x, f)'
        BY ZenonT(30), <1>n, <2>f, <2>s, <3>1 DEF Consistent, Loaded, Pair
      <3> QED BY <2>o, <3>1, <3>2 DEF Linking
    <2> QED
      BY Zenon, <1>4, <2>1, <2>2, <2>3, <2>4, <2>5, <2>6, <2>7 DEF LinkStep
  <1>5. ASSUME NEW w \in Workers, w # x, TakeStep(w) \/ LinkStep(w) \/ CompressStep(w)
        PROVE  LinkOK(x)'
    <2>1. /\ pc'[x] = pc[x] /\ at'[x] = at[x] /\ rest'[x] = rest[x] /\ to'[x] = to[x]
          /\ a'[x] = a[x] /\ b'[x] = b[x] /\ t'[x] = t[x]
          /\ stage' = stage /\ round' = round
      BY <1>t, <1>5 DEF TypeOK, TakeStep, LinkStep, CompressStep, LinkTake,
        FinalTake, CompressTake, Take, NextNeighbor, LoadP2, Loop, Cas, Reload,
        ReloadP1, ReloadP2, Up, Jump, Crawl
    <2> QED BY SMTT(30), <2>1, LinkFrame
  <1>6. CASE Ends
    <2>1. pc'[x] = "idle"
      BY <1>6 DEF Ends, EndLink, EndCompress, EndFinal, EndLast, Barrier
    <2> QED BY Zenon, <2>1 DEF LinkOK, Linking
  <1>7. CASE UNCHANGED vars
    BY Zenon, <1>7, LinkFrame DEF vars
  <1> QED
    BY <1>1, <1>2, <1>3, <1>4, <1>5, <1>6, <1>7 DEF Next, TakeStep, Done

\* Compress replaces a pointer by one into the same tree, however old the
\* value it stores.
LEMMA CompressOKStep ==
  ASSUME IInv, [Next]_vars, NEW x \in Workers
  PROVE  CompressOK(x)'
  <1>t. TypeOK /\ CompressOK(x) /\ comp \in [Node -> Node] /\ N \in Nat /\ Labels' = Labels
        /\ Descending /\ at[x] \in Node /\ a[x] \in Node /\ t[x] \in Node
    BY Zenon, AfforestAssumption DEF IInv, TypeOK, Labels, Node
  <1>i. \A m \in Node : m \in Int
    BY AfforestAssumption DEF Node
  <1>1. ASSUME NEW n \in Node, LinkTake(x, n) \/ FinalTake(x, n) PROVE CompressOK(x)'
    <2>1. pc'[x] \in {"idle", "next"}
      BY Zenon, <1>t, <1>1 DEF LinkTake, FinalTake, Take, TypeOK
    <2> QED BY <2>1 DEF CompressOK
  <1>2. ASSUME NEW n \in Node, CompressTake(x, n) PROVE CompressOK(x)'
    BY <1>t, <1>2 DEF CompressTake, CompressOK, TypeOK
  <1>3. CASE LinkStep(x)
    <2>1. pc'[x] \notin {"up", "jump"}
      BY Zenon, <1>t, <1>3 DEF LinkStep, NextNeighbor, LoadP2, Loop, Cas, Reload, ReloadP1,
        ReloadP2, TypeOK
    <2> QED BY Zenon, <2>1 DEF CompressOK
  <1>4. CASE Crawl(x)
    BY <1>t, <1>4 DEF Crawl, CompressOK, TypeOK
  <1>5. CASE Up(x) \/ (Jump(x) /\ pc' = pc)
    <2>1. /\ pc[x] \in {"up", "jump"} /\ a[x] = comp[at[x]]
          /\ comp' = comp /\ a' = a /\ at' = at /\ t'[x] = comp[a[x]]
      BY <1>t, <1>5 DEF Up, Jump, CompressOK, TypeOK
    <2>2. CASE pc'[x] # "jump"
      <3>1. pc'[x] = "idle"
        BY ZenonT(30), <1>t, <1>5, <2>2 DEF Up, Jump, TypeOK
      <3> QED BY Zenon, <3>1 DEF CompressOK
    <2>3. CASE pc'[x] = "jump"
      <3>1. a[x] < at[x]
        <4>1. CASE Up(x)
          <5>1. comp[a[x]] # a[x]
            BY Zenon, <1>t, <2>3, <4>1 DEF Up, TypeOK
          <5> QED BY <1>t, <2>1, <5>1 DEF Descending, Node
        <4>2. CASE Jump(x)
          BY Zenon, <1>t, <4>2 DEF Jump, CompressOK
        <4> QED BY Zenon, <1>5, <4>1, <4>2
      <3>2. \A f \in Labels : Below(f, at[x])' => f[a[x]] = f[t'[x]]
        BY <1>t, <2>1, <3>1 DEF Below
      <3>3. t'[x] <= a[x]
        BY <1>t, <2>1 DEF Descending
      <3> QED BY <1>t, <2>1, <3>1, <3>2, <3>3 DEF CompressOK, Below
    <2> QED BY Zenon, <2>2, <2>3
  <1>6. CASE Jump(x) /\ pc' # pc
    <2>1. pc'[x] = "crawl"
      BY Zenon, <1>t, <1>6 DEF Jump, TypeOK
    <2> QED BY <2>1 DEF CompressOK
  <1>7. ASSUME pc'[x] = pc[x], at'[x] = at[x], a'[x] = a[x], t'[x] = t[x],
               UNCHANGED comp \/ \E w \in Workers : w # x /\ (CasWrite(w) \/ JumpWrite(w))
        PROVE  CompressOK(x)'
    <2>1. CASE pc[x] \notin {"up", "jump"}
      BY Zenon, <1>7, <2>1 DEF CompressOK
    <2>2. CASE UNCHANGED comp
      <3>1. \A f \in Labels : Below(f, at[x])' => Below(f, at[x])
        BY Zenon, <1>7, <2>2 DEF Below
      <3> QED BY Zenon, <1>t, <1>7, <2>2, <3>1 DEF CompressOK
    <2>3. ASSUME NEW w \in Workers, CasWrite(w), pc[x] \in {"up", "jump"} PROVE FALSE
      BY Zenon, <1>t, <2>3 DEF IInv, StagesOK, CasWrite, TypeOK, Linking
    <2>4. ASSUME NEW w \in Workers, JumpWrite(w), w # x, pc[x] \in {"up", "jump"}
          PROVE  CompressOK(x)'
      <3>1. /\ at[w] \in Node /\ t[w] \in Node /\ a[w] \in Node
            /\ CompressOK(w) /\ pc[w] = "jump" /\ at[w] # at[x]
        BY <1>t, <2>4 DEF IInv, TypeOK, Exclusive, JumpWrite
      <3>2. \A m \in Node : m # at[w] => comp'[m] = comp[m]
        BY Zenon, <1>t, <2>4, <3>1 DEF JumpWrite
      <3>3. comp'[at[w]] = t[w]
        BY Zenon, <1>t, <2>4, <3>1 DEF JumpWrite
      <3>4. ASSUME NEW f \in Labels, Below(f, at[x])' PROVE Below(f, at[x])
        <4>1. \A m \in Node : m < at[x] => f[m] = f[comp'[m]]
          BY <1>7, <3>4 DEF Below
        <4>2. CASE at[w] > at[x]
          <5>1. \A m \in Node : m < at[x] => m # at[w]
            BY <1>i, <1>t, <3>1, <4>2
          <5> QED BY Zenon, <3>2, <4>1, <5>1 DEF Below
        <4>3. CASE at[w] < at[x]
          <5>1. Below(f, at[w])
            <6>1. \A m \in Node : m < at[w] => m < at[x] /\ m # at[w]
              BY <1>i, <1>t, <3>1, <4>3
            <6> QED BY <3>2, <4>1, <6>1 DEF Below
          <5>2. f[comp[at[w]]] = f[t[w]]
            BY <3>1, <5>1 DEF CompressOK
          <5>3. f[at[w]] = f[t[w]]
            BY Zenon, <3>1, <3>3, <4>1, <4>3
          <5> QED BY <3>2, <4>1, <5>2, <5>3 DEF Below
        <4> QED BY <1>t, <3>1, <4>2, <4>3 DEF Node
      <3>5. comp'[at[x]] = comp[at[x]]
        BY Zenon, <1>t, <3>1, <3>2
      <3> QED BY Zenon, <1>t, <1>7, <3>4, <3>5 DEF CompressOK
    <2> QED BY Zenon, <1>7, <2>1, <2>2, <2>3, <2>4
  <1>8. ASSUME NEW w \in Workers, w # x, TakeStep(w) \/ LinkStep(w) \/ CompressStep(w)
        PROVE  CompressOK(x)'
    <2>1. pc'[x] = pc[x] /\ at'[x] = at[x] /\ a'[x] = a[x] /\ t'[x] = t[x]
      BY SMTT(30), <1>t, <1>8 DEF TypeOK, TakeStep, LinkStep, CompressStep, LinkTake,
        FinalTake, CompressTake, Take, NextNeighbor, LoadP2, Loop, Cas, Reload,
        ReloadP1, ReloadP2, Up, Jump, Crawl
    <2>2. UNCHANGED comp \/ CasWrite(w) \/ JumpWrite(w)
      BY <1>8 DEF TakeStep, LinkStep, CompressStep, LinkTake, FinalTake,
        CompressTake, NextNeighbor, LoadP2, Loop, Cas, Reload, ReloadP1, ReloadP2,
        Up, Jump, Crawl, CasWrite, JumpWrite
    <2>3. UNCHANGED comp \/ \E v \in Workers : v # x /\ (CasWrite(v) \/ JumpWrite(v))
      BY Zenon, <1>8, <2>2
    <2> QED BY ZenonT(30), <1>7, <2>1, <2>3
  <1>9. CASE Ends \/ UNCHANGED vars
    BY Zenon, <1>7, <1>9 DEF Ends, EndLink, EndCompress, EndFinal, EndLast, Barrier, vars
  <1> QED
    BY <1>1, <1>2, <1>3, <1>4, <1>5, <1>6, <1>8, <1>9
      DEF Next, TakeStep, CompressStep, Done

\* How a parallel loop comes to be done with a node.
LEMMA HandledStep ==
  ASSUME IInv, [Next]_vars, ~Ends, NEW u \in Node, Handled(u)', ~Handled(u)
  PROVE  \E w \in Workers :
           \/ pc[w] = "next" /\ at[w] = u /\ rest[w] = {} /\ stage \in {"link", "final"}
           \/ stage = "final" /\ comp[u] = c
           \/ pc[w] = "up" /\ at[w] = u /\ comp[a[w]] = a[w] /\ comp' = comp
  <1>t. TypeOK /\ StagesOK
    BY Zenon DEF IInv
  <1> USE DEF Handled
  <1>1. ASSUME NEW w \in Workers, NEW n \in Node,
               LinkTake(w, n) \/ FinalTake(w, n) \/ CompressTake(w, n)
        PROVE  stage = "final" /\ comp[u] = c
    BY Zenon, <1>t, <1>1 DEF TypeOK, LinkTake, FinalTake, CompressTake, Take
  <1>2. ASSUME NEW w \in Workers, NextNeighbor(w)
        PROVE  pc[w] = "next" /\ at[w] = u /\ rest[w] = {} /\ stage \in {"link", "final"}
    <2>1. stage \in {"link", "final"}
      BY Zenon, <1>t, <1>2 DEF NextNeighbor, StagesOK, TypeOK
    <2> QED BY Zenon, <1>t, <1>2, <2>1 DEF TypeOK, NextNeighbor
  <1>3. ASSUME NEW w \in Workers,
               LoadP2(w) \/ Loop(w) \/ Cas(w) \/ Reload(w) \/ ReloadP1(w) \/ ReloadP2(w)
                 \/ Jump(w) \/ Crawl(w)
        PROVE  FALSE
    BY ZenonT(30), <1>t, <1>3 DEF TypeOK, LoadP2, Loop, Cas, Reload, ReloadP1, ReloadP2, Jump, Crawl
  <1>4. ASSUME NEW w \in Workers, Up(w)
        PROVE  pc[w] = "up" /\ at[w] = u /\ comp[a[w]] = a[w] /\ comp' = comp
    BY <1>t, <1>4 DEF TypeOK, Up
  <1>5. CASE UNCHANGED vars
    BY <1>5 DEF vars
  <1> QED
    BY Zenon, <1>1, <1>2, <1>3, <1>4, <1>5 DEF Next, TakeStep, LinkStep, CompressStep, Done

\* The loops miss no edge.
LEMMA ProgressStep ==
  ASSUME IInv, [Next]_vars
  PROVE  Progress'
  <1>t. TypeOK /\ TypeOK' /\ Progress /\ g' = g /\ g \in Graphs
        /\ round \in Nat /\ g.rounds \in Nat \ {0} /\ round <= g.rounds - 1
    <2>1. TypeOK /\ TypeOK' /\ Progress /\ g' = g
      BY TypeStep, Frame DEF IInv
    <2> QED BY <2>1, AfforestAssumption DEF TypeOK
  <1>j. \A u, v : Joined(u, v) => Joined(u, v)'
    BY Zenon, JoinedStable
  <1>d. \A k : SampledDone(k) => SampledDone(k)'
    BY <1>t, <1>j DEF SampledDone, Sampled, Node
  <1>1. CASE ~Ends
    <2>1. UNCHANGED <<stage, round, c>>
      BY Zenon, <1>1, Frame
    <2>2. CASE stage = "link"
      <3>1. SampledDone(round)'
        BY <1>d, <1>t, <2>1, <2>2 DEF Progress
      <3>2. ASSUME NEW u \in Node, Handled(u)', NEW v \in Sampled(g, u, round)
            PROVE  Joined(u, v)'
        <4>1. CASE Handled(u)
          BY <1>t, <1>j, <2>2, <3>2, <4>1 DEF Progress
        <4>2. CASE ~Handled(u)
          <5>1. PICK w \in Workers : \/ pc[w] = "next" /\ at[w] = u /\ rest[w] = {}
                                     \/ pc[w] = "up"
            BY <1>1, <2>2, <3>2, <4>2, HandledStep
          <5>2. pc[w] # "up"
            BY <2>2 DEF IInv, StagesOK, Linking
          <5>3. LinkOK(w) /\ v \in Targets(u)
            BY ZenonT(30), <2>2, <3>2 DEF IInv, Targets
          <5>4. Joined(u, v)
            BY <5>1, <5>2, <5>3 DEF LinkOK, Linking
          <5> QED BY <1>j, <5>4
        <4> QED BY <4>1, <4>2
      <3> QED BY <1>t, <2>1, <2>2, <3>1, <3>2 DEF Progress, Node
    <2>3. CASE stage = "compress"
      <3>1. SampledDone(round + 1)'
        BY Zenon, <1>d, <1>t, <2>1, <2>3 DEF Progress
      <3> QED BY <2>1, <2>3, <3>1 DEF Progress
    <2>4. CASE stage = "final"
      <3>1. SampledDone(g.rounds)'
        BY <1>d, <1>t, <2>4 DEF Progress
      <3>2. ASSUME NEW u \in Node, Handled(u)'
            PROVE  Joined(u, c)' \/ \A v \in Remaining(g, u) : Joined(u, v)'
        <4>1. CASE Handled(u)
          BY Zenon, <1>t, <1>j, <2>1, <2>4, <4>1 DEF Progress
        <4>2. CASE ~Handled(u)
          <5>1. PICK w \in Workers : \/ pc[w] = "next" /\ at[w] = u /\ rest[w] = {}
                                     \/ comp[u] = c \/ pc[w] = "up"
            BY <1>1, <2>4, <3>2, <4>2, HandledStep
          <5>2. pc[w] # "up"
            BY <2>4 DEF IInv, StagesOK, Linking
          <5>3. CASE comp[u] = c
            <6>1. Joined(u, c)
              BY <5>3 DEF Joined, Consistent
            <6> QED BY <1>j, <2>1, <6>1
          <5>4. CASE pc[w] = "next" /\ at[w] = u /\ rest[w] = {}
            <6>1. LinkOK(w) /\ Targets(u) = Remaining(g, u)
              BY ZenonT(30), <2>4 DEF IInv, Targets
            <6>2. \A v \in Remaining(g, u) : Joined(u, v)
              BY <5>4, <6>1 DEF LinkOK, Linking
            <6> QED BY <1>j, <6>2
          <5> QED BY ZenonT(30), <5>1, <5>2, <5>3, <5>4
        <4> QED BY <4>1, <4>2
      <3>3. \A u : Remaining(g, u)' = Remaining(g, u)
        BY ZenonT(30), <1>t DEF Remaining, InSet, OutSet, Node
      <3> QED BY <1>t, <2>1, <2>4, <3>1, <3>2, <3>3 DEF Progress, Node
    <2>5. CASE stage \in {"last", "done"}
      BY <1>t, <1>j, <2>1, <2>5 DEF Progress, OutSet, Node
    <2> QED BY <1>t, <2>2, <2>3, <2>4, <2>5 DEF TypeOK
  <1>b. ASSUME Barrier PROVE \A u \in Node : Handled(u)
    BY <1>b DEF Barrier, Handled
  <1>n. ASSUME todo' = Node PROVE \A u \in Node : ~Handled(u)'
    BY <1>n DEF Handled
  <1>2. CASE EndLink
    <2>1. SampledDone(round + 1)
      <3>1. \A u \in Node : \A v \in Sampled(g, u, round) : Joined(u, v)
        BY <1>2, <1>t, <1>b DEF EndLink, Progress
      <3>2. SampledDone(round)
        BY <1>2, <1>t DEF EndLink, Progress
      <3>3. \A r \in 0..((round + 1) - 1) : r \in 0..(round - 1) \/ r = round
        BY <1>t
      <3> QED BY <3>1, <3>2, <3>3 DEF SampledDone
    <2> QED BY <1>2, <1>d, <2>1 DEF EndLink, Progress
  <1>3. CASE EndCompress
    <2>0. PICK k \in Nat : k = round + 1
      BY <1>t
    <2>1. SampledDone(k)' /\ todo' = Node
      BY <1>3, <1>t, <1>d, <2>0 DEF EndCompress, Progress
    <2>2. CASE round + 1 < g.rounds
      <3>1. stage' = "link" /\ round' = round + 1
        BY <1>3, <1>t, <2>2 DEF EndCompress
      <3>2. SampledDone(round)'
        BY <2>0, <2>1, <3>1
      <3> QED BY <1>n, <2>1, <3>1, <3>2 DEF Progress, Node
    <2>3. CASE round + 1 >= g.rounds
      <3>1. stage' = "final" /\ round + 1 = g.rounds
        BY <1>3, <1>t, <2>3 DEF EndCompress
      <3>2. SampledDone(g.rounds)'
        BY ZenonT(30), <1>t, <2>0, <2>1, <3>1
      <3> QED BY <1>n, <2>1, <3>1, <3>2 DEF Progress, Node
    <2> QED BY <1>t, <2>2, <2>3
  <1>4. CASE EndFinal
    <2>1. stage = "final" /\ stage' = "last" /\ SampledDone(g.rounds)
          /\ \A u \in Node : Joined(u, c) \/ \A v \in Remaining(g, u) : Joined(u, v)
      BY <1>4, <1>t, <1>b DEF EndFinal, Progress
    <2>2. ASSUME NEW u \in Node, NEW v \in OutSet(g, u) PROVE Joined(u, v)
      <3>1. v \in Node
        BY <1>t, <2>2, TargetsAreEdges
      <3>2. CASE \A z \in Remaining(g, u) : Joined(u, z)
        <4>1. v \in Remaining(g, u) \/ \E r \in 0..(g.rounds - 1) : v \in Sampled(g, u, r)
          BY <1>t, <2>2, EdgesAreTargets
        <4> QED BY <2>1, <3>2, <4>1 DEF SampledDone
      <3>3. CASE \A z \in Remaining(g, v) : Joined(v, z)
        <4>1. Joined(v, u)
          <5>1. CASE g.directed
            <6>1. u \in Remaining(g, v)
              BY <2>2, <5>1 DEF Remaining, InSet
            <6> QED BY <3>3, <6>1
          <5>2. CASE ~g.directed
            <6>1. u \in OutSet(g, v)
              BY <1>t, <2>2, <3>1, <5>2, AfforestAssumption
            <6>2. u \in Remaining(g, v) \/ \E r \in 0..(g.rounds - 1) : u \in Sampled(g, v, r)
              BY <1>t, <3>1, <6>1, EdgesAreTargets
            <6> QED BY Zenon, <2>1, <3>1, <3>3, <6>2 DEF SampledDone
          <5> QED BY <5>1, <5>2
        <4> QED BY <4>1 DEF Joined
      <3>4. CASE Joined(u, c) /\ Joined(v, c)
        BY Zenon, <3>4 DEF Joined
      <3> QED BY <2>1, <3>1, <3>2, <3>3, <3>4
    <2> QED BY <1>t, <1>j, <2>1, <2>2 DEF Progress, OutSet, Node
  <1>5. CASE EndLast
    <2>1. stage = "last" /\ stage' = "done"
      BY <1>5 DEF EndLast
    <2> QED BY ZenonT(30), <1>t, <1>j, <2>1 DEF Progress, OutSet, Node
  <1> QED
    BY ZenonT(30), <1>1, <1>2, <1>3, <1>4, <1>5 DEF Ends

\* A node Compress is done with stays at depth one while Compress runs.
LEMMA FlatStep ==
  ASSUME IInv, [Next]_vars
  PROVE  Flat'
  <1>t. TypeOK /\ Flat /\ comp \in [Node -> Node] /\ N \in Nat
    BY Zenon, AfforestAssumption DEF IInv, TypeOK
  <1>1. CASE Ends
    <2>1. comp' = comp
      BY <1>1 DEF Ends, EndLink, EndCompress, EndFinal, EndLast, Barrier
    <2>2. CASE EndLast
      <3>1. stage = "last" /\ pc' = pc /\ at' = at /\ todo' = todo
        BY <2>2 DEF EndLast, Barrier
      <3> QED BY <1>t, <2>1, <3>1 DEF Flat, Handled, Node
    <2>3. CASE ~EndLast
      <3>1. todo' = Node
        BY <1>1, <2>3 DEF Ends, EndLink, EndCompress, EndFinal
      <3> QED BY <3>1 DEF Flat, Handled, Node
    <2> QED BY <2>2, <2>3
  <1>2. CASE ~Ends
    <2>1. stage' = stage
      BY <1>2, Frame
    <2>2. SUFFICES ASSUME stage \in {"compress", "last", "done"},
                          NEW n \in Node, Handled(n)'
                   PROVE  comp'[comp'[n]] = comp'[n]
      BY <2>1 DEF Flat, Node
    <2>3. CASE ~Handled(n)
      <3>1. PICK w \in Workers :
              pc[w] = "up" /\ at[w] = n /\ comp[a[w]] = a[w] /\ comp' = comp
        BY Zenon, <1>2, <2>2, <2>3, HandledStep
      <3>2. a[w] = comp[n]
        BY Zenon, <3>1 DEF IInv, CompressOK
      <3> QED BY Zenon, <3>1, <3>2
    <2>4. CASE Handled(n)
      <3>1. comp[comp[n]] = comp[n]
        BY <1>t, <2>2, <2>4 DEF Flat
      <3>2. CASE UNCHANGED comp
        BY <3>1, <3>2
      <3>3. ASSUME NEW w \in Workers, CasWrite(w) PROVE FALSE
        BY Zenon, <2>2, <3>3 DEF IInv, StagesOK, CasWrite
      <3>4. ASSUME NEW w \in Workers, JumpWrite(w) PROVE comp'[comp'[n]] = comp'[n]
        <4>1. /\ pc[w] = "jump" /\ at[w] \in Node /\ comp[at[w]] < at[w]
          BY <3>4 DEF IInv, TypeOK, CompressOK, JumpWrite
        <4>2. at[w] # n
          BY <2>4, <4>1 DEF Handled
        <4>3. comp[n] # at[w]
          BY <1>t, <3>1, <4>1 DEF Node
        <4> QED BY <1>t, <3>1, <3>4, <4>1, <4>2, <4>3 DEF JumpWrite
      <3> QED BY <3>2, <3>3, <3>4, Writers
    <2> QED BY <2>3, <2>4
  <1> QED BY <1>1, <1>2

-----------------------------------------------------------------------------
LEMMA InitInv == Init => IInv
  <1> SUFFICES ASSUME Init PROVE IInv
    OBVIOUS
  <1>t. TypeOK
    <2>1. g \in Graphs /\ g.rounds \in Nat \ {0} /\ N \in Nat \ {0}
      BY AfforestAssumption DEF Init
    <2>2. 0 \in Node /\ 0 \in 0..(g.rounds - 1)
      BY <2>1 DEF Node
    <2> QED BY ZenonT(30), <2>1, <2>2 DEF Init, TypeOK
  <1>1. Descending /\ Within
    BY AfforestAssumption DEF Init, Descending, Within, Consistent, Node
  <1>2. StagesOK /\ Exclusive
    BY Zenon DEF Init, StagesOK, Exclusive
  <1>3. \A w \in Workers : LinkOK(w) /\ CompressOK(w)
    BY Zenon DEF Init, LinkOK, CompressOK, Linking
  <1>4. Progress /\ Flat
    BY DEF Init, Progress, Flat, SampledDone, Handled
  <1> QED BY <1>t, <1>1, <1>2, <1>3, <1>4 DEF IInv

LEMMA StepInv ==
  ASSUME IInv, [Next]_vars
  PROVE  IInv'
  <1>1. TypeOK'
    BY TypeStep DEF IInv
  <1>2. \A w \in Workers : LinkOK(w)' /\ CompressOK(w)'
    BY LinkOKStep, CompressOKStep
  <1> QED
    BY <1>1, <1>2, DescendingStep, StagesStep, ExclusiveStep, WithinStep,
      ProgressStep, FlatStep DEF IInv

\* In the end the labels are those of the components.
LEMMA InvComponents == IInv => Components
  <1> SUFFICES ASSUME IInv, stage = "done", NEW u \in Node, NEW v \in Node
               PROVE  comp[u] = comp[v] <=> Connected(u, v)
    BY DEF Components
  <1>t. comp \in Labels
    BY DEF IInv, TypeOK, Labels
  <1>1. \A n \in Node : comp[comp[n]] = comp[n]
    <2>1. \A n \in Node : Handled(n)
      BY Zenon DEF IInv, StagesOK, Handled
    <2> QED BY Zenon, <2>1 DEF IInv, Flat
  <1>2. ASSUME comp[u] = comp[v] PROVE Connected(u, v)
    <2> SUFFICES ASSUME NEW f \in Labels, AlongEdges(f) PROVE f[u] = f[v]
      BY DEF Connected
    <2>1. Consistent(f)
      BY DEF IInv, Within
    <2> QED BY Zenon, <1>2, <2>1 DEF Consistent
  <1>3. ASSUME Connected(u, v) PROVE comp[u] = comp[v]
    <2>1. Consistent(comp)
      BY <1>1 DEF Consistent
    <2>2. AlongEdges(comp)
      <3>1. \A x \in Node : \A y \in OutSet(g, x) : Joined(x, y)
        BY DEF IInv, Progress
      <3> QED BY <1>t, <2>1, <3>1 DEF AlongEdges, Joined
    <2> QED BY <1>t, <1>3, <2>2 DEF Connected
  <1> QED BY <1>2, <1>3

\* Afforest returns the connected components of its graph, for every graph,
\* every number of threads and every interleaving of their loads and stores.
THEOREM AfforestCorrect == Spec => []Components
  <1>1. Init => IInv
    BY InitInv
  <1>2. IInv /\ [Next]_vars => IInv'
    BY StepInv
  <1>3. IInv => Components
    BY InvComponents
  <1> QED BY <1>1, <1>2, <1>3, PTL DEF Spec

\* The parent pointers never form a cycle: each leads to a smaller node.
THEOREM AfforestDescends == Spec => [](TypeOK /\ Descending)
  <1>1. Init => IInv
    BY InitInv
  <1>2. IInv /\ [Next]_vars => IInv'
    BY StepInv
  <1>3. IInv => TypeOK /\ Descending
    BY DEF IInv
  <1> QED BY <1>1, <1>2, <1>3, PTL DEF Spec
=============================================================================
