------------------------------- MODULE ArbSearch -------------------------------
(***************************************************************************)
(* The two searches for arbitrage over the price graph: the depth-first    *)
(* search the DEX strategy runs from each anchor mint after every update,  *)
(* and Bellman-Ford with cycle tracing, which has no caller but its test.  *)
(* Both are functions of the graph, checked in every state of PriceGraph   *)
(* against a definition of profitable cycles over the pools' quotes.       *)
(*                                                                         *)
(* A path is a sequence of edge indices; its profit ratio is the           *)
(* exponential of its gain, the negated sum of its weights.                *)
(***************************************************************************)
EXTENDS PriceGraph, SeqFolds, SequencesExt

CONSTANTS
  Anchors,  \* mints the strategy searches from
  MaxHops,  \* max_hops of the configuration
  MinGain   \* ln(1 + min_profit_ratio): every caller passes a positive ratio

ASSUME SearchAssumption == Anchors \subseteq Mints /\ MaxHops \in Nat /\ MinGain \in Nat

Edge(i) == graph.edges[i]
Usable(i) == Edge(i).weight # Infinite
Gain(path) == -SumSeq([k \in DOMAIN path |-> Edge(path[k]).weight])

\* build_arb_path_from_edges: the hops are named by pool and input mint.
Hops(path) == [k \in DOMAIN path |-> <<Edge(path[k]).pool, Edge(path[k]).source_mint>>]

edges_from(node) == IF node \in DOMAIN graph.adjacency THEN graph.adjacency[node] ELSE <<>>

PoolsOn(path) == {Edge(path[k]).pool : k \in DOMAIN path}

------------------------------------------------------------------------------
(* Depth-first search *)

Profitable(path) == Gain(path) > MinGain

Trails == Seq(DOMAIN graph.edges)

\* Where a path that began at source has got to.
EndOf(path, source) == IF path = <<>> THEN source ELSE Edge(path[Len(path)]).dest

\* What may follow on a path: its end's edges, those aside that are out of the graph
\* or belong to a pool already used.
Onward(path, source) ==
  Retain(edges_from(EndOf(path, source)),
         {i \in DOMAIN graph.edges : Usable(i) /\ Edge(i).pool \notin PoolsOn(path)})

\* One edge more: a path is closed as soon as it is back at source, and any other is
\* searched on.
Explore(found, source, path, i) ==
  IF Edge(i).dest = source /\ path # <<>>
  THEN IF Profitable(Append(path, i)) THEN <<Append(path, i)>> ELSE <<>>
  ELSE found[Append(path, i)]

ExploreAll(found, source, path) ==
  LET onward == Onward(path, source)
  IN  FlattenSeq([k \in DOMAIN onward |-> Explore(found, source, path, onward[k])])

\* For each number of hops left, what comes of each path: the cycles that extend it.
dfs_recurse(source, max_hops) ==
  LET found[hops \in 0..max_hops] ==
        [path \in Trails |->
           IF hops = 0 THEN <<>> ELSE ExploreAll(found[hops - 1], source, path)]
  IN  found

find_cycles_dfs_TwoHopsOnly(source) == dfs_recurse(source, MaxHops - 1)[MaxHops - 1][<<>>]

find_cycles_dfs(source) == dfs_recurse(source, MaxHops)[MaxHops][<<>>]

------------------------------------------------------------------------------
(* Bellman-Ford.  Nothing is at distance Infinite; NoEdge is no predecessor.    *)

NoEdge == 0
Nodes == DOMAIN graph.index_to_mint
Start(source) ==
  [dist |-> [n \in Nodes |-> IF n = source THEN 0 ELSE Infinite],
   predecessor |-> [n \in Nodes |-> NoEdge]]

\* The path over edge i is shorter than the one known to its end.
Shortens(state, i) ==
  /\ Usable(i)
  /\ state.dist[Edge(i).source] # Infinite
  /\ LET known == state.dist[Edge(i).dest]
     IN  known = Infinite \/ state.dist[Edge(i).source] + Edge(i).weight < known

Relax(state, i) ==
  IF Shortens(state, i)
  THEN [state EXCEPT
         !.dist[Edge(i).dest] = state.dist[Edge(i).source] + Edge(i).weight,
         !.predecessor[Edge(i).dest] = i]
  ELSE state

\* One pass over the edges in their order, each step seeing the ones before it.
RelaxAll(state) ==
  LET relaxed[i \in 0..Len(graph.edges)] ==
        IF i = 0 THEN state ELSE Relax(relaxed[i - 1], i)
  IN  relaxed[Len(graph.edges)]

\* n - 1 passes; a pass that changes nothing ends the loop, and more would change
\* nothing either.
Relaxed(source) ==
  LET passes == Len(graph.index_to_mint) - 1
      passed[n \in 0..passes] == IF n = 0 THEN Start(source) ELSE RelaxAll(passed[n - 1])
  IN  passed[passes]

\* The node one predecessor edge back, NoEdge once one is missing.
Before(state, node) ==
  IF node = NoEdge \/ state.predecessor[node] = NoEdge THEN NoEdge
  ELSE Edge(state.predecessor[node]).source

\* The nodes reached from node by up to n predecessor edges.
Ancestors(state, node) ==
  LET ancestor[n \in 0..Len(graph.index_to_mint)] ==
        IF n = 0 THEN node ELSE Before(state, ancestor[n - 1])
  IN  ancestor

\* After n steps back the node is on a cycle of predecessors, so the loop is back
\* there after n more at the latest: the code's tests for a missing predecessor and
\* for more than n edges never succeed.
Period(state, node) ==
  CHOOSE k \in 1..Len(graph.index_to_mint) :
    /\ Ancestors(state, node)[k] = node
    /\ \A j \in 1..(k - 1) : Ancestors(state, node)[j] # node

\* The predecessor edges from node back to itself, in the order of travel.
trace_cycle(state, node) ==
  LET period == Period(state, node)
  IN  [j \in 1..period |-> state.predecessor[Ancestors(state, node)[period - j]]]

Detect_Unmarked(state, acc, i) ==
  LET node == Ancestors(state, Edge(i).dest)[Len(graph.index_to_mint)]
  IN  IF ~Shortens(state, i) \/ node = NoEdge THEN acc
      ELSE LET cycle == trace_cycle(state, node)
           IN  [acc EXCEPT !.cycles = IF Profitable(cycle) THEN Append(@, cycle) ELSE @]

\* Edge i shortens a path after all passes: trace the cycle behind it, unless that
\* cycle is known.
Detect(state, acc, i) ==
  LET node == Ancestors(state, Edge(i).dest)[Len(graph.index_to_mint)]
  IN  IF ~Shortens(state, i) \/ node = NoEdge \/ node \in acc.visited THEN acc
      ELSE LET cycle == trace_cycle(state, node)
           IN  [visited |-> acc.visited \cup {Edge(cycle[k]).dest : k \in DOMAIN cycle},
                cycles |-> IF Len(cycle) \in 2..4 /\ Profitable(cycle)
                           THEN Append(acc.cycles, cycle) ELSE acc.cycles]

find_arbitrage_from(source) ==
  LET state == Relaxed(source)
      found[i \in 0..Len(graph.edges)] ==
        IF i = 0 THEN [visited |-> {}, cycles |-> <<>>] ELSE Detect(state, found[i - 1], i)
  IN  found[Len(graph.edges)].cycles

------------------------------------------------------------------------------
(* Properties *)

\* A hop is a pool and the one of its mints that goes in.
InputOf(hop) == hop[2]
SideOf(hop) == IF hop[2] = MintsOf[hop[1]][1] THEN 1 ELSE 2
OutputOf(hop) == MintsOf[hop[1]][3 - SideOf(hop)]
Quoted == {p \in Pools : Quotes(graph)[p] \notin {<<>>, <<Infinite, Infinite>>}}
QuotedHops == UNION {{<<p, MintsOf[p][1]>>, <<p, MintsOf[p][2]>>} : p \in Quoted}

\* The hops follow each other and end where they begin, through distinct pools.
IsCycle(hops) ==
  /\ \A k \in DOMAIN hops :
       InputOf(hops[(k % Len(hops)) + 1]) = OutputOf(hops[k])
  /\ \A k, l \in DOMAIN hops : hops[k][1] = hops[l][1] => k = l

QuotedGain(hops) ==
  -SumSeq([k \in DOMAIN hops |-> Quotes(graph)[hops[k][1]][SideOf(hops[k])]])

IsArbitrage(hops) == IsCycle(hops) /\ QuotedGain(hops) > MinGain

\* The arbitrage cycles through mint that meet it once, in at most MaxHops hops.
ArbitragesAt(mint) ==
  {hops \in UNION {[1..n -> QuotedHops] : n \in 2..MaxHops} :
     /\ InputOf(hops[1]) = mint
     /\ \A k \in 2..Len(hops) : InputOf(hops[k]) # mint
     /\ IsArbitrage(hops)}

Indexed == DOMAIN graph.mint_to_index

\* Whatever the order in which pools and tokens came and went, the depth-first
\* search returns every profitable cycle through the anchor within the hop limit,
\* each once, and nothing else: the edges it walks carry the quotes of the pools.
DfsExact ==
  \A m \in Anchors \cap Indexed :
    LET found == find_cycles_dfs(graph.mint_to_index[m])
    IN  /\ IsInjective(found)
        /\ {Hops(found[k]) : k \in DOMAIN found} = ArbitragesAt(m)

\* What Bellman-Ford returns are profitable cycles through distinct pools, and no
\* two of them share a token: none is reported twice.
BellmanFordSound ==
  \A m \in Anchors \cap Indexed :
    LET found == find_arbitrage_from(graph.mint_to_index[m])
        TokensOn(k) == {InputOf(Hops(found[k])[j]) : j \in DOMAIN found[k]}
    IN  /\ \A k \in DOMAIN found : IsArbitrage(Hops(found[k]))
        /\ \A k, l \in DOMAIN found : k # l => TokensOn(k) \cap TokensOn(l) = {}
==============================================================================
