------------------------------ MODULE PriceGraph ------------------------------
(***************************************************************************)
(* The price graph of the DEX strategy: a token registry, a flat vector of *)
(* edges, adjacency lists of edge indices and an index from a pool and an  *)
(* input mint to its edge.  Edges are never taken out of the vector: an    *)
(* update overwrites them, remove_pool makes their weights infinite.       *)
(*                                                                         *)
(* Reserves are given by their logarithms, or NoReserve for a reserve of   *)
(* zero, so a weight -ln(rate * (1 - fee)) is an integer.  An edge's rate  *)
(* and liquidity are zero exactly when its weight is infinite and are left *)
(* out.  Indices start at 1.                                               *)
(***************************************************************************)
EXTENDS Integers, Sequences

CONSTANTS
  Pools,      \* pool addresses
  Mints,      \* token mints
  MintsOf,    \* MintsOf[p]: the mints of pool p's tokens A and B
  FeeOf,      \* FeeOf[p]: -ln(1 - fee rate) of pool p
  Amounts,    \* logarithms of reserves
  NoReserve,  \* an empty reserve
  Infinite    \* f64::INFINITY

ASSUME GraphAssumption ==
  /\ MintsOf \in [Pools -> Mints \X Mints]
  /\ \A p \in Pools : MintsOf[p][1] # MintsOf[p][2]
  /\ FeeOf \in [Pools -> Nat]
  /\ Amounts \subseteq Int /\ NoReserve \notin Int
  /\ Infinite \notin Int

VARIABLE graph  \* DexArbStrategy::mutable_graph

Edges ==
  [source : Nat, dest : Nat, pool : Pools, source_mint : Mints, dest_mint : Mints,
   weight : Int \cup {Infinite}]

New ==
  [index_to_mint |-> <<>>, mint_to_index |-> <<>>,
   edges |-> <<>>, adjacency |-> <<>>, pool_edge_index |-> <<>>]

Init == graph = New

\* HashMap::insert.
Extend(f, key, value) ==
  [k \in DOMAIN f \cup {key} |-> IF k = key THEN value ELSE f[k]]

\* TokenRegistry::get_or_insert, without the index it returns.
get_or_insert(g, mint) ==
  IF mint \in DOMAIN g.mint_to_index THEN g
  ELSE [g EXCEPT
         !.index_to_mint = Append(@, mint),
         !.mint_to_index = Extend(@, mint, Len(g.index_to_mint) + 1)]

ensure_adjacency_OneShort(g, node) ==
  LET size == IF Len(g.adjacency) < node - 1 THEN node - 1 ELSE Len(g.adjacency)
  IN  [g EXCEPT !.adjacency = [n \in 1..size |-> IF n \in DOMAIN @ THEN @[n] ELSE <<>>]]

ensure_adjacency(g, node) ==
  LET size == IF Len(g.adjacency) < node THEN node ELSE Len(g.adjacency)
  IN  [g EXCEPT !.adjacency = [n \in 1..size |-> IF n \in DOMAIN @ THEN @[n] ELSE <<>>]]

upsert_edge_AdjacencyByDest(g, e) ==
  LET key == <<e.pool, e.source_mint>>
  IN  IF key \in DOMAIN g.pool_edge_index
      THEN [g EXCEPT !.edges[g.pool_edge_index[key]].weight = e.weight]
      ELSE [g EXCEPT
             !.edges = Append(@, e),
             !.adjacency[e.dest] = Append(@, Len(g.edges) + 1),
             !.pool_edge_index = Extend(@, key, Len(g.edges) + 1)]

\* An edge that exists is updated in place, a new one goes into all three tables.
upsert_edge(g, e) ==
  LET key == <<e.pool, e.source_mint>>
  IN  IF key \in DOMAIN g.pool_edge_index
      THEN [g EXCEPT !.edges[g.pool_edge_index[key]].weight = e.weight]
      ELSE [g EXCEPT
             !.edges = Append(@, e),
             !.adjacency[e.source] = Append(@, Len(g.edges) + 1),
             !.pool_edge_index = Extend(@, key, Len(g.edges) + 1)]

\* The edge of pool p from its mint i to its mint j, in a graph that has both.
EdgeOf(g, p, i, j, weight) ==
  [source |-> g.mint_to_index[MintsOf[p][i]], dest |-> g.mint_to_index[MintsOf[p][j]],
   pool |-> p, source_mint |-> MintsOf[p][i], dest_mint |-> MintsOf[p][j],
   weight |-> weight]

\* Both tokens of pool p have an index and an adjacency list.
WithTokens(g, p) ==
  LET a == get_or_insert(g, MintsOf[p][1])
      b == get_or_insert(a, MintsOf[p][2])
      first == ensure_adjacency(b, b.mint_to_index[MintsOf[p][1]])
  IN  ensure_adjacency(first, b.mint_to_index[MintsOf[p][2]])

update_pool(g, p, a, b) ==
  IF a = NoReserve \/ b = NoReserve THEN g
  ELSE LET known == WithTokens(g, p)
           forth == upsert_edge(known, EdgeOf(known, p, 1, 2, a - b + FeeOf[p]))
       IN  upsert_edge(forth, EdgeOf(known, p, 2, 1, b - a + FeeOf[p]))

remove_pool_FirstEdgeOnly(g, p) ==
  [g EXCEPT !.edges = [i \in DOMAIN @ |->
     IF @[i].pool = p /\ @[i].source_mint = MintsOf[p][1]
     THEN [@[i] EXCEPT !.weight = Infinite] ELSE @[i]]]

remove_pool_Reindexes(g, p) ==
  [g EXCEPT !.edges = SelectSeq(@, LAMBDA e : e.pool # p)]

remove_pool(g, p) ==
  [g EXCEPT !.edges = [i \in DOMAIN @ |->
     IF @[i].pool = p THEN [@[i] EXCEPT !.weight = Infinite] ELSE @[i]]]

UpdatePool(p) ==
  \E a, b \in Amounts \cup {NoReserve} : graph' = update_pool(graph, p, a, b)

RemovePool(p) == graph' = remove_pool(graph, p)

Next == \E p \in Pools : UpdatePool(p) \/ RemovePool(p)

Spec == Init /\ [][Next]_graph

------------------------------------------------------------------------------
(* Properties *)

\* The graph's five tables keep their types, and every registered token has an
\* adjacency list (upsert_edge indexes the lists unchecked).
TypeOK ==
  /\ graph.index_to_mint \in Seq(Mints)
  /\ DOMAIN graph.mint_to_index \subseteq Mints
  /\ graph.edges \in Seq(Edges)
  /\ graph.adjacency \in Seq(Seq(1..Len(graph.edges)))
  /\ Len(graph.adjacency) = Len(graph.index_to_mint)
  /\ DOMAIN graph.pool_edge_index \subseteq Pools \X Mints

\* Token indices and mints are each other's inverse.
RegistryAgrees(g) ==
  /\ \A i \in DOMAIN g.index_to_mint :
       /\ g.index_to_mint[i] \in DOMAIN g.mint_to_index
       /\ g.mint_to_index[g.index_to_mint[i]] = i
  /\ \A m \in DOMAIN g.mint_to_index :
       /\ g.mint_to_index[m] \in DOMAIN g.index_to_mint
       /\ g.index_to_mint[g.mint_to_index[m]] = m

\* An edge joins the two tokens of its pool, by mint and by index.
EdgeAgrees(g, e) ==
  /\ <<e.source_mint, e.dest_mint>> \in
       {MintsOf[e.pool], <<MintsOf[e.pool][2], MintsOf[e.pool][1]>>}
  /\ {e.source_mint, e.dest_mint} \subseteq DOMAIN g.mint_to_index
  /\ e.source = g.mint_to_index[e.source_mint]
  /\ e.dest = g.mint_to_index[e.dest_mint]

\* The index finds each edge, and nothing else: no direction has two edges.
IndexAgrees(g) ==
  /\ \A i \in DOMAIN g.edges :
       LET key == <<g.edges[i].pool, g.edges[i].source_mint>>
       IN  key \in DOMAIN g.pool_edge_index /\ g.pool_edge_index[key] = i
  /\ \A key \in DOMAIN g.pool_edge_index :
       LET i == g.pool_edge_index[key]
       IN  i \in DOMAIN g.edges /\ key = <<g.edges[i].pool, g.edges[i].source_mint>>

\* Each token's list has the edges that leave it, each once.
ListsAgree(g) ==
  \A t \in DOMAIN g.adjacency :
    /\ \A i \in DOMAIN g.edges :
         g.edges[i].source = t <=> \E k \in DOMAIN g.adjacency[t] : g.adjacency[t][k] = i
    /\ \A k, l \in DOMAIN g.adjacency[t] : g.adjacency[t][k] = g.adjacency[t][l] => k = l

\* The registry, the edges, the index and the lists tell the same story after any
\* sequence of updates and removals, tokens and pools arriving in any order.
TablesAgree ==
  /\ RegistryAgrees(graph)
  /\ \A i \in DOMAIN graph.edges : EdgeAgrees(graph, graph.edges[i])
  /\ IndexAgrees(graph)
  /\ ListsAgree(graph)

SameEdge(e, f) == e.pool = f.pool /\ e.source_mint = f.source_mint /\ e.dest_mint = f.dest_mint

\* An index handed out, of an edge (ArbHop::edge_index) or of a token, stands for
\* the same edge or token for ever: nothing is reindexed.
IndicesStayValid ==
  [][/\ \A i \in DOMAIN graph.edges :
          i \in DOMAIN graph'.edges /\ SameEdge(graph'.edges[i], graph.edges[i])
     /\ \A t \in DOMAIN graph.index_to_mint :
          t \in DOMAIN graph'.index_to_mint
          /\ graph'.index_to_mint[t] = graph.index_to_mint[t]]_graph

\* The weight of pool p when its mint i goes in, as the index finds it.
WeightOf(g, p, i) == g.edges[g.pool_edge_index[<<p, MintsOf[p][i]>>]].weight

Quotes(g) ==
  [p \in Pools |->
     IF <<p, MintsOf[p][1]>> \in DOMAIN g.pool_edge_index
     THEN <<WeightOf(g, p, 1), WeightOf(g, p, 2)>> ELSE <<>>]

Board == INSTANCE QuoteBoard WITH quotes <- Quotes(graph)

\* The tables together behave as one map from pools to their two weights: an update
\* changes one pool, both directions at once, and a removed pool is out in both.
ImplementsBoard == Board!Spec
==============================================================================
