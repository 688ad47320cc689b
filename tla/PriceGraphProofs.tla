--------------------------- MODULE PriceGraphProofs ---------------------------
(***************************************************************************)
(* The price graph's tables agree for every set of pools, tokens and       *)
(* reserves, the graph implements QuoteBoard, and the two searches over it *)
(* are right: the depth-first search finds every arbitrage cycle once, and *)
(* Bellman-Ford reports only arbitrage cycles that share no token.         *)
(*                                                                         *)
(* One lemma per method says which parts of the graph it changes and that  *)
(* it keeps Sound, which is weaker than the invariant: within update_pool  *)
(* a token may still lack its list, and a pool one of its edges.  The      *)
(* searches need no more of the graph than the invariant and AllPaired.    *)
(***************************************************************************)
EXTENDS ArbSearch, SeqFoldsProofs, FiniteSetTheorems

Maps(S) == UNION {[D -> Nat] : D \in SUBSET S}

Graphs ==
  [index_to_mint : Seq(Mints), mint_to_index : Maps(Mints), edges : Seq(Edges),
   adjacency : Seq(Seq(Nat)), pool_edge_index : Maps(Pools \X Mints)]

EdgesAgree(g) == \A i \in DOMAIN g.edges : EdgeAgrees(g, g.edges[i])

\* Lists hold edges only, and every edge's source has a list.
Listed(g) ==
  /\ \A t \in DOMAIN g.adjacency : \A k \in DOMAIN g.adjacency[t] :
       g.adjacency[t][k] \in DOMAIN g.edges
  /\ \A i \in DOMAIN g.edges : g.edges[i].source \in DOMAIN g.adjacency
  /\ Len(g.adjacency) <= Len(g.index_to_mint)

Sound(g) ==
  /\ g \in Graphs
  /\ RegistryAgrees(g) /\ EdgesAgree(g) /\ IndexAgrees(g) /\ ListsAgree(g) /\ Listed(g)

\* A pool has both of its edges or none.
BothWays(g) ==
  \A p \in Pools :
    <<p, MintsOf[p][1]>> \in DOMAIN g.pool_edge_index
      <=> <<p, MintsOf[p][2]>> \in DOMAIN g.pool_edge_index

IInv ==
  /\ Sound(graph)
  /\ Len(graph.adjacency) = Len(graph.index_to_mint)
  /\ BothWays(graph)

------------------------------------------------------------------------------
(* HashMap::insert *)

\* A map with one entry set is a map.
LEMMA ExtendMap ==
  ASSUME NEW S, NEW f \in Maps(S), NEW key \in S, NEW value \in Nat
  PROVE  Extend(f, key, value) \in Maps(S)
<1>1. PICK D \in SUBSET S : f \in [D -> Nat]
  BY DEF Maps
<1>2. Extend(f, key, value) \in [D \cup {key} -> Nat]
  BY <1>1 DEF Extend
<1>3. D \cup {key} \in SUBSET S
  OBVIOUS
<1> QED
  BY <1>2, <1>3 DEF Maps

\* A map's keys and values are of their kinds.
LEMMA MapFacts ==
  ASSUME NEW S, NEW f \in Maps(S)
  PROVE  /\ DOMAIN f \subseteq S
         /\ \A k \in DOMAIN f : f[k] \in Nat
BY DEF Maps

------------------------------------------------------------------------------
(* TokenRegistry::get_or_insert *)

\* h knows every token g knows, under the same index.
KeepsTokens(g, h) ==
  /\ DOMAIN g.mint_to_index \subseteq DOMAIN h.mint_to_index
  /\ \A m \in DOMAIN g.mint_to_index : h.mint_to_index[m] = g.mint_to_index[m]
  /\ Len(g.index_to_mint) <= Len(h.index_to_mint)
  /\ \A t \in DOMAIN g.index_to_mint : h.index_to_mint[t] = g.index_to_mint[t]

\* g and h have the same edges, lists and index.
SameEdges(g, h) ==
  h.edges = g.edges /\ h.adjacency = g.adjacency /\ h.pool_edge_index = g.pool_edge_index

SameTokens(g, h) ==
  h.index_to_mint = g.index_to_mint /\ h.mint_to_index = g.mint_to_index

\* A new token changes the registry's two tables only.
LEMMA RegisterFields ==
  ASSUME NEW g \in Graphs, NEW mint \in Mints, mint \notin DOMAIN g.mint_to_index
  PROVE  LET h == get_or_insert(g, mint)
         IN  /\ h \in Graphs
             /\ h.index_to_mint = Append(g.index_to_mint, mint)
             /\ h.mint_to_index = Extend(g.mint_to_index, mint, Len(g.index_to_mint) + 1)
             /\ SameEdges(g, h)
<1> DEFINE h == get_or_insert(g, mint)
<1>1. /\ g.index_to_mint \in Seq(Mints) /\ g.mint_to_index \in Maps(Mints)
      /\ Len(g.index_to_mint) + 1 \in Nat
  BY DEF Graphs
<1>2. Extend(g.mint_to_index, mint, Len(g.index_to_mint) + 1) \in Maps(Mints)
  BY <1>1, ExtendMap
<1>3. Append(g.index_to_mint, mint) \in Seq(Mints)
  BY <1>1
<1>4. h = [g EXCEPT !.index_to_mint = Append(g.index_to_mint, mint),
                    !.mint_to_index = Extend(g.mint_to_index, mint, Len(g.index_to_mint) + 1)]
  BY DEF get_or_insert
<1> HIDE DEF h
<1>5. /\ h.index_to_mint = Append(g.index_to_mint, mint)
      /\ h.mint_to_index = Extend(g.mint_to_index, mint, Len(g.index_to_mint) + 1)
      /\ SameEdges(g, h)
  BY <1>4 DEF Graphs, SameEdges
<1>6. h \in Graphs
  BY <1>2, <1>3, <1>4 DEF Graphs
<1> QED
  BY <1>5, <1>6 DEF h

\* A token gets one index, the next one if it is new; the others keep theirs.
LEMMA RegisterSound ==
  ASSUME NEW g, NEW mint \in Mints, Sound(g)
  PROVE  LET h == get_or_insert(g, mint)
         IN  /\ Sound(h)
             /\ mint \in DOMAIN h.mint_to_index
             /\ KeepsTokens(g, h)
             /\ SameEdges(g, h)
             /\ \/ Len(h.index_to_mint) = Len(g.index_to_mint)
                \/ /\ Len(h.index_to_mint) = Len(g.index_to_mint) + 1
                   /\ h.mint_to_index[mint] = Len(g.index_to_mint) + 1
<1> DEFINE h == get_or_insert(g, mint)
<1>1. CASE mint \in DOMAIN g.mint_to_index
  <2>1. h = g
    BY <1>1 DEF get_or_insert
  <2> QED
    BY <2>1, <1>1 DEF KeepsTokens, SameEdges, Sound, Graphs
<1>2. CASE mint \notin DOMAIN g.mint_to_index
  <2>1. g \in Graphs
    BY DEF Sound
  <2>2. /\ h \in Graphs
        /\ h.index_to_mint = Append(g.index_to_mint, mint)
        /\ h.mint_to_index = Extend(g.mint_to_index, mint, Len(g.index_to_mint) + 1)
        /\ SameEdges(g, h)
    BY <2>1, <1>2, RegisterFields
  <2> HIDE DEF h
  <2>3. /\ g.index_to_mint \in Seq(Mints) /\ g.mint_to_index \in Maps(Mints)
        /\ Len(g.index_to_mint) + 1 \in Nat
    BY <2>1 DEF Graphs
  <2>4. /\ DOMAIN h.mint_to_index = DOMAIN g.mint_to_index \cup {mint}
        /\ h.mint_to_index[mint] = Len(g.index_to_mint) + 1
        /\ \A m \in DOMAIN g.mint_to_index : h.mint_to_index[m] = g.mint_to_index[m]
    BY <2>2, <1>2 DEF Extend
  <2>5. /\ Len(h.index_to_mint) = Len(g.index_to_mint) + 1
        /\ DOMAIN h.index_to_mint = DOMAIN g.index_to_mint \cup {Len(g.index_to_mint) + 1}
        /\ h.index_to_mint[Len(g.index_to_mint) + 1] = mint
        /\ \A t \in DOMAIN g.index_to_mint : h.index_to_mint[t] = g.index_to_mint[t]
        /\ Len(g.index_to_mint) + 1 \notin DOMAIN g.index_to_mint
    BY <2>2, <2>3
  <2>6. KeepsTokens(g, h)
    BY <2>4, <2>5, <2>3 DEF KeepsTokens
  <2>7. RegistryAgrees(g)
    BY DEF Sound
  <2>8. RegistryAgrees(h)
    BY <2>4, <2>5, <2>7, <1>2 DEF RegistryAgrees
  <2>9. EdgesAgree(h)
    BY <2>2, <2>4 DEF Sound, EdgesAgree, EdgeAgrees, SameEdges
  <2>10. IndexAgrees(h) /\ ListsAgree(h)
    BY <2>2 DEF Sound, IndexAgrees, ListsAgree, SameEdges
  <2>11. Listed(h)
    <3>1. Len(g.adjacency) <= Len(h.index_to_mint)
      BY <2>1, <2>3, <2>5 DEF Sound, Listed, Graphs
    <3> QED
      BY <3>1, <2>2 DEF Sound, Listed, SameEdges
  <2> QED
    BY <2>2, <2>4, <2>5, <2>6, <2>8, <2>9, <2>10, <2>11 DEF Sound, h
<1> QED
  BY <1>1, <1>2

------------------------------------------------------------------------------
(* ensure_adjacency *)

\* The lists are extended with empty ones up to the node.
LEMMA EnsureFields ==
  ASSUME NEW g \in Graphs, NEW node \in Nat
  PROVE  LET h == ensure_adjacency(g, node)
         IN  /\ h \in Graphs
             /\ SameTokens(g, h) /\ h.edges = g.edges /\ h.pool_edge_index = g.pool_edge_index
             /\ Len(h.adjacency) = IF Len(g.adjacency) < node THEN node ELSE Len(g.adjacency)
             /\ DOMAIN h.adjacency = 1..Len(h.adjacency)
             /\ DOMAIN g.adjacency = 1..Len(g.adjacency)
             /\ Len(g.adjacency) \in Nat
             /\ \A t \in DOMAIN h.adjacency :
                  h.adjacency[t] = IF t \in DOMAIN g.adjacency THEN g.adjacency[t] ELSE <<>>
<1> DEFINE h == ensure_adjacency(g, node)
           size == IF Len(g.adjacency) < node THEN node ELSE Len(g.adjacency)
           lists == [n \in 1..size |-> IF n \in DOMAIN g.adjacency THEN g.adjacency[n] ELSE <<>>]
<1>1. /\ g.adjacency \in Seq(Seq(Nat)) /\ Len(g.adjacency) \in Nat
      /\ DOMAIN g.adjacency = 1..Len(g.adjacency)
  BY DEF Graphs
<1>2. size \in Nat
  BY <1>1
<1>3. \A n \in 1..size :
        (IF n \in DOMAIN g.adjacency THEN g.adjacency[n] ELSE <<>>) \in Seq(Nat)
  BY <1>1
<1>4. lists \in Seq(Seq(Nat)) /\ Len(lists) = size /\ DOMAIN lists = 1..size
  <2>1. lists \in [1..size -> Seq(Nat)]
    BY <1>3
  <2> HIDE DEF lists, size
  <2> QED
    BY <1>2, <2>1
<1>5. h = [g EXCEPT !.adjacency = lists]
  BY DEF ensure_adjacency
<1>6. \A t \in 1..size :
        lists[t] = IF t \in DOMAIN g.adjacency THEN g.adjacency[t] ELSE <<>>
  OBVIOUS
<1> HIDE DEF h, lists
<1>7. /\ h.adjacency = lists
      /\ SameTokens(g, h) /\ h.edges = g.edges /\ h.pool_edge_index = g.pool_edge_index
  BY <1>5 DEF Graphs, SameTokens
<1>8. h \in Graphs
  BY <1>4, <1>5 DEF Graphs
<1> QED
  BY <1>1, <1>4, <1>6, <1>7, <1>8 DEF h

\* A token's list is there afterwards, empty if it is new.
LEMMA EnsureSound ==
  ASSUME NEW g, NEW node, Sound(g), node \in DOMAIN g.index_to_mint
  PROVE  LET h == ensure_adjacency(g, node)
         IN  /\ Sound(h)
             /\ SameTokens(g, h) /\ h.edges = g.edges /\ h.pool_edge_index = g.pool_edge_index
             /\ Len(h.adjacency) = IF Len(g.adjacency) < node THEN node ELSE Len(g.adjacency)
             /\ DOMAIN h.adjacency = 1..Len(h.adjacency)
             /\ node \in DOMAIN h.adjacency
<1> DEFINE h == ensure_adjacency(g, node)
<1>1. g \in Graphs /\ g.index_to_mint \in Seq(Mints) /\ node \in 1..Len(g.index_to_mint)
  BY DEF Sound, Graphs
<1>2. node \in Nat
  BY <1>1
<1>3. /\ h \in Graphs
      /\ SameTokens(g, h) /\ h.edges = g.edges /\ h.pool_edge_index = g.pool_edge_index
      /\ Len(h.adjacency) = IF Len(g.adjacency) < node THEN node ELSE Len(g.adjacency)
      /\ DOMAIN h.adjacency = 1..Len(h.adjacency)
      /\ DOMAIN g.adjacency = 1..Len(g.adjacency)
      /\ Len(g.adjacency) \in Nat
      /\ \A t \in DOMAIN h.adjacency :
           h.adjacency[t] = IF t \in DOMAIN g.adjacency THEN g.adjacency[t] ELSE <<>>
  BY <1>1, <1>2, EnsureFields
<1> HIDE DEF h
<1>4. DOMAIN g.adjacency \subseteq DOMAIN h.adjacency /\ node \in DOMAIN h.adjacency
  BY <1>1, <1>2, <1>3
<1>5. RegistryAgrees(h) /\ EdgesAgree(h) /\ IndexAgrees(h)
  BY <1>3 DEF Sound, SameTokens, RegistryAgrees, EdgesAgree, EdgeAgrees, IndexAgrees
<1>6. Listed(h)
  <2>1. Len(h.adjacency) <= Len(h.index_to_mint)
    BY <1>1, <1>2, <1>3 DEF Sound, Listed, SameTokens
  <2>2. \A t \in DOMAIN h.adjacency : \A k \in DOMAIN h.adjacency[t] :
          h.adjacency[t][k] \in DOMAIN h.edges
    <3> SUFFICES ASSUME NEW t \in DOMAIN h.adjacency, NEW k \in DOMAIN h.adjacency[t]
                 PROVE  h.adjacency[t][k] \in DOMAIN h.edges
      OBVIOUS
    <3>1. CASE t \in DOMAIN g.adjacency
      BY <3>1, <1>3 DEF Sound, Listed
    <3>2. CASE t \notin DOMAIN g.adjacency
      BY <3>2, <1>3
    <3> QED
      BY <3>1, <3>2
  <2> QED
    BY <2>1, <2>2, <1>3, <1>4 DEF Sound, Listed
<1>7. ListsAgree(h)
  <2> SUFFICES ASSUME NEW t \in DOMAIN h.adjacency
               PROVE  /\ \A i \in DOMAIN h.edges :
                           h.edges[i].source = t
                             <=> \E k \in DOMAIN h.adjacency[t] : h.adjacency[t][k] = i
                      /\ \A k, l \in DOMAIN h.adjacency[t] :
                           h.adjacency[t][k] = h.adjacency[t][l] => k = l
    BY DEF ListsAgree
  <2>1. CASE t \in DOMAIN g.adjacency
    BY <2>1, <1>3 DEF Sound, ListsAgree
  <2>2. CASE t \notin DOMAIN g.adjacency
    <3>1. h.adjacency[t] = <<>> /\ DOMAIN h.adjacency[t] = {}
      BY <2>2, <1>3
    <3>2. \A i \in DOMAIN h.edges : h.edges[i].source # t
      BY <2>2, <1>3 DEF Sound, Listed
    <3> QED
      BY <3>1, <3>2
  <2> QED
    BY <2>1, <2>2
<1> QED
  BY <1>3, <1>4, <1>5, <1>6, <1>7 DEF Sound, h

------------------------------------------------------------------------------
(* upsert_edge *)

\* h has g's edges at g's indices, but for their weights.
KeepsEdges(g, h) ==
  \A i \in DOMAIN g.edges : i \in DOMAIN h.edges /\ SameEdge(h.edges[i], g.edges[i])

WeightAt(g, key) == g.edges[g.pool_edge_index[key]].weight
KeyOf(e) == <<e.pool, e.source_mint>>

\* h differs from g in the weight at key, which is w.
SetsWeight(g, h, key, w) ==
  /\ DOMAIN h.pool_edge_index = DOMAIN g.pool_edge_index \cup {key}
  /\ WeightAt(h, key) = w
  /\ \A k \in DOMAIN g.pool_edge_index : k # key => WeightAt(h, k) = WeightAt(g, k)

\* An edge's fields, also when its weight changes.
LEMMA EdgeFields ==
  ASSUME NEW e \in Edges, NEW w \in Int \cup {Infinite}
  PROVE  /\ e.source \in Nat /\ e.dest \in Nat /\ e.pool \in Pools
         /\ e.source_mint \in Mints /\ e.dest_mint \in Mints
         /\ e.weight \in Int \cup {Infinite}
         /\ [e EXCEPT !.weight = w] \in Edges
         /\ [e EXCEPT !.weight = w].source = e.source
         /\ [e EXCEPT !.weight = w].dest = e.dest
         /\ [e EXCEPT !.weight = w].pool = e.pool
         /\ [e EXCEPT !.weight = w].source_mint = e.source_mint
         /\ [e EXCEPT !.weight = w].dest_mint = e.dest_mint
         /\ [e EXCEPT !.weight = w].weight = w
BY DEF Edges

\* Changing weights only disturbs none of the tables.
LEMMA ReweighSound ==
  ASSUME NEW g, NEW h, Sound(g), h \in Graphs, SameTokens(g, h),
         h.adjacency = g.adjacency, h.pool_edge_index = g.pool_edge_index,
         DOMAIN h.edges = DOMAIN g.edges,
         \A i \in DOMAIN g.edges :
           /\ h.edges[i].source = g.edges[i].source
           /\ h.edges[i].dest = g.edges[i].dest
           /\ SameEdge(h.edges[i], g.edges[i])
  PROVE  Sound(h) /\ KeepsEdges(g, h)
<1>1. RegistryAgrees(h)
  BY DEF Sound, SameTokens, RegistryAgrees
<1>2. EdgesAgree(h)
  <2> SUFFICES ASSUME NEW i \in DOMAIN g.edges
               PROVE  EdgeAgrees(h, h.edges[i])
    BY DEF EdgesAgree
  <2>1. EdgeAgrees(g, g.edges[i])
    BY DEF Sound, EdgesAgree
  <2> QED
    BY <2>1 DEF EdgeAgrees, SameTokens, SameEdge
<1>3. IndexAgrees(h)
  BY DEF Sound, IndexAgrees, SameEdge
<1>4. ListsAgree(h)
  BY DEF Sound, ListsAgree
<1>5. Listed(h)
  BY DEF Sound, Listed, SameTokens
<1> QED
  BY <1>1, <1>2, <1>3, <1>4, <1>5 DEF Sound, KeepsEdges

\* An edge that exists: its weight changes.
LEMMA UpdateEdge ==
  ASSUME NEW g, NEW e \in Edges, Sound(g), KeyOf(e) \in DOMAIN g.pool_edge_index
  PROVE  LET h == upsert_edge(g, e)
         IN  /\ Sound(h)
             /\ SameTokens(g, h) /\ h.adjacency = g.adjacency
             /\ KeepsEdges(g, h)
             /\ SetsWeight(g, h, KeyOf(e), e.weight)
<1> DEFINE h == upsert_edge(g, e)
           at == g.pool_edge_index[KeyOf(e)]
           edges == [g.edges EXCEPT ![at].weight = e.weight]
<1>1. g \in Graphs /\ g.edges \in Seq(Edges)
  BY DEF Sound, Graphs
<1>2. at \in DOMAIN g.edges /\ KeyOf(g.edges[at]) = KeyOf(e)
  BY DEF Sound, IndexAgrees, KeyOf
<1>3. e.weight \in Int \cup {Infinite}
  BY EdgeFields
<1>4. g.edges[at] \in Edges /\ \A i \in DOMAIN g.edges : g.edges[i] \in Edges
  BY <1>1, <1>2
<1>5. [g.edges[at] EXCEPT !.weight = e.weight] \in Edges
  BY <1>3, <1>4, EdgeFields
<1>6. edges \in Seq(Edges) /\ DOMAIN edges = DOMAIN g.edges
  BY <1>1, <1>2, <1>5
<1>7. /\ edges[at] = [g.edges[at] EXCEPT !.weight = e.weight]
      /\ \A i \in DOMAIN g.edges : i # at => edges[i] = g.edges[i]
  BY <1>2
<1>8. h = [g EXCEPT !.edges = edges]
  BY DEF upsert_edge, KeyOf
<1> HIDE DEF h, edges
<1>9. /\ h.edges = edges /\ h.adjacency = g.adjacency
      /\ SameTokens(g, h) /\ h.pool_edge_index = g.pool_edge_index
  BY <1>1, <1>8 DEF Graphs, SameTokens
<1>10. h \in Graphs
  BY <1>1, <1>6, <1>8 DEF Graphs
<1>11. /\ edges[at].source = g.edges[at].source
       /\ edges[at].dest = g.edges[at].dest
       /\ SameEdge(edges[at], g.edges[at])
       /\ edges[at].weight = e.weight
  BY <1>3, <1>4, <1>7, EdgeFields DEF SameEdge
<1>12. \A i \in DOMAIN g.edges :
         /\ h.edges[i].source = g.edges[i].source
         /\ h.edges[i].dest = g.edges[i].dest
         /\ SameEdge(h.edges[i], g.edges[i])
  <2> SUFFICES ASSUME NEW i \in DOMAIN g.edges
               PROVE  /\ edges[i].source = g.edges[i].source
                      /\ edges[i].dest = g.edges[i].dest
                      /\ SameEdge(edges[i], g.edges[i])
    BY <1>9
  <2>1. CASE i = at
    BY <2>1, <1>11
  <2>2. CASE i # at
    BY <2>2, <1>7 DEF SameEdge
  <2> QED
    BY <2>1, <2>2
<1>13. Sound(h) /\ KeepsEdges(g, h)
  BY <1>6, <1>9, <1>10, <1>12, ReweighSound
<1>14. SetsWeight(g, h, KeyOf(e), e.weight)
  <2>1. WeightAt(h, KeyOf(e)) = e.weight
    BY <1>9, <1>11 DEF WeightAt
  <2>2. ASSUME NEW k \in DOMAIN g.pool_edge_index, k # KeyOf(e)
        PROVE  WeightAt(h, k) = WeightAt(g, k)
    <3>1. g.pool_edge_index[k] \in DOMAIN g.edges /\ g.pool_edge_index[k] # at
      BY <2>2, <1>2 DEF Sound, IndexAgrees, KeyOf
    <3> QED
      BY <3>1, <1>7, <1>9 DEF WeightAt
  <2> QED
    BY <2>1, <2>2, <1>9 DEF SetsWeight
<1> QED
  BY <1>9, <1>13, <1>14 DEF h

\* What adding edge e does to each part of the graph.
LEMMA AddFields ==
  ASSUME NEW g \in Graphs, NEW e \in Edges, KeyOf(e) \notin DOMAIN g.pool_edge_index,
         e.source \in DOMAIN g.adjacency
  PROVE  LET h == upsert_edge(g, e)
             n == Len(g.edges) + 1
         IN  /\ h \in Graphs
             /\ SameTokens(g, h)
             /\ n \in Nat /\ n \notin DOMAIN g.edges
             /\ DOMAIN h.edges = DOMAIN g.edges \cup {n}
             /\ h.edges[n] = e
             /\ \A i \in DOMAIN g.edges : h.edges[i] = g.edges[i]
             /\ h.pool_edge_index = Extend(g.pool_edge_index, KeyOf(e), n)
             /\ DOMAIN h.adjacency = DOMAIN g.adjacency /\ Len(h.adjacency) = Len(g.adjacency)
             /\ h.adjacency[e.source] = Append(g.adjacency[e.source], n)
             /\ g.adjacency[e.source] \in Seq(Nat)
             /\ \A t \in DOMAIN g.adjacency : t # e.source => h.adjacency[t] = g.adjacency[t]
<1> DEFINE h == upsert_edge(g, e)
           n == Len(g.edges) + 1
           edges == Append(g.edges, e)
           lists == [g.adjacency EXCEPT ![e.source] = Append(g.adjacency[e.source], n)]
           index == Extend(g.pool_edge_index, KeyOf(e), n)
<1>1. /\ g.edges \in Seq(Edges) /\ g.adjacency \in Seq(Seq(Nat))
      /\ g.pool_edge_index \in Maps(Pools \X Mints)
      /\ n \in Nat
  BY DEF Graphs
<1>2. KeyOf(e) \in Pools \X Mints
  BY EdgeFields DEF KeyOf, Edges
<1>3. edges \in Seq(Edges)
  BY <1>1
<1>4. g.adjacency[e.source] \in Seq(Nat) /\ Append(g.adjacency[e.source], n) \in Seq(Nat)
  BY <1>1
<1>5. /\ lists \in Seq(Seq(Nat))
      /\ DOMAIN lists = DOMAIN g.adjacency /\ Len(lists) = Len(g.adjacency)
      /\ lists[e.source] = Append(g.adjacency[e.source], n)
      /\ \A t \in DOMAIN g.adjacency : t # e.source => lists[t] = g.adjacency[t]
  BY <1>1, <1>4
<1>6. index \in Maps(Pools \X Mints)
  BY <1>1, <1>2, ExtendMap
<1>7. h = [g EXCEPT !.edges = edges, !.adjacency = lists, !.pool_edge_index = index]
  BY DEF upsert_edge, KeyOf
<1>8. /\ n \notin DOMAIN g.edges
      /\ DOMAIN edges = DOMAIN g.edges \cup {n}
      /\ edges[n] = e
      /\ \A i \in DOMAIN g.edges : edges[i] = g.edges[i]
  BY <1>1
<1> HIDE DEF h, edges, lists, index
<1>9. /\ h.edges = edges /\ h.adjacency = lists /\ h.pool_edge_index = index
      /\ SameTokens(g, h)
  BY <1>7 DEF Graphs, SameTokens
<1>10. h \in Graphs
  BY <1>3, <1>5, <1>6, <1>7 DEF Graphs
<1> QED
  BY <1>1, <1>4, <1>5, <1>8, <1>9, <1>10 DEF h, index

\* What Append does to the elements of a sequence.
LEMMA AppendFacts ==
  ASSUME NEW S, NEW list \in Seq(S), NEW x \in S
  PROVE  /\ DOMAIN Append(list, x) = DOMAIN list \cup {Len(list) + 1}
         /\ Len(list) + 1 \notin DOMAIN list
         /\ Append(list, x)[Len(list) + 1] = x
         /\ \A k \in DOMAIN list : Append(list, x)[k] = list[k]
OBVIOUS

\* A new edge goes into the vector, its source's list and the index.
LEMMA AddEdge ==
  ASSUME NEW g, NEW e \in Edges, Sound(g), KeyOf(e) \notin DOMAIN g.pool_edge_index,
         EdgeAgrees(g, e), e.source \in DOMAIN g.adjacency
  PROVE  LET h == upsert_edge(g, e)
         IN  /\ Sound(h)
             /\ SameTokens(g, h) /\ Len(h.adjacency) = Len(g.adjacency)
             /\ DOMAIN h.adjacency = DOMAIN g.adjacency
             /\ KeepsEdges(g, h)
             /\ SetsWeight(g, h, KeyOf(e), e.weight)
<1> DEFINE h == upsert_edge(g, e)
           n == Len(g.edges) + 1
           s == e.source
<1>1. g \in Graphs
  BY DEF Sound
<1>2. /\ h \in Graphs
      /\ SameTokens(g, h)
      /\ n \in Nat /\ n \notin DOMAIN g.edges
      /\ DOMAIN h.edges = DOMAIN g.edges \cup {n}
      /\ h.edges[n] = e
      /\ \A i \in DOMAIN g.edges : h.edges[i] = g.edges[i]
      /\ h.pool_edge_index = Extend(g.pool_edge_index, KeyOf(e), n)
      /\ DOMAIN h.adjacency = DOMAIN g.adjacency /\ Len(h.adjacency) = Len(g.adjacency)
      /\ h.adjacency[s] = Append(g.adjacency[s], n)
      /\ g.adjacency[s] \in Seq(Nat)
      /\ \A t \in DOMAIN g.adjacency : t # s => h.adjacency[t] = g.adjacency[t]
  BY <1>1, AddFields
<1> HIDE DEF h, n
<1>3. /\ DOMAIN h.pool_edge_index = DOMAIN g.pool_edge_index \cup {KeyOf(e)}
      /\ h.pool_edge_index[KeyOf(e)] = n
      /\ \A k \in DOMAIN g.pool_edge_index : h.pool_edge_index[k] = g.pool_edge_index[k]
  BY <1>2 DEF Extend
<1>4. /\ DOMAIN h.adjacency[s] = DOMAIN g.adjacency[s] \cup {Len(g.adjacency[s]) + 1}
      /\ Len(g.adjacency[s]) + 1 \notin DOMAIN g.adjacency[s]
      /\ h.adjacency[s][Len(g.adjacency[s]) + 1] = n
      /\ \A k \in DOMAIN g.adjacency[s] : h.adjacency[s][k] = g.adjacency[s][k]
  <2> DEFINE list == g.adjacency[s]
  <2>1. list \in Seq(Nat) /\ n \in Nat /\ h.adjacency[s] = Append(list, n)
    BY <1>2
  <2> HIDE DEF list
  <2>2. /\ DOMAIN Append(list, n) = DOMAIN list \cup {Len(list) + 1}
        /\ Len(list) + 1 \notin DOMAIN list
        /\ Append(list, n)[Len(list) + 1] = n
        /\ \A k \in DOMAIN list : Append(list, n)[k] = list[k]
    BY <2>1, AppendFacts
  <2> QED
    BY <2>1, <2>2 DEF list
<1>5. RegistryAgrees(h)
  BY <1>2 DEF Sound, SameTokens, RegistryAgrees
<1>6. EdgesAgree(h)
  <2> SUFFICES ASSUME NEW i \in DOMAIN h.edges
               PROVE  EdgeAgrees(h, h.edges[i])
    BY DEF EdgesAgree
  <2>1. EdgeAgrees(g, h.edges[i])
    BY <1>2 DEF Sound, EdgesAgree
  <2> QED
    BY <2>1, <1>2 DEF EdgeAgrees, SameTokens
<1>7. IndexAgrees(h)
  <2>1. \A i \in DOMAIN g.edges : KeyOf(g.edges[i]) \in DOMAIN g.pool_edge_index
                                    /\ g.pool_edge_index[KeyOf(g.edges[i])] = i
    BY DEF Sound, IndexAgrees, KeyOf
  <2>2. \A key \in DOMAIN g.pool_edge_index :
          g.pool_edge_index[key] \in DOMAIN g.edges
          /\ key = KeyOf(g.edges[g.pool_edge_index[key]])
    BY DEF Sound, IndexAgrees, KeyOf
  <2>3. ASSUME NEW i \in DOMAIN h.edges
        PROVE  /\ KeyOf(h.edges[i]) \in DOMAIN h.pool_edge_index
               /\ h.pool_edge_index[KeyOf(h.edges[i])] = i
    <3>1. CASE i = n
      BY <3>1, <1>2, <1>3
    <3>2. CASE i \in DOMAIN g.edges
      BY <3>2, <2>1, <1>2, <1>3
    <3> QED
      BY <2>3, <3>1, <3>2, <1>2
  <2>4. ASSUME NEW key \in DOMAIN h.pool_edge_index
        PROVE  /\ h.pool_edge_index[key] \in DOMAIN h.edges
               /\ key = KeyOf(h.edges[h.pool_edge_index[key]])
    <3>1. CASE key = KeyOf(e)
      BY <3>1, <1>2, <1>3
    <3>2. CASE key \in DOMAIN g.pool_edge_index
      BY <3>2, <2>2, <1>2, <1>3
    <3> QED
      BY <2>4, <3>1, <3>2, <1>3
  <2> QED
    BY <2>3, <2>4 DEF IndexAgrees, KeyOf
<1>8. Listed(h)
  <2>1. ASSUME NEW t \in DOMAIN h.adjacency, NEW k \in DOMAIN h.adjacency[t]
        PROVE  h.adjacency[t][k] \in DOMAIN h.edges
    <3>1. CASE t = s
      BY <3>1, <2>1, <1>2, <1>4 DEF Sound, Listed
    <3>2. CASE t # s
      BY <3>2, <2>1, <1>2 DEF Sound, Listed
    <3> QED
      BY <3>1, <3>2
  <2>2. \A i \in DOMAIN h.edges : h.edges[i].source \in DOMAIN h.adjacency
    BY <1>2 DEF Sound, Listed
  <2>3. Len(h.adjacency) <= Len(h.index_to_mint)
    BY <1>2 DEF Sound, Listed, SameTokens
  <2> QED
    BY <2>1, <2>2, <2>3 DEF Listed
<1>9. ListsAgree(h)
  <2> SUFFICES ASSUME NEW t \in DOMAIN h.adjacency
               PROVE  /\ \A i \in DOMAIN h.edges :
                           h.edges[i].source = t
                             <=> \E k \in DOMAIN h.adjacency[t] : h.adjacency[t][k] = i
                      /\ \A k, l \in DOMAIN h.adjacency[t] :
                           h.adjacency[t][k] = h.adjacency[t][l] => k = l
    BY DEF ListsAgree
  <2>1. /\ \A i \in DOMAIN g.edges :
             g.edges[i].source = t
               <=> \E k \in DOMAIN g.adjacency[t] : g.adjacency[t][k] = i
        /\ \A k, l \in DOMAIN g.adjacency[t] :
             g.adjacency[t][k] = g.adjacency[t][l] => k = l
        /\ \A k \in DOMAIN g.adjacency[t] : g.adjacency[t][k] \in DOMAIN g.edges
    BY <1>2 DEF Sound, ListsAgree, Listed
  <2>2. CASE t = s
    <3>1. ASSUME NEW i \in DOMAIN h.edges
          PROVE  h.edges[i].source = t
                   <=> \E k \in DOMAIN h.adjacency[t] : h.adjacency[t][k] = i
      <4>1. CASE i = n
        BY <4>1, <2>2, <1>2, <1>4
      <4>2. CASE i # n
        <5>1. i \in DOMAIN g.edges /\ h.edges[i] = g.edges[i]
          BY <4>2, <3>1, <1>2
        <5>2. (\E k \in DOMAIN h.adjacency[s] : h.adjacency[s][k] = i)
                <=> \E k \in DOMAIN g.adjacency[s] : g.adjacency[s][k] = i
          BY <4>2, <1>4
        <5> QED
          BY <5>1, <5>2, <2>1, <2>2
      <4> QED
        BY <4>1, <4>2
    <3>2. ASSUME NEW k \in DOMAIN h.adjacency[t], NEW l \in DOMAIN h.adjacency[t],
                 h.adjacency[t][k] = h.adjacency[t][l]
          PROVE  k = l
      BY <2>1, <2>2, <3>2, <1>2, <1>4, SMTT(20)
    <3> QED
      BY <3>1, <3>2
  <2>3. CASE t # s
    BY <2>1, <2>3, <1>2
  <2> QED
    BY <2>2, <2>3
<1>10. KeepsEdges(g, h)
  BY <1>2 DEF KeepsEdges, SameEdge
<1>11. SetsWeight(g, h, KeyOf(e), e.weight)
  <2>1. WeightAt(h, KeyOf(e)) = e.weight
    BY <1>2, <1>3 DEF WeightAt
  <2>2. ASSUME NEW k \in DOMAIN g.pool_edge_index
        PROVE  WeightAt(h, k) = WeightAt(g, k)
    <3>1. g.pool_edge_index[k] \in DOMAIN g.edges
      BY DEF Sound, IndexAgrees
    <3> QED
      BY <3>1, <1>2, <1>3 DEF WeightAt
  <2> QED
    BY <2>1, <2>2, <1>3 DEF SetsWeight
<1> QED
  BY <1>2, <1>5, <1>6, <1>7, <1>8, <1>9, <1>10, <1>11 DEF Sound, h

\* Either way the graph stays sound and one direction is quoted anew.
LEMMA UpsertSound ==
  ASSUME NEW g, NEW e \in Edges, Sound(g), EdgeAgrees(g, e), e.source \in DOMAIN g.adjacency
  PROVE  LET h == upsert_edge(g, e)
         IN  /\ Sound(h)
             /\ SameTokens(g, h) /\ Len(h.adjacency) = Len(g.adjacency)
             /\ DOMAIN h.adjacency = DOMAIN g.adjacency
             /\ KeepsEdges(g, h)
             /\ SetsWeight(g, h, KeyOf(e), e.weight)
<1>1. CASE KeyOf(e) \in DOMAIN g.pool_edge_index
  BY <1>1, UpdateEdge
<1>2. CASE KeyOf(e) \notin DOMAIN g.pool_edge_index
  BY <1>2, AddEdge
<1> QED
  BY <1>1, <1>2

------------------------------------------------------------------------------
(* update_pool *)

Key(p, i) == <<p, MintsOf[p][i]>>

\* A pool's two mints differ.
LEMMA MintFacts ==
  ASSUME NEW p \in Pools
  PROVE  /\ MintsOf[p][1] \in Mints /\ MintsOf[p][2] \in Mints
         /\ MintsOf[p] = <<MintsOf[p][1], MintsOf[p][2]>>
         /\ MintsOf[p][1] # MintsOf[p][2]
         /\ FeeOf[p] \in Nat
BY GraphAssumption DEF GraphAssumption

\* Lengths and indices of a sound graph's sequences.
LEMMA Lengths ==
  ASSUME NEW g, Sound(g)
  PROVE  /\ Len(g.index_to_mint) \in Nat /\ DOMAIN g.index_to_mint = 1..Len(g.index_to_mint)
         /\ Len(g.adjacency) \in Nat /\ DOMAIN g.adjacency = 1..Len(g.adjacency)
         /\ Len(g.edges) \in Nat /\ DOMAIN g.edges = 1..Len(g.edges)
BY DEF Sound, Graphs

\* Both tokens of the pool are registered and have their lists.
LEMMA TokensSound ==
  ASSUME NEW g, NEW p \in Pools, Sound(g), Len(g.adjacency) = Len(g.index_to_mint)
  PROVE  LET h == WithTokens(g, p)
         IN  /\ Sound(h) /\ Len(h.adjacency) = Len(h.index_to_mint)
             /\ {MintsOf[p][1], MintsOf[p][2]} \subseteq DOMAIN h.mint_to_index
             /\ h.mint_to_index[MintsOf[p][1]] \in DOMAIN h.adjacency
             /\ h.mint_to_index[MintsOf[p][2]] \in DOMAIN h.adjacency
             /\ KeepsTokens(g, h)
             /\ h.edges = g.edges /\ h.pool_edge_index = g.pool_edge_index
<1> DEFINE ma == MintsOf[p][1]
           mb == MintsOf[p][2]
           a == get_or_insert(g, ma)
           b == get_or_insert(a, mb)
           first == ensure_adjacency(b, b.mint_to_index[ma])
           h == ensure_adjacency(first, b.mint_to_index[mb])
<1>1. ma \in Mints /\ mb \in Mints
  BY MintFacts
<1>2. /\ Sound(a) /\ ma \in DOMAIN a.mint_to_index
      /\ KeepsTokens(g, a) /\ SameEdges(g, a)
      /\ \/ Len(a.index_to_mint) = Len(g.index_to_mint)
         \/ /\ Len(a.index_to_mint) = Len(g.index_to_mint) + 1
            /\ a.mint_to_index[ma] = Len(g.index_to_mint) + 1
  BY <1>1, RegisterSound
<1>3. /\ Sound(b) /\ mb \in DOMAIN b.mint_to_index
      /\ KeepsTokens(a, b) /\ SameEdges(a, b)
      /\ \/ Len(b.index_to_mint) = Len(a.index_to_mint)
         \/ /\ Len(b.index_to_mint) = Len(a.index_to_mint) + 1
            /\ b.mint_to_index[mb] = Len(a.index_to_mint) + 1
  <2> HIDE DEF a
  <2> QED
    BY <1>1, <1>2, RegisterSound
<1>4. h = WithTokens(g, p)
  BY DEF WithTokens
<1> HIDE DEF a, b
<1>5. /\ ma \in DOMAIN b.mint_to_index
      /\ b.mint_to_index[ma] = a.mint_to_index[ma]
      /\ b.mint_to_index[ma] \in DOMAIN b.index_to_mint
      /\ b.mint_to_index[mb] \in DOMAIN b.index_to_mint
  BY <1>2, <1>3 DEF KeepsTokens, Sound, RegistryAgrees
<1>6. /\ Sound(first)
      /\ SameTokens(b, first) /\ first.edges = b.edges
      /\ first.pool_edge_index = b.pool_edge_index
      /\ Len(first.adjacency) = IF Len(b.adjacency) < b.mint_to_index[ma]
                                THEN b.mint_to_index[ma] ELSE Len(b.adjacency)
      /\ DOMAIN first.adjacency = 1..Len(first.adjacency)
      /\ b.mint_to_index[ma] \in DOMAIN first.adjacency
  BY <1>3, <1>5, EnsureSound
<1> HIDE DEF first
<1>7. b.mint_to_index[mb] \in DOMAIN first.index_to_mint
  BY <1>5, <1>6 DEF SameTokens
<1>8. /\ Sound(h)
      /\ SameTokens(first, h) /\ h.edges = first.edges
      /\ h.pool_edge_index = first.pool_edge_index
      /\ Len(h.adjacency) = IF Len(first.adjacency) < b.mint_to_index[mb]
                            THEN b.mint_to_index[mb] ELSE Len(first.adjacency)
      /\ DOMAIN h.adjacency = 1..Len(h.adjacency)
      /\ b.mint_to_index[mb] \in DOMAIN h.adjacency
  BY <1>6, <1>7, EnsureSound
<1> HIDE DEF h
<1>9. /\ Len(g.index_to_mint) \in Nat /\ Len(a.index_to_mint) \in Nat
      /\ Len(b.index_to_mint) \in Nat
      /\ Len(g.adjacency) \in Nat /\ Len(first.adjacency) \in Nat /\ Len(h.adjacency) \in Nat
      /\ DOMAIN b.index_to_mint = 1..Len(b.index_to_mint)
  BY <1>2, <1>3, <1>6, <1>8, Lengths
<1>10. b.adjacency = g.adjacency /\ b.edges = g.edges /\ b.pool_edge_index = g.pool_edge_index
  BY <1>2, <1>3 DEF SameEdges
<1>11. h.index_to_mint = b.index_to_mint /\ h.mint_to_index = b.mint_to_index
  BY <1>6, <1>8 DEF SameTokens
<1>12. /\ b.mint_to_index[ma] \in 1..Len(b.index_to_mint)
       /\ b.mint_to_index[mb] \in 1..Len(b.index_to_mint)
       /\ b.mint_to_index[ma] \in 1..Len(first.adjacency)
  BY <1>5, <1>6, <1>9
<1>13. Len(h.adjacency) = Len(h.index_to_mint)
  BY <1>2, <1>3, <1>5, <1>6, <1>8, <1>9, <1>10, <1>11, <1>12
<1>14. b.mint_to_index[ma] \in DOMAIN h.adjacency
  BY <1>8, <1>9, <1>12, <1>13, <1>11
<1>15. KeepsTokens(g, h)
  <2>1. /\ DOMAIN g.index_to_mint = 1..Len(g.index_to_mint)
        /\ DOMAIN a.index_to_mint = 1..Len(a.index_to_mint)
    BY <1>2 DEF Sound, Graphs
  <2>2. Len(g.index_to_mint) <= Len(a.index_to_mint)
    BY <1>2 DEF KeepsTokens
  <2>3. DOMAIN g.index_to_mint \subseteq DOMAIN a.index_to_mint
    BY <2>1, <2>2, <1>9
  <2> QED
    BY <1>2, <1>3, <1>9, <1>11, <2>2, <2>3 DEF KeepsTokens
<1> QED
  BY <1>3, <1>4, <1>5, <1>6, <1>8, <1>10, <1>11, <1>13, <1>14, <1>15

\* The edges update_pool upserts join the pool's tokens.
LEMMA EdgeOfSound ==
  ASSUME NEW g, NEW p \in Pools, NEW i \in {1, 2}, NEW j \in {1, 2}, i # j,
         NEW w \in Int, Sound(g),
         {MintsOf[p][1], MintsOf[p][2]} \subseteq DOMAIN g.mint_to_index
  PROVE  LET e == EdgeOf(g, p, i, j, w)
         IN  /\ e \in Edges /\ EdgeAgrees(g, e)
             /\ e.source = g.mint_to_index[MintsOf[p][i]]
             /\ KeyOf(e) = Key(p, i) /\ e.weight = w
<1> DEFINE e == EdgeOf(g, p, i, j, w)
<1>1. /\ e.source = g.mint_to_index[MintsOf[p][i]] /\ e.dest = g.mint_to_index[MintsOf[p][j]]
      /\ e.pool = p /\ e.source_mint = MintsOf[p][i] /\ e.dest_mint = MintsOf[p][j]
      /\ e.weight = w
  BY DEF EdgeOf
<1>2. g.mint_to_index \in Maps(Mints)
  BY DEF Sound, Graphs
<1>3. g.mint_to_index[MintsOf[p][i]] \in Nat /\ g.mint_to_index[MintsOf[p][j]] \in Nat
  BY <1>2, MapFacts
<1>4. MintsOf[p][i] \in Mints /\ MintsOf[p][j] \in Mints
  BY MintFacts
<1>5. e \in Edges
  BY <1>3, <1>4 DEF EdgeOf, Edges
<1> HIDE DEF e
<1>6. <<e.source_mint, e.dest_mint>> \in
        {MintsOf[e.pool], <<MintsOf[e.pool][2], MintsOf[e.pool][1]>>}
  <2>1. CASE i = 1
    BY <2>1, <1>1, MintFacts
  <2>2. CASE i = 2
    BY <2>2, <1>1, MintFacts
  <2> QED
    BY <2>1, <2>2
<1>7. EdgeAgrees(g, e)
  BY <1>1, <1>6 DEF EdgeAgrees
<1> QED
  BY <1>1, <1>5, <1>7 DEF e, KeyOf, Key

\* The weights of pool p's two directions.
WeightsOf(g, p) == <<WeightAt(g, Key(p, 1)), WeightAt(g, Key(p, 2))>>

\* A pool's quote in terms of its two keys.
LEMMA QuotesAre ==
  ASSUME NEW g, NEW p \in Pools
  PROVE  Quotes(g)[p] = IF Key(p, 1) \in DOMAIN g.pool_edge_index THEN WeightsOf(g, p) ELSE <<>>
BY DEF Quotes, WeightOf, WeightsOf, WeightAt, Key

\* No two directions have the same key.
LEMMA KeysDiffer ==
  ASSUME NEW p \in Pools, NEW q \in Pools, NEW i \in {1, 2}, NEW j \in {1, 2}
  PROVE  Key(p, i) = Key(q, j) <=> p = q /\ i = j
<1>1. MintsOf[p][1] # MintsOf[p][2]
  BY MintFacts
<1> QED
  BY <1>1 DEF Key

\* A pool with reserves: its two directions are quoted and nothing else changes.
LEMMA QuoteSound ==
  ASSUME NEW g, NEW p \in Pools, NEW a \in Amounts, NEW b \in Amounts,
         Sound(g), Len(g.adjacency) = Len(g.index_to_mint), BothWays(g)
  PROVE  LET h == update_pool(g, p, a, b)
         IN  /\ Sound(h) /\ Len(h.adjacency) = Len(h.index_to_mint) /\ BothWays(h)
             /\ KeepsTokens(g, h) /\ KeepsEdges(g, h)
             /\ Quotes(h) = [Quotes(g) EXCEPT ![p] = <<a - b + FeeOf[p], b - a + FeeOf[p]>>]
<1> DEFINE known == WithTokens(g, p)
           wf == a - b + FeeOf[p]
           wb == b - a + FeeOf[p]
           ef == EdgeOf(known, p, 1, 2, wf)
           eb == EdgeOf(known, p, 2, 1, wb)
           forth == upsert_edge(known, ef)
           h == upsert_edge(forth, eb)
<1>1. wf \in Int /\ wb \in Int
  BY MintFacts, GraphAssumption DEF GraphAssumption
<1>2. h = update_pool(g, p, a, b)
  BY GraphAssumption DEF update_pool, GraphAssumption
<1>3. /\ Sound(known) /\ Len(known.adjacency) = Len(known.index_to_mint)
      /\ {MintsOf[p][1], MintsOf[p][2]} \subseteq DOMAIN known.mint_to_index
      /\ known.mint_to_index[MintsOf[p][1]] \in DOMAIN known.adjacency
      /\ known.mint_to_index[MintsOf[p][2]] \in DOMAIN known.adjacency
      /\ KeepsTokens(g, known)
      /\ known.edges = g.edges /\ known.pool_edge_index = g.pool_edge_index
  BY TokensSound
<1> HIDE DEF known, wf, wb
<1>4. /\ ef \in Edges /\ EdgeAgrees(known, ef)
      /\ ef.source = known.mint_to_index[MintsOf[p][1]]
      /\ KeyOf(ef) = Key(p, 1) /\ ef.weight = wf
  BY <1>1, <1>3, EdgeOfSound
<1>5. /\ eb \in Edges /\ EdgeAgrees(known, eb)
      /\ eb.source = known.mint_to_index[MintsOf[p][2]]
      /\ KeyOf(eb) = Key(p, 2) /\ eb.weight = wb
  BY <1>1, <1>3, EdgeOfSound
<1> HIDE DEF ef, eb
<1>6. /\ Sound(forth)
      /\ SameTokens(known, forth) /\ Len(forth.adjacency) = Len(known.adjacency)
      /\ DOMAIN forth.adjacency = DOMAIN known.adjacency
      /\ KeepsEdges(known, forth)
      /\ SetsWeight(known, forth, Key(p, 1), wf)
  BY <1>3, <1>4, UpsertSound
<1> HIDE DEF forth
<1>7. EdgeAgrees(forth, eb) /\ eb.source \in DOMAIN forth.adjacency
  BY <1>3, <1>5, <1>6 DEF EdgeAgrees, SameTokens
<1>8. /\ Sound(h)
      /\ SameTokens(forth, h) /\ Len(h.adjacency) = Len(forth.adjacency)
      /\ KeepsEdges(forth, h)
      /\ SetsWeight(forth, h, Key(p, 2), wb)
  BY <1>5, <1>6, <1>7, UpsertSound
<1> HIDE DEF h
<1>9. Len(h.adjacency) = Len(h.index_to_mint) /\ KeepsTokens(g, h)
  BY <1>3, <1>6, <1>8 DEF SameTokens, KeepsTokens
<1>10. KeepsEdges(g, h)
  BY <1>3, <1>6, <1>8 DEF KeepsEdges, SameEdge
<1>11. DOMAIN h.pool_edge_index = DOMAIN g.pool_edge_index \cup {Key(p, 1), Key(p, 2)}
  BY <1>3, <1>6, <1>8 DEF SetsWeight
<1>12. \A q \in Pools : \A i \in {1, 2} :
         q # p => (Key(q, i) \in DOMAIN h.pool_edge_index
                     <=> Key(q, i) \in DOMAIN g.pool_edge_index)
  BY <1>11, KeysDiffer
<1>13. BothWays(h)
  <2> SUFFICES ASSUME NEW q \in Pools
               PROVE  Key(q, 1) \in DOMAIN h.pool_edge_index
                        <=> Key(q, 2) \in DOMAIN h.pool_edge_index
    BY DEF BothWays, Key
  <2>1. CASE q = p
    BY <2>1, <1>11
  <2>2. CASE q # p
    <3>1. Key(q, 1) \in DOMAIN g.pool_edge_index <=> Key(q, 2) \in DOMAIN g.pool_edge_index
      BY DEF BothWays, Key
    <3> QED
      BY <3>1, <2>2, <1>12
  <2> QED
    BY <2>1, <2>2
<1>14. WeightsOf(h, p) = <<wf, wb>>
  <2>1. WeightAt(h, Key(p, 1)) = WeightAt(forth, Key(p, 1))
    BY <1>6, <1>8, KeysDiffer DEF SetsWeight
  <2> QED
    BY <2>1, <1>6, <1>8 DEF SetsWeight, WeightsOf
<1>15. ASSUME NEW q \in Pools, q # p, NEW i \in {1, 2}, Key(q, i) \in DOMAIN g.pool_edge_index
       PROVE  WeightAt(h, Key(q, i)) = WeightAt(g, Key(q, i))
  <2>1. Key(q, i) # Key(p, 1) /\ Key(q, i) # Key(p, 2)
    BY <1>15, KeysDiffer
  <2>2. WeightAt(forth, Key(q, i)) = WeightAt(known, Key(q, i))
    BY <2>1, <1>15, <1>3, <1>6 DEF SetsWeight
  <2>3. Key(q, i) \in DOMAIN forth.pool_edge_index
    BY <1>15, <1>3, <1>6 DEF SetsWeight
  <2>4. WeightAt(h, Key(q, i)) = WeightAt(forth, Key(q, i))
    BY <2>1, <2>3, <1>8 DEF SetsWeight
  <2>5. WeightAt(known, Key(q, i)) = WeightAt(g, Key(q, i))
    BY <1>3 DEF WeightAt
  <2> QED
    BY <2>2, <2>4, <2>5
<1>16. ASSUME NEW q \in Pools
       PROVE  Quotes(h)[q] = IF q = p THEN <<wf, wb>> ELSE Quotes(g)[q]
  <2>1. CASE q = p
    BY <2>1, <1>11, <1>14, QuotesAre
  <2>2. CASE q # p /\ Key(q, 1) \in DOMAIN g.pool_edge_index
    <3>1. Key(q, 2) \in DOMAIN g.pool_edge_index
      BY <2>2 DEF BothWays, Key
    <3>2. WeightsOf(h, q) = WeightsOf(g, q)
      BY <2>2, <3>1, <1>15 DEF WeightsOf
    <3> QED
      BY <2>2, <3>2, <1>12, QuotesAre
  <2>3. CASE q # p /\ Key(q, 1) \notin DOMAIN g.pool_edge_index
    BY <2>3, <1>12, QuotesAre
  <2> QED
    BY <2>1, <2>2, <2>3
<1>17. Quotes(h) = [Quotes(g) EXCEPT ![p] = <<wf, wb>>]
  <2>1. /\ Quotes(h) = [q \in Pools |-> Quotes(h)[q]]
        /\ Quotes(g) = [q \in Pools |-> Quotes(g)[q]]
    BY DEF Quotes
  <2> QED
    BY <2>1, <1>16
<1> QED
  BY <1>2, <1>8, <1>9, <1>10, <1>13, <1>17 DEF wf, wb

------------------------------------------------------------------------------
(* remove_pool *)

\* A pool taken out: both its weights become infinite, if it has any.
LEMMA RemoveSound ==
  ASSUME NEW g, NEW p \in Pools, Sound(g), BothWays(g)
  PROVE  LET h == remove_pool(g, p)
         IN  /\ Sound(h) /\ h.adjacency = g.adjacency /\ BothWays(h)
             /\ SameTokens(g, h) /\ KeepsEdges(g, h)
             /\ Quotes(h) = IF Quotes(g)[p] = <<>> THEN Quotes(g)
                            ELSE [Quotes(g) EXCEPT ![p] = <<Infinite, Infinite>>]
<1> DEFINE h == remove_pool(g, p)
           edges == [i \in DOMAIN g.edges |->
                       IF g.edges[i].pool = p THEN [g.edges[i] EXCEPT !.weight = Infinite]
                       ELSE g.edges[i]]
<1>1. g \in Graphs /\ g.edges \in Seq(Edges) /\ Len(g.edges) \in Nat
      /\ DOMAIN g.edges = 1..Len(g.edges)
  BY Lengths DEF Sound, Graphs
<1>2. ASSUME NEW i \in DOMAIN g.edges
      PROVE  /\ edges[i] \in Edges
             /\ edges[i].source = g.edges[i].source
             /\ edges[i].dest = g.edges[i].dest
             /\ SameEdge(edges[i], g.edges[i])
             /\ edges[i].weight = IF g.edges[i].pool = p THEN Infinite ELSE g.edges[i].weight
  <2>1. g.edges[i] \in Edges
    BY <1>1
  <2>2. Infinite \in Int \cup {Infinite}
    OBVIOUS
  <2>3. CASE g.edges[i].pool = p
    <3>1. edges[i] = [g.edges[i] EXCEPT !.weight = Infinite]
      BY <2>3
    <3> HIDE DEF edges
    <3> QED
      BY <2>1, <2>2, <2>3, <3>1, EdgeFields DEF SameEdge
  <2>4. CASE g.edges[i].pool # p
    BY <2>1, <2>4 DEF SameEdge
  <2> QED
    BY <2>3, <2>4
<1>3. edges \in Seq(Edges) /\ DOMAIN edges = DOMAIN g.edges
  <2>1. edges \in [1..Len(g.edges) -> Edges]
    BY <1>1, <1>2
  <2> QED
    BY <1>1, <2>1
<1>4. h = [g EXCEPT !.edges = edges]
  BY DEF remove_pool
<1> HIDE DEF h, edges
<1>5. /\ h.edges = edges /\ h.adjacency = g.adjacency
      /\ SameTokens(g, h) /\ h.pool_edge_index = g.pool_edge_index
  BY <1>1, <1>4 DEF Graphs, SameTokens
<1>6. h \in Graphs
  BY <1>1, <1>3, <1>4 DEF Graphs
<1>7. Sound(h) /\ KeepsEdges(g, h)
  BY <1>2, <1>3, <1>5, <1>6, ReweighSound
<1>8. BothWays(h)
  BY <1>5 DEF BothWays
<1>9. ASSUME NEW q \in Pools, NEW i \in {1, 2}, Key(q, i) \in DOMAIN g.pool_edge_index
      PROVE  WeightAt(h, Key(q, i)) = IF q = p THEN Infinite ELSE WeightAt(g, Key(q, i))
  <2>1. /\ g.pool_edge_index[Key(q, i)] \in DOMAIN g.edges
        /\ g.edges[g.pool_edge_index[Key(q, i)]].pool = q
    BY <1>9 DEF Sound, IndexAgrees, Key
  <2> QED
    BY <2>1, <1>2, <1>5 DEF WeightAt
<1>10. ASSUME NEW q \in Pools
       PROVE  Quotes(h)[q] = IF Key(q, 1) \in DOMAIN g.pool_edge_index /\ q = p
                             THEN <<Infinite, Infinite>> ELSE Quotes(g)[q]
  <2>1. CASE Key(q, 1) \in DOMAIN g.pool_edge_index
    <3>1. Key(q, 2) \in DOMAIN g.pool_edge_index
      BY <2>1 DEF BothWays, Key
    <3>2. WeightsOf(h, q) = IF q = p THEN <<Infinite, Infinite>> ELSE WeightsOf(g, q)
      BY <2>1, <3>1, <1>9 DEF WeightsOf
    <3> QED
      BY <2>1, <3>2, <1>5, QuotesAre
  <2>2. CASE Key(q, 1) \notin DOMAIN g.pool_edge_index
    BY <2>2, <1>5, QuotesAre
  <2> QED
    BY <2>1, <2>2
<1>11. Key(p, 1) \in DOMAIN g.pool_edge_index <=> Quotes(g)[p] # <<>>
  <2>1. WeightsOf(g, p) # <<>>
    <3>1. Len(WeightsOf(g, p)) = 2
      BY DEF WeightsOf
    <3>2. Len(<<>>) = 0
      OBVIOUS
    <3> QED
      BY <3>1, <3>2
  <2> QED
    BY <2>1, QuotesAre
<1>12. Quotes(h) = IF Quotes(g)[p] = <<>> THEN Quotes(g)
                   ELSE [Quotes(g) EXCEPT ![p] = <<Infinite, Infinite>>]
  <2>1. /\ Quotes(h) = [q \in Pools |-> Quotes(h)[q]]
        /\ Quotes(g) = [q \in Pools |-> Quotes(g)[q]]
    BY DEF Quotes
  <2> HIDE DEF h
  <2>2. CASE Quotes(g)[p] = <<>>
    BY <2>1, <2>2, <1>10, <1>11
  <2>3. CASE Quotes(g)[p] # <<>>
    BY <2>1, <2>3, <1>10, <1>11
  <2> QED
    BY <2>2, <2>3
<1> QED
  BY <1>5, <1>7, <1>8, <1>12 DEF h

------------------------------------------------------------------------------
(* Theorems *)

\* The empty graph satisfies the invariant and quotes nothing.
LEMMA InitSound == Init => IInv /\ Quotes(graph) = [p \in Pools |-> <<>>]
<1> SUFFICES ASSUME Init
             PROVE  IInv /\ Quotes(graph) = [p \in Pools |-> <<>>]
  OBVIOUS
<1>1. /\ graph.index_to_mint = <<>> /\ graph.mint_to_index = <<>> /\ graph.edges = <<>>
      /\ graph.adjacency = <<>> /\ graph.pool_edge_index = <<>>
      /\ graph = New
  BY DEF Init, New
<1>2. <<>> \in Maps(Mints) /\ <<>> \in Maps(Pools \X Mints)
  <2>1. ASSUME NEW S
        PROVE  <<>> \in Maps(S)
    <3>1. <<>> \in [{} -> Nat] /\ {} \in SUBSET S
      OBVIOUS
    <3> QED
      BY <3>1 DEF Maps
  <2> QED
    BY <2>1
<1>3. graph \in Graphs
  BY <1>1, <1>2 DEF Graphs, New
<1>4. DOMAIN <<>> = {} /\ Len(<<>>) = 0
  OBVIOUS
<1>5. Sound(graph)
  BY <1>1, <1>3, <1>4
     DEF Sound, RegistryAgrees, EdgesAgree, IndexAgrees, ListsAgree, Listed
<1>6. BothWays(graph)
  BY <1>1, <1>4 DEF BothWays
<1>7. Quotes(graph) = [p \in Pools |-> <<>>]
  BY <1>1, <1>4 DEF Quotes
<1> QED
  BY <1>1, <1>4, <1>5, <1>6, <1>7 DEF IInv

\* One step of the graph, as the board and the holders of indices see it.
LEMMA StepSound ==
  IInv /\ [Next]_graph =>
    /\ IInv'
    /\ KeepsTokens(graph, graph') /\ KeepsEdges(graph, graph')
    /\ [Board!Next]_(Quotes(graph))
<1> SUFFICES ASSUME IInv, [Next]_graph
             PROVE  /\ IInv'
                    /\ KeepsTokens(graph, graph') /\ KeepsEdges(graph, graph')
                    /\ [Board!Next]_(Quotes(graph))
  OBVIOUS
<1>1. Sound(graph) /\ Len(graph.adjacency) = Len(graph.index_to_mint) /\ BothWays(graph)
  BY DEF IInv
<1>2. CASE graph' = graph
  <2>1. Quotes(graph)' = Quotes(graph)
    BY <1>2 DEF Quotes, WeightOf
  <2>2. KeepsTokens(graph, graph') /\ KeepsEdges(graph, graph')
    BY <1>1, <1>2, Lengths DEF KeepsTokens, KeepsEdges, SameEdge
  <2>3. IInv'
    BY <1>1, <1>2 DEF IInv
  <2> QED
    BY <2>1, <2>2, <2>3
<1>3. ASSUME NEW p \in Pools, UpdatePool(p)
      PROVE  /\ IInv'
             /\ KeepsTokens(graph, graph') /\ KeepsEdges(graph, graph')
             /\ [Board!Next]_(Quotes(graph))
  <2>1. PICK a \in Amounts \cup {NoReserve}, b \in Amounts \cup {NoReserve} :
          graph' = update_pool(graph, p, a, b)
    BY <1>3 DEF UpdatePool
  <2>2. CASE a = NoReserve \/ b = NoReserve
    <3>1. graph' = graph
      BY <2>1, <2>2 DEF update_pool
    <3> QED
      BY <1>2, <3>1
  <2>3. CASE a \in Amounts /\ b \in Amounts
    <3>1. /\ Sound(graph') /\ Len(graph'.adjacency) = Len(graph'.index_to_mint)
          /\ BothWays(graph')
          /\ KeepsTokens(graph, graph') /\ KeepsEdges(graph, graph')
          /\ Quotes(graph') =
               [Quotes(graph) EXCEPT ![p] = <<a - b + FeeOf[p], b - a + FeeOf[p]>>]
      BY <1>1, <2>1, <2>3, QuoteSound, SMTT(20)
    <3>2. Board!Quote(p)
      BY <2>3, <3>1 DEF Board!Quote
    <3>3. Board!Next
      BY <3>2 DEF Board!Next
    <3> QED
      BY <3>1, <3>3 DEF IInv
  <2> QED
    BY <2>2, <2>3
<1>4. ASSUME NEW p \in Pools, RemovePool(p)
      PROVE  /\ IInv'
             /\ KeepsTokens(graph, graph') /\ KeepsEdges(graph, graph')
             /\ [Board!Next]_(Quotes(graph))
  <2>1. graph' = remove_pool(graph, p)
    BY <1>4 DEF RemovePool
  <2>2. /\ Sound(graph') /\ graph'.adjacency = graph.adjacency /\ BothWays(graph')
        /\ SameTokens(graph, graph') /\ KeepsEdges(graph, graph')
        /\ Quotes(graph') = IF Quotes(graph)[p] = <<>> THEN Quotes(graph)
                            ELSE [Quotes(graph) EXCEPT ![p] = <<Infinite, Infinite>>]
    BY <1>1, <2>1, RemoveSound
  <2>3. IInv'
    BY <1>1, <2>2 DEF IInv, SameTokens
  <2>4. KeepsTokens(graph, graph')
    BY <1>1, <2>2, Lengths DEF KeepsTokens, SameTokens
  <2>5. CASE Quotes(graph)[p] = <<>>
    BY <2>2, <2>3, <2>4, <2>5
  <2>6. CASE Quotes(graph)[p] # <<>>
    <3>1. Board!Withdraw(p)
      BY <2>2, <2>6 DEF Board!Withdraw, Board!Unquoted, Board!Withdrawn
    <3>2. Board!Next
      BY <3>1 DEF Board!Next
    <3> QED
      BY <2>2, <2>3, <2>4, <3>2
  <2> QED
    BY <2>5, <2>6
<1> QED
  BY <1>2, <1>3, <1>4 DEF Next

\* The inductive invariant: the tables agree, every token has a list, every pool has
\* both edges or none.
THEOREM InductiveInvariant == Spec => []IInv
<1>1. Init => IInv
  BY InitSound
<1>2. IInv /\ [Next]_graph => IInv'
  BY StepSound
<1> QED
  BY <1>1, <1>2, PTL DEF Spec

\* The graph's tables keep their types, and every token has an adjacency list.
THEOREM GraphTypes == Spec => []TypeOK
<1>1. IInv => TypeOK
  <2> SUFFICES ASSUME IInv
               PROVE  TypeOK
    OBVIOUS
  <2>1. Sound(graph) /\ graph \in Graphs
    BY DEF IInv, Sound
  <2>2. /\ graph.index_to_mint \in Seq(Mints) /\ graph.edges \in Seq(Edges)
        /\ graph.adjacency \in Seq(Seq(Nat))
        /\ graph.mint_to_index \in Maps(Mints)
        /\ graph.pool_edge_index \in Maps(Pools \X Mints)
    BY <2>1 DEF Graphs
  <2>3. DOMAIN graph.mint_to_index \subseteq Mints
        /\ DOMAIN graph.pool_edge_index \subseteq Pools \X Mints
    BY <2>2, MapFacts
  <2>4. ASSUME NEW t \in DOMAIN graph.adjacency
        PROVE  graph.adjacency[t] \in Seq(1..Len(graph.edges))
    <3>1. graph.adjacency[t] \in Seq(Nat)
      BY <2>2
    <3>2. \A k \in DOMAIN graph.adjacency[t] : graph.adjacency[t][k] \in 1..Len(graph.edges)
      BY <2>1, <2>4, Lengths DEF Sound, Listed
    <3> QED
      BY <3>1, <3>2
  <2>5. graph.adjacency \in Seq(Seq(1..Len(graph.edges)))
    <3> DEFINE AnyStep == Seq(Nat)
               Lists == Seq(1..Len(graph.edges))
    <3>1. graph.adjacency \in Seq(AnyStep) /\ \A t \in DOMAIN graph.adjacency : graph.adjacency[t] \in Lists
      BY <2>2, <2>4
    <3> HIDE DEF AnyStep, Lists
    <3>2. graph.adjacency \in Seq(Lists)
      BY <3>1
    <3> QED
      BY <3>2 DEF Lists
  <2> QED
    BY <2>2, <2>3, <2>5 DEF TypeOK, IInv
<1> QED
  BY <1>1, InductiveInvariant, PTL

\* The registry, the edges, the index and the adjacency lists agree with each other,
\* for every set of pools and tokens and every sequence of updates and removals.
THEOREM TablesConsistent == Spec => []TablesAgree
<1>1. IInv => TablesAgree
  BY DEF IInv, Sound, EdgesAgree, TablesAgree
<1> QED
  BY <1>1, InductiveInvariant, PTL

\* An edge index or token index handed out stands for the same edge or token for ever.
THEOREM IndicesStable == Spec => IndicesStayValid
<1> DEFINE Stable ==
      /\ \A i \in DOMAIN graph.edges :
           i \in DOMAIN graph'.edges /\ SameEdge(graph'.edges[i], graph.edges[i])
      /\ \A t \in DOMAIN graph.index_to_mint :
           t \in DOMAIN graph'.index_to_mint
           /\ graph'.index_to_mint[t] = graph.index_to_mint[t]
<1>1. IInv /\ IInv' /\ [Next]_graph => Stable
  <2> SUFFICES ASSUME IInv, IInv', [Next]_graph
               PROVE  Stable
    OBVIOUS
  <2>1. KeepsTokens(graph, graph') /\ KeepsEdges(graph, graph')
    BY StepSound
  <2>2. Sound(graph) /\ Sound(graph')
    BY DEF IInv
  <2>3. DOMAIN graph.index_to_mint \subseteq DOMAIN graph'.index_to_mint
    <3>1. /\ DOMAIN graph.index_to_mint = 1..Len(graph.index_to_mint)
          /\ DOMAIN graph'.index_to_mint = 1..Len(graph'.index_to_mint)
          /\ Len(graph.index_to_mint) \in Nat /\ Len(graph'.index_to_mint) \in Nat
      BY <2>2, Lengths
    <3>2. Len(graph.index_to_mint) <= Len(graph'.index_to_mint)
      BY <2>1 DEF KeepsTokens
    <3> QED
      BY <3>1, <3>2
  <2> QED
    BY <2>1, <2>3 DEF KeepsTokens, KeepsEdges
<1>2. IInv /\ IInv' /\ [Next]_graph => [Stable]_graph
  BY <1>1
<1> QED
  BY <1>2, InductiveInvariant, PTL DEF Spec, IndicesStayValid

\* The graph is one map from pools to their two weights: it implements QuoteBoard.
THEOREM GraphImplementsBoard == Spec => ImplementsBoard
<1>1. Init => Board!Init
  BY InitSound DEF Board!Init, Board!Unquoted
<1>2. IInv /\ [Next]_graph => [Board!Next]_(Quotes(graph))
  BY StepSound
<1> QED
  BY <1>1, <1>2, InductiveInvariant, PTL DEF Spec, ImplementsBoard, Board!Spec


------------------------------------------------------------------------------
(* FlattenSeq *)

\* Sequence s lists the elements of X, a set of values of kind S, each once.
Enumerates(s, X, S) ==
  /\ s \in Seq(S)
  /\ \A k \in 1..Len(s) : s[k] \in X
  /\ \A x \in X : \E k \in 1..Len(s) : s[k] = x
  /\ \A k, l \in 1..Len(s) : s[k] = s[l] => k = l

\* Two lists of disjoint sets, one after the other, list their union.
LEMMA ListsConcat ==
  ASSUME NEW S, NEW X, NEW Y, NEW s, NEW t, Enumerates(s, X, S), Enumerates(t, Y, S), X \cap Y = {}
  PROVE  Enumerates(s \o t, X \cup Y, S)
<1> DEFINE r == s \o t
           m == Len(s)
           n == Len(t)
<1>1. /\ s \in Seq(S) /\ t \in Seq(S) /\ m \in Nat /\ n \in Nat
      /\ \A k \in 1..m : s[k] \in X
      /\ \A x \in X : \E k \in 1..m : s[k] = x
      /\ \A k, l \in 1..m : s[k] = s[l] => k = l
      /\ \A k \in 1..n : t[k] \in Y
      /\ \A y \in Y : \E k \in 1..n : t[k] = y
      /\ \A k, l \in 1..n : t[k] = t[l] => k = l
  BY LenProperties DEF Enumerates
<1>2. /\ r \in Seq(S) /\ Len(r) = m + n
      /\ \A k \in 1..(m + n) : r[k] = IF k <= m THEN s[k] ELSE t[k - m]
  BY <1>1, ConcatProperties
<1> HIDE DEF r, m, n
<1>3. \A k \in 1..m : k \in 1..(m + n) /\ r[k] = s[k]
  BY <1>1, <1>2
<1>4. \A k \in 1..n : k + m \in 1..(m + n) /\ r[k + m] = t[k]
  <2> SUFFICES ASSUME NEW k \in 1..n PROVE k + m \in 1..(m + n) /\ r[k + m] = t[k]
    OBVIOUS
  <2>1. k + m \in 1..(m + n) /\ ~(k + m <= m) /\ (k + m) - m = k
    BY <1>1
  <2> QED BY <1>2, <2>1
<1>5. \A k \in 1..(m + n) :
        \/ k \in 1..m
        \/ k - m \in 1..n /\ (k - m) + m = k
  BY <1>1
<1>6. ASSUME NEW k \in 1..(m + n) PROVE r[k] \in X \cup Y
  <2>1. CASE k \in 1..m
    BY <1>1, <1>3, <2>1
  <2>2. CASE k - m \in 1..n /\ (k - m) + m = k
    <3>1. r[k] = t[k - m]
      BY <1>4, <2>2
    <3> QED BY <1>1, <2>2, <3>1
  <2> QED BY <1>5, <2>1, <2>2
<1>7. ASSUME NEW x \in X \cup Y PROVE \E k \in 1..(m + n) : r[k] = x
  <2>1. CASE x \in X
    BY <1>1, <1>3, <2>1
  <2>2. CASE x \in Y
    <3>1. PICK k \in 1..n : t[k] = x
      BY <1>1, <2>2
    <3>2. k + m \in 1..(m + n) /\ r[k + m] = x
      BY <1>4, <3>1
    <3> QED BY <3>2
  <2> QED BY <2>1, <2>2
<1>8. ASSUME NEW k \in 1..(m + n), NEW l \in 1..(m + n), r[k] = r[l] PROVE k = l
  <2>1. CASE k \in 1..m /\ l \in 1..m
    BY <1>1, <1>3, <1>8, <2>1
  <2>2. CASE k \in 1..m /\ l - m \in 1..n /\ (l - m) + m = l
    <3>1. r[k] \in X /\ r[l] = t[l - m] /\ t[l - m] \in Y
      BY <1>1, <1>3, <1>4, <2>2
    <3> QED BY <1>8, <3>1
  <2>3. CASE l \in 1..m /\ k - m \in 1..n /\ (k - m) + m = k
    <3>1. r[l] \in X /\ r[k] = t[k - m] /\ t[k - m] \in Y
      BY <1>1, <1>3, <1>4, <2>3
    <3> QED BY <1>8, <3>1
  <2>4. CASE k - m \in 1..n /\ (k - m) + m = k /\ l - m \in 1..n /\ (l - m) + m = l
    <3>1. t[k - m] = t[l - m]
      BY <1>4, <1>8, <2>4
    <3>2. k - m = l - m
      BY <1>1, <2>4, <3>1
    <3> QED BY <2>4, <3>2
  <2> QED BY <1>5, <2>1, <2>2, <2>3, <2>4
<1>9. Enumerates(r, X \cup Y, S)
  BY <1>2, <1>6, <1>7, <1>8 DEF Enumerates
<1> QED BY <1>9 DEF r

\* No sequence at all lists nothing.
LEMMA ListsNothing ==
  ASSUME NEW S PROVE Enumerates(<<>>, {}, S)
BY EmptySeq DEF Enumerates

\* The steps of FlattenSeq, from the empty sequence.
LEMMA FlattenSteps ==
  ASSUME NEW S, NEW seqs \in Seq(Seq(S))
  PROVE  \E f : /\ f \in [0..Len(seqs) -> Seq(S)] /\ f[0] = <<>>
                /\ \A k \in 1..Len(seqs) : f[k] = f[k - 1] \o seqs[k]
                /\ FlattenSeq(seqs) = f[Len(seqs)]
<1> DEFINE n == Len(seqs)
           T == Seq(S)
           step == [k \in 1..n |-> [acc \in T |-> acc \o seqs[k]]]
           E(q) == q = [i \in 1..Len(seqs) |-> IF i = 1 THEN seqs[i] ELSE q[i - 1] \o seqs[i]]
<1>0. n \in Nat /\ <<>> \in T /\ \A k \in 1..n : seqs[k] \in T
  BY LenProperties, EmptySeq, ElementOfSeq
<1>1. step \in [1..n -> [T -> T]]
  <2>1. \A k \in 1..n, acc \in T : acc \o seqs[k] \in T
    BY <1>0, ConcatProperties
  <2> HIDE DEF n, T
  <2> QED BY <2>1
<1>2. PICK f : Follows(f, T, <<>>, n, step)
  <2> HIDE DEF step, n, T
  <2> QED BY <1>0, <1>1, StepsExist, Zenon
<1>3. f \in [0..n -> T] /\ f[0] = <<>> /\ \A k \in 1..n : f[k] = step[k][f[k - 1]]
  BY <1>2, Zenon DEF Follows
<1>4. \A k \in 1..n : f[k - 1] \in T /\ f[k] = f[k - 1] \o seqs[k]
  <2> SUFFICES ASSUME NEW k \in 1..n PROVE f[k - 1] \in T /\ f[k] = f[k - 1] \o seqs[k]
    OBVIOUS
  <2>1. k - 1 \in 0..n
    BY <1>0
  <2> HIDE DEF T, n
  <2>2. f[k - 1] \in T
    BY <1>3, <2>1
  <2> QED BY <1>3, <2>2
<1>5. CASE n = 0
  <2>1. FlattenSeq(seqs) = <<>>
    BY <1>5, EmptySeq DEF FlattenSeq
  <2> QED BY <1>3, <1>4, <1>5, <2>1
<1>6. CASE n # 0
  <2> DEFINE h == [i \in 1..Len(seqs) |-> f[i]]
  <2>1. \A i \in 1..Len(seqs) : f[i] = IF i = 1 THEN seqs[i] ELSE h[i - 1] \o seqs[i]
    <3> SUFFICES ASSUME NEW i \in 1..Len(seqs)
                 PROVE  f[i] = IF i = 1 THEN seqs[i] ELSE h[i - 1] \o seqs[i]
      OBVIOUS
    <3>1. CASE i = 1
      <4>0. 1 \in 1..n /\ 1 - 1 = 0
        BY <3>1
      <4>1. f[1] = <<>> \o seqs[1]
        BY <1>3, <1>4, <4>0
      <4> QED BY <1>0, <3>1, <4>1, ConcatEmptySeq
    <3>2. CASE i # 1
      <4>1. i - 1 \in 1..Len(seqs)
        BY <1>0, <3>2
      <4>2. h[i - 1] = f[i - 1]
        BY <4>1
      <4> QED BY <1>4, <3>2, <4>2
    <3> QED BY <3>1, <3>2
  <2>2. E(h)
    <3> HIDE DEF h
    <3> SUFFICES h = [i \in 1..Len(seqs) |-> f[i]]
      BY <2>1
    <3> QED BY DEF h
  <2>3. FlattenSeq(seqs) = (CHOOSE q : E(q))[n]
    BY <1>6 DEF FlattenSeq
  <2> DEFINE g == CHOOSE q : E(q)
  <2>4. E(g)
    <3> HIDE DEF E, h
    <3> QED BY <2>2
  <2>5. FlattenSeq(seqs) = g[n]
    BY <2>3
  <2> HIDE DEF g, h
  <2> DEFINE D == {i \in Nat : i + 1 \in 1..n => g[i + 1] = f[i + 1]}
  <2>6. 0 \in D
    BY <1>0, <1>6, <2>1, <2>4
  <2>7. ASSUME NEW i \in Nat, i \in D PROVE i + 1 \in D
    <3> SUFFICES ASSUME (i + 1) + 1 \in 1..n PROVE g[(i + 1) + 1] = f[(i + 1) + 1]
      BY <2>7
    <3>1. i + 1 \in 1..n /\ (i + 1) + 1 # 1 /\ ((i + 1) + 1) - 1 = i + 1
      BY <1>0
    <3> DEFINE j == (i + 1) + 1
    <3>2. g[i + 1] = f[i + 1]
      BY <2>7, <3>1
    <3>3. g[j] = g[j - 1] \o seqs[j]
      BY <2>4, <3>1
    <3>4. f[j] = f[j - 1] \o seqs[j]
      BY <1>4
    <3>5. j - 1 = i + 1
      BY <3>1
    <3> HIDE DEF j
    <3>6. g[j] = f[j]
      BY <3>2, <3>3, <3>4, <3>5
    <3> QED BY <3>6 DEF j
  <2>8. g[n] = f[n]
    <3>1. Nat \subseteq D
      <4> HIDE DEF D
      <4> QED BY <2>6, <2>7, SetInduction
    <3>2. n - 1 \in Nat /\ (n - 1) + 1 = n /\ n \in 1..n
      BY <1>0, <1>6
    <3> QED BY <3>1, <3>2
  <2> QED BY <1>3, <1>4, <2>5, <2>8
<1> QED BY <1>5, <1>6

\* Lists of pairwise disjoint sets, flattened, list their union.
LEMMA FlattenLists ==
  ASSUME NEW S, NEW seqs \in Seq(Seq(S)), NEW X,
         \A k \in 1..Len(seqs) : Enumerates(seqs[k], X[k], S),
         \A k, l \in 1..Len(seqs) : k # l => X[k] \cap X[l] = {}
  PROVE  Enumerates(FlattenSeq(seqs), UNION {X[k] : k \in 1..Len(seqs)}, S)
<1> DEFINE n == Len(seqs)
<1>0. n \in Nat
  BY LenProperties
<1>1. PICK f : /\ f \in [0..n -> Seq(S)] /\ f[0] = <<>>
               /\ \A k \in 1..n : f[k] = f[k - 1] \o seqs[k]
               /\ FlattenSeq(seqs) = f[n]
  BY FlattenSteps, Zenon
<1> HIDE DEF n
<1> DEFINE Upto(m) == UNION {X[k] : k \in 1..m}
           T == {m \in Nat : m <= n => Enumerates(f[m], Upto(m), S)}
<1>2. 0 \in T
  <2>1. Upto(0) = {}
    OBVIOUS
  <2> HIDE DEF Upto
  <2> QED BY <1>1, <2>1, ListsNothing
<1>3. ASSUME NEW m \in Nat, m \in T PROVE m + 1 \in T
  <2> SUFFICES ASSUME m + 1 <= n PROVE Enumerates(f[m + 1], Upto(m + 1), S)
    BY <1>3
  <2>1. m + 1 \in 1..n /\ (m + 1) - 1 = m /\ m <= n
    BY <1>0
  <2>2. f[m + 1] = f[m] \o seqs[m + 1]
    BY <1>1, <2>1
  <2>3. Enumerates(f[m], Upto(m), S)
    BY <1>3, <2>1
  <2>4. Enumerates(seqs[m + 1], X[m + 1], S)
    BY <2>1 DEF n
  <2>5. Upto(m + 1) = Upto(m) \cup X[m + 1]
    <3>1. 1..(m + 1) = (1..m) \cup {m + 1}
      OBVIOUS
    <3> QED BY <3>1
  <2>6. Upto(m) \cap X[m + 1] = {}
    <3>1. \A k \in 1..m : k \in 1..n /\ k # m + 1
      BY <1>0, <2>1
    <3>2. \A k \in 1..m : X[k] \cap X[m + 1] = {}
      BY <2>1, <3>1 DEF n
    <3> QED BY <3>2
  <2> HIDE DEF Upto
  <2> QED BY <2>2, <2>3, <2>4, <2>5, <2>6, ListsConcat
<1>4. n \in T
  <2> HIDE DEF T
  <2> QED BY <1>0, <1>2, <1>3, SetInduction
<1>5. Enumerates(f[n], Upto(n), S)
  <2> HIDE DEF Upto
  <2> QED BY <1>0, <1>4
<1> QED BY <1>1, <1>5 DEF n

------------------------------------------------------------------------------
(* dfs_recurse: its recursion *)

\* What the searches rely on: indices are those of the edges and lead between
\* different tokens.
LEMMA EdgeFacts ==
  ASSUME IInv, NEW i \in DOMAIN graph.edges
  PROVE  /\ Edge(i) \in Edges
         /\ Edge(i).source_mint \in DOMAIN graph.mint_to_index
         /\ Edge(i).dest_mint \in DOMAIN graph.mint_to_index
         /\ Edge(i).source = graph.mint_to_index[Edge(i).source_mint]
         /\ Edge(i).dest = graph.mint_to_index[Edge(i).dest_mint]
         /\ Edge(i).source # Edge(i).dest
         /\ \E j \in {1, 2} : /\ Edge(i).source_mint = MintsOf[Edge(i).pool][j]
                              /\ Edge(i).dest_mint = MintsOf[Edge(i).pool][3 - j]
<1>1. Sound(graph)
  BY DEF IInv
<1>2. Edge(i) \in Edges
  BY <1>1 DEF Sound, Graphs, Edge
<1>3. EdgeAgrees(graph, Edge(i)) /\ RegistryAgrees(graph)
  BY <1>1 DEF Sound, EdgesAgree, Edge
<1> DEFINE e == Edge(i)
<1>4. e.pool \in Pools /\ MintsOf[e.pool] \in Mints \X Mints
  BY <1>2, GraphAssumption DEF Edges
<1>5. MintsOf[e.pool][1] # MintsOf[e.pool][2]
  BY <1>4, GraphAssumption
<1> HIDE DEF e
<1>6. MintsOf[e.pool] = <<MintsOf[e.pool][1], MintsOf[e.pool][2]>>
  BY <1>4
<1>7. \/ e.source_mint = MintsOf[e.pool][1] /\ e.dest_mint = MintsOf[e.pool][2]
      \/ e.source_mint = MintsOf[e.pool][2] /\ e.dest_mint = MintsOf[e.pool][1]
  BY <1>3, <1>6 DEF EdgeAgrees, e
<1>8. /\ e.source_mint \in DOMAIN graph.mint_to_index
      /\ e.dest_mint \in DOMAIN graph.mint_to_index
      /\ e.source = graph.mint_to_index[e.source_mint]
      /\ e.dest = graph.mint_to_index[e.dest_mint]
  BY <1>3 DEF EdgeAgrees, e
<1>9. \A m \in DOMAIN graph.mint_to_index : graph.index_to_mint[graph.mint_to_index[m]] = m
  BY <1>3 DEF RegistryAgrees
<1>10. e.source # e.dest
  BY <1>5, <1>7, <1>8, <1>9
<1>11. \E j \in {1, 2} : e.source_mint = MintsOf[e.pool][j] /\ e.dest_mint = MintsOf[e.pool][3 - j]
  <2>1. 3 - 1 = 2 /\ 3 - 2 = 1
    OBVIOUS
  <2> QED BY <1>7, <2>1
<1> QED BY <1>2, <1>8, <1>10, <1>11 DEF e

\* The edges that may follow on a path.
Steps(path, source) ==
  {i \in DOMAIN graph.edges : /\ Edge(i).source = EndOf(path, source)
                              /\ Usable(i)
                              /\ Edge(i).pool \notin PoolsOn(path)}

\* The edges the depth-first search goes on with are its possible steps, each once.
LEMMA OnwardLists ==
  ASSUME IInv, NEW path, NEW source
  PROVE  Enumerates(Onward(path, source), Steps(path, source), DOMAIN graph.edges)
<1> DEFINE I == DOMAIN graph.edges
           node == EndOf(path, source)
           s == edges_from(node)
           keep == {i \in I : Usable(i) /\ Edge(i).pool \notin PoolsOn(path)}
           r == Retain(s, keep)
<1>1. Sound(graph)
  BY DEF IInv
<1>2. s \in Seq(I)
  <2>1. CASE node \in DOMAIN graph.adjacency
    <3>1. s = graph.adjacency[node]
      BY <2>1 DEF edges_from
    <3>2. graph.adjacency \in Seq(Seq(Nat))
      BY <1>1 DEF Sound, Graphs
    <3>3. s \in Seq(Nat)
      BY <2>1, <3>1, <3>2
    <3>4. \A k \in DOMAIN s : s[k] \in I
      BY <1>1, <2>1, <3>1 DEF Sound, Listed
    <3> HIDE DEF s, I
    <3> QED BY <3>3, <3>4
  <2>2. CASE node \notin DOMAIN graph.adjacency
    <3>1. s = <<>>
      BY <2>2 DEF edges_from
    <3> QED BY <3>1, EmptySeq
  <2> QED BY <2>1, <2>2
<1>3. /\ \A k \in 1..Len(s) : Edge(s[k]).source = node
      /\ \A i \in I : Edge(i).source = node => \E k \in 1..Len(s) : s[k] = i
      /\ \A k, l \in 1..Len(s) : s[k] = s[l] => k = l
  <2>1. CASE node \in DOMAIN graph.adjacency
    <3>1. s = graph.adjacency[node]
      BY <2>1 DEF edges_from
    <3>2. /\ \A i \in I : Edge(i).source = node <=> \E k \in DOMAIN s : s[k] = i
          /\ \A k, l \in DOMAIN s : s[k] = s[l] => k = l
      BY <1>1, <2>1, <3>1 DEF Sound, ListsAgree, Edge
    <3>3. DOMAIN s = 1..Len(s) /\ \A k \in 1..Len(s) : s[k] \in I
      BY <1>2, LenProperties, ElementOfSeq
    <3> HIDE DEF s, I, node
    <3> QED BY <3>2, <3>3
  <2>2. CASE node \notin DOMAIN graph.adjacency
    <3>1. s = <<>> /\ Len(s) = 0
      BY <2>2 DEF edges_from
    <3>2. \A i \in I : Edge(i).source # node
      BY <1>1, <2>2 DEF Sound, Listed, Edge
    <3> HIDE DEF s, I, node
    <3> QED BY <3>1, <3>2
  <2> QED BY <2>1, <2>2
<1> HIDE DEF s, I
<1>4. r \in Seq(I)
  <2> HIDE DEF keep
  <2> QED BY <1>2, RetainCorrect
<1>5. PICK e : Selects(e, r, s, Len(s), keep)
  <2> HIDE DEF keep
  <2> QED BY <1>2, RetainCorrect
<1>6. Len(s) \in Nat /\ Len(r) \in Nat
  BY <1>2, <1>4, LenProperties
<1> HIDE DEF r, keep
<1>7. /\ e \in [1..Len(r) -> 1..Len(s)]
      /\ \A i, j \in 1..Len(r) : i < j => e[i] < e[j]
      /\ \A i \in 1..Len(r) : r[i] = s[e[i]] /\ r[i] \in keep
      /\ \A k \in 1..Len(s) : s[k] \in keep => \E i \in 1..Len(r) : e[i] = k
  BY <1>5 DEF Selects
<1>8. Steps(path, source) = {i \in keep : Edge(i).source = node}
  BY DEF Steps, keep, I
<1>9. \A k \in 1..Len(r) : r[k] \in Steps(path, source)
  BY <1>3, <1>7, <1>8
<1>10. ASSUME NEW x \in Steps(path, source) PROVE \E k \in 1..Len(r) : r[k] = x
  <2>1. x \in I /\ x \in keep /\ Edge(x).source = node
    BY <1>8 DEF keep
  <2>2. PICK k \in 1..Len(s) : s[k] = x
    BY <1>3, <2>1
  <2>3. PICK i \in 1..Len(r) : e[i] = k
    BY <1>7, <2>1, <2>2
  <2> QED BY <1>7, <2>2, <2>3
<1>11. ASSUME NEW k \in 1..Len(r), NEW l \in 1..Len(r), r[k] = r[l] PROVE k = l
  <2>1. s[e[k]] = s[e[l]] /\ e[k] \in 1..Len(s) /\ e[l] \in 1..Len(s)
    BY <1>7, <1>11
  <2>2. e[k] = e[l]
    BY <1>3, <2>1
  <2>3. ~(k < l) /\ ~(l < k)
    BY <1>6, <1>7, <2>1, <2>2
  <2> QED BY <1>6, <2>3
<1>12. Enumerates(r, Steps(path, source), I)
  BY <1>4, <1>9, <1>10, <1>11 DEF Enumerates
<1> QED BY <1>12 DEF r, s, keep, I, node, Onward

\* The searches one hop longer extend the paths by one edge, and find paths.
LEMMA SearchType ==
  ASSUME IInv, NEW found \in [Trails -> Seq(Trails)], NEW source, NEW path \in Trails
  PROVE  /\ \A i \in DOMAIN graph.edges : Explore(found, source, path, i) \in Seq(Trails)
         /\ [k \in DOMAIN Onward(path, source) |->
               Explore(found, source, path, Onward(path, source)[k])] \in Seq(Seq(Trails))
         /\ ExploreAll(found, source, path) \in Seq(Trails)
<1> DEFINE I == DOMAIN graph.edges
           onward == Onward(path, source)
           seqs == [k \in DOMAIN onward |-> Explore(found, source, path, onward[k])]
<1>1. \A i \in I : Append(path, i) \in Trails
  BY AppendProperties DEF Trails
<1>2. \A i \in I : Explore(found, source, path, i) \in Seq(Trails)
  <2> SUFFICES ASSUME NEW i \in I PROVE Explore(found, source, path, i) \in Seq(Trails)
    OBVIOUS
  <2> DEFINE q == Append(path, i)
  <2>1. q \in Trails
    BY <1>1
  <2> HIDE DEF q
  <2>2. <<q>> \in Seq(Trails) /\ <<>> \in Seq(Trails) /\ found[q] \in Seq(Trails)
    BY <2>1
  <2> QED BY <2>2 DEF Explore, q
<1>3. onward \in Seq(I)
  BY OnwardLists DEF Enumerates
<1>4. seqs \in Seq(Seq(Trails))
  <2>1. DOMAIN onward = 1..Len(onward) /\ Len(onward) \in Nat /\ \A k \in 1..Len(onward) : onward[k] \in I
    BY <1>3, LenProperties, ElementOfSeq
  <2> HIDE DEF onward, I
  <2>2. \A k \in 1..Len(onward) : Explore(found, source, path, onward[k]) \in Seq(Trails)
    BY <1>2, <2>1
  <2> QED BY <2>1, <2>2
<1>5. FlattenSeq(seqs) \in Seq(Trails)
  <2> HIDE DEF seqs
  <2>1. PICK f : f \in [0..Len(seqs) -> Seq(Trails)] /\ FlattenSeq(seqs) = f[Len(seqs)]
    BY <1>4, FlattenSteps
  <2>2. Len(seqs) \in 0..Len(seqs)
    BY <1>4, LenProperties
  <2> QED BY <2>1, <2>2
<1> QED BY <1>2, <1>4, <1>5 DEF ExploreAll

\* The recursion, for each number of hops left.
LEMMA Recursion ==
  ASSUME IInv, NEW source, NEW n \in Nat
  PROVE  /\ \A h \in 0..n : dfs_recurse(source, n)[h] \in [Trails -> Seq(Trails)]
         /\ \A path \in Trails : dfs_recurse(source, n)[0][path] = <<>>
         /\ \A h \in 1..n : \A path \in Trails :
              dfs_recurse(source, n)[h][path]
                = ExploreAll(dfs_recurse(source, n)[h - 1], source, path)
<1> DEFINE S == [Trails -> Seq(Trails)]
           More(F) == [path \in Trails |-> ExploreAll(F, source, path)]
           none == [path \in Trails |-> <<>>]
           step == [h \in 1..n |-> [F \in S |-> More(F)]]
           E(q) == q = [hops \in 0..n |->
                         [path \in Trails |->
                            IF hops = 0 THEN <<>> ELSE ExploreAll(q[hops - 1], source, path)]]
           f == dfs_recurse(source, n)
<1>1. none \in S
  BY EmptySeq
<1>2. \A F \in S : More(F) \in S
  BY SearchType
<1>3. step \in [1..n -> [S -> S]]
  <2> HIDE DEF S, More
  <2> QED BY <1>2
<1>4. PICK p : Follows(p, S, none, n, step)
  <2> HIDE DEF step, S, none
  <2> QED BY <1>1, <1>3, StepsExist, Zenon
<1>5. p \in [0..n -> S] /\ p[0] = none /\ \A k \in 1..n : p[k] = step[k][p[k - 1]]
  BY <1>4, Zenon DEF Follows
<1>6. \A k \in 1..n : p[k] = More(p[k - 1])
  <2> HIDE DEF S, More
  <2> SUFFICES ASSUME NEW k \in 1..n PROVE p[k] = More(p[k - 1])
    OBVIOUS
  <2>1. p[k - 1] \in S
    BY <1>5
  <2> QED BY <1>5, <2>1
<1>7. E(p)
  <2> DEFINE Rhs(h) == [path \in Trails |->
                          IF h = 0 THEN <<>> ELSE ExploreAll(p[h - 1], source, path)]
  <2>1. \A h \in 0..n : p[h] = Rhs(h)
    <3> SUFFICES ASSUME NEW h \in 0..n PROVE p[h] = Rhs(h)
      OBVIOUS
    <3>1. CASE h = 0
      BY <1>5, <3>1
    <3>2. CASE h # 0
      <4>1. h \in 1..n
        BY <3>2
      <4>2. p[h] = More(p[h - 1])
        BY <1>6, <4>1
      <4> QED BY <3>2, <4>2
    <3> QED BY <3>1, <3>2
  <2>2. p = [h \in 0..n |-> p[h]]
    <3> HIDE DEF S
    <3> QED BY <1>5
  <2>3. p = [h \in 0..n |-> Rhs(h)]
    <3> HIDE DEF Rhs
    <3> QED BY <2>1, <2>2
  <2> QED BY <2>3
<1>8. f = CHOOSE q : E(q)
  BY DEF dfs_recurse
<1>9. E(f)
  <2> HIDE DEF E, f
  <2> QED BY <1>7, <1>8
<1> HIDE DEF f
<1>10. \A path \in Trails : f[0][path] = <<>>
  BY <1>9
<1>11. \A h \in 1..n : f[h] = More(f[h - 1])
  <2> SUFFICES ASSUME NEW h \in 1..n PROVE f[h] = More(f[h - 1])
    OBVIOUS
  <2>1. h \in 0..n /\ h # 0
    OBVIOUS
  <2> QED BY <1>9, <2>1
<1>12. f[0] \in S
  <2>1. f[0] = none
    BY <1>9
  <2> QED BY <1>1, <2>1
<1>13. \A h \in 0..n : f[h] \in S
  <2> HIDE DEF S, More
  <2>1. \A h \in 1..n : f[h - 1] \in S => f[h] \in S
    BY <1>2, <1>11
  <2> QED BY <1>12, <2>1, StepsStay
<1>14. \A h \in 1..n : \A path \in Trails : f[h][path] = ExploreAll(f[h - 1], source, path)
  BY <1>11
<1> QED BY <1>10, <1>13, <1>14 DEF f

------------------------------------------------------------------------------
(* dfs_recurse: what it finds *)

\* A path of usable edges from source, through distinct pools.
Trail(path, source) ==
  /\ path \in Trails
  /\ \A k \in 1..Len(path) :
       /\ Edge(path[k]).source = IF k = 1 THEN source ELSE Edge(path[k - 1]).dest
       /\ Usable(path[k])
  /\ \A k, l \in 1..Len(path) : Edge(path[k]).pool = Edge(path[l]).pool => k = l

\* It has not come back to source.
Open(path, source) ==
  Trail(path, source) /\ \A k \in 1..Len(path) : Edge(path[k]).dest # source

\* It comes back to source at its end only, with a profit.
Closed(path, source) ==
  /\ Trail(path, source) /\ Len(path) >= 2
  /\ \A k \in 1..Len(path) : Edge(path[k]).dest = source <=> k = Len(path)
  /\ Profitable(path)

Begins(path, cycle) ==
  Len(path) < Len(cycle) /\ \A k \in 1..Len(path) : cycle[k] = path[k]

\* The cycles that extend a path by up to h hops.
Cycles(path, source, h) ==
  {c \in Trails : Closed(c, source) /\ Begins(path, c) /\ Len(c) <= Len(path) + h}

\* The length, the elements, the pools and the end of a path.
LEMMA TrailFacts ==
  ASSUME NEW path \in Trails
  PROVE  /\ Len(path) \in Nat /\ DOMAIN path = 1..Len(path)
         /\ \A k \in 1..Len(path) : path[k] \in DOMAIN graph.edges
         /\ PoolsOn(path) = {Edge(path[k]).pool : k \in 1..Len(path)}
         /\ \A source : EndOf(path, source)
              = IF Len(path) = 0 THEN source ELSE Edge(path[Len(path)]).dest
         /\ path = <<>> <=> Len(path) = 0
BY LenProperties, ElementOfSeq DEF Trails, PoolsOn, EndOf

\* A path with one edge more.
LEMMA AppendTrails ==
  ASSUME NEW path \in Trails, NEW i \in DOMAIN graph.edges
  PROVE  /\ Append(path, i) \in Trails /\ Len(Append(path, i)) = Len(path) + 1
         /\ \A k \in 1..Len(path) : Append(path, i)[k] = path[k]
         /\ Append(path, i)[Len(path) + 1] = i
BY AppendProperties, LenProperties DEF Trails

\* One edge more is still a path through distinct pools.
LEMMA AppendTrail ==
  ASSUME NEW source, NEW path, Trail(path, source), NEW i \in Steps(path, source)
  PROVE  Trail(Append(path, i), source)
<1> DEFINE q == Append(path, i)
           n == Len(path)
<1>1. path \in Trails /\ i \in DOMAIN graph.edges /\ n \in Nat
  BY TrailFacts DEF Trail, Steps
<1>2. /\ q \in Trails /\ Len(q) = n + 1
      /\ \A k \in 1..n : q[k] = path[k]
      /\ q[n + 1] = i
  BY <1>1, AppendTrails
<1>3. /\ Edge(i).source = IF n = 0 THEN source ELSE Edge(path[n]).dest
      /\ Usable(i)
      /\ \A k \in 1..n : Edge(path[k]).pool # Edge(i).pool
  BY <1>1, TrailFacts DEF Steps
<1>4. /\ \A k \in 1..n : /\ Edge(path[k]).source = IF k = 1 THEN source ELSE Edge(path[k - 1]).dest
                         /\ Usable(path[k])
      /\ \A k, l \in 1..n : Edge(path[k]).pool = Edge(path[l]).pool => k = l
  BY DEF Trail
<1> HIDE DEF q, n
<1>5. ASSUME NEW k \in 1..(n + 1)
      PROVE  /\ Edge(q[k]).source = IF k = 1 THEN source ELSE Edge(q[k - 1]).dest
             /\ Usable(q[k])
  <2>1. CASE k = n + 1
    <3>1. CASE n = 0
      BY <1>2, <1>3, <2>1, <3>1
    <3>2. CASE n # 0
      <4>1. k # 1 /\ k - 1 = n /\ n \in 1..n
        BY <1>1, <2>1, <3>2
      <4> QED BY <1>2, <1>3, <2>1, <3>2, <4>1
    <3> QED BY <3>1, <3>2
  <2>2. CASE k # n + 1
    <3>1. k \in 1..n
      BY <1>1, <2>2
    <3>2. CASE k = 1
      BY <1>2, <1>4, <3>1, <3>2
    <3>3. CASE k # 1
      <4>1. k - 1 \in 1..n
        BY <1>1, <3>1, <3>3
      <4> QED BY <1>2, <1>4, <3>1, <3>3, <4>1
    <3> QED BY <3>2, <3>3
  <2> QED BY <2>1, <2>2
<1>6. ASSUME NEW k \in 1..(n + 1), NEW l \in 1..(n + 1), Edge(q[k]).pool = Edge(q[l]).pool
      PROVE  k = l
  <2>1. k \in 1..n \/ k = n + 1
    BY <1>1
  <2>2. l \in 1..n \/ l = n + 1
    BY <1>1
  <2> QED BY <1>2, <1>3, <1>4, <1>6, <2>1, <2>2
<1>7. Trail(q, source)
  BY <1>2, <1>5, <1>6 DEF Trail
<1> QED BY <1>7 DEF q

\* A cycle goes on from each path it begins with by an edge that may follow.
LEMMA CycleGoesOn ==
  ASSUME NEW source, NEW path \in Trails, NEW h \in Nat, NEW c \in Cycles(path, source, h)
  PROVE  c[Len(path) + 1] \in Steps(path, source)
<1> DEFINE n == Len(path)
           i == c[n + 1]
<1>1. /\ c \in Trails /\ Trail(c, source) /\ Begins(path, c)
      /\ n \in Nat /\ Len(c) \in Nat /\ n < Len(c)
  BY TrailFacts DEF Cycles, Closed, Begins
<1>2. n + 1 \in 1..Len(c) /\ \A k \in 1..n : k \in 1..Len(c) /\ c[k] = path[k] /\ k # n + 1
  BY <1>1 DEF Begins
<1>3. i \in DOMAIN graph.edges
  BY <1>1, <1>2, TrailFacts
<1>4. Usable(i) /\ Edge(i).source = IF n + 1 = 1 THEN source ELSE Edge(c[(n + 1) - 1]).dest
  BY <1>1, <1>2 DEF Trail
<1>5. \A k \in 1..n : Edge(path[k]).pool # Edge(i).pool
  BY <1>1, <1>2 DEF Trail
<1>6. Edge(i).pool \notin PoolsOn(path)
  BY <1>5, TrailFacts
<1>7. EndOf(path, source) = IF n = 0 THEN source ELSE Edge(path[n]).dest
  BY TrailFacts
<1>8. Edge(i).source = EndOf(path, source)
  <2>1. CASE n = 0
    BY <1>4, <1>7, <2>1
  <2>2. CASE n # 0
    <3>1. n \in 1..n /\ n + 1 # 1 /\ (n + 1) - 1 = n
      BY <1>1, <2>2
    <3> QED BY <1>2, <1>4, <1>7, <2>2, <3>1
  <2> QED BY <2>1, <2>2
<1> QED BY <1>3, <1>4, <1>6, <1>8 DEF Steps

\* The cycles that go on by edge i.
CyclesBy(path, source, h, i) == {c \in Cycles(path, source, h) : c[Len(path) + 1] = i}

\* An edge back to source closes the path and nothing else.
LEMMA ClosedBy ==
  ASSUME NEW source, NEW path, Open(path, source), Len(path) # 0, NEW h \in Nat,
         NEW i \in Steps(path, source), Edge(i).dest = source
  PROVE  CyclesBy(path, source, h + 1, i)
           = IF Profitable(Append(path, i)) THEN {Append(path, i)} ELSE {}
<1> DEFINE q == Append(path, i)
           n == Len(path)
<1>1. path \in Trails /\ i \in DOMAIN graph.edges /\ n \in Nat /\ Trail(path, source)
  BY TrailFacts DEF Open, Trail, Steps
<1>2. /\ q \in Trails /\ Len(q) = n + 1
      /\ \A k \in 1..n : q[k] = path[k]
      /\ q[n + 1] = i
  BY <1>1, AppendTrails
<1>3. Trail(q, source)
  BY <1>1, AppendTrail
<1>4. \A k \in 1..n : Edge(path[k]).dest # source
  BY DEF Open
<1> HIDE DEF q
<1>5. \A k \in 1..Len(q) : Edge(q[k]).dest = source <=> k = Len(q)
  BY <1>1, <1>2, <1>4
<1>6. Closed(q, source) <=> Profitable(q)
  BY <1>1, <1>2, <1>3, <1>5 DEF Closed
<1>7. Begins(path, q) /\ Len(q) <= n + (h + 1)
  BY <1>1, <1>2 DEF Begins
<1>8. ASSUME NEW c \in CyclesBy(path, source, h + 1, i) PROVE c = q /\ Profitable(q)
  <2>1. /\ c \in Trails /\ Closed(c, source) /\ Begins(path, c) /\ c[n + 1] = i
    BY DEF CyclesBy, Cycles
  <2>2. Len(c) \in Nat /\ n < Len(c) /\ n + 1 \in 1..Len(c)
    BY <1>1, <2>1, TrailFacts DEF Begins
  <2>3. Len(c) = n + 1
    BY <2>1, <2>2 DEF Closed
  <2>4. \A k \in 1..Len(q) : c[k] = q[k]
    BY <1>1, <1>2, <2>1, <2>3 DEF Begins
  <2>5. c = q
    BY <1>2, <2>1, <2>3, <2>4, SeqEqual DEF Trails
  <2> QED BY <1>6, <2>1, <2>5
<1>9. Profitable(q) => q \in CyclesBy(path, source, h + 1, i)
  BY <1>2, <1>6, <1>7 DEF CyclesBy, Cycles
<1> QED BY <1>8, <1>9 DEF q

\* Any other edge leads to the cycles that extend the longer path.
LEMMA OpenBy ==
  ASSUME NEW source, NEW path, Open(path, source), NEW h \in Nat,
         NEW i \in Steps(path, source), Edge(i).dest # source
  PROVE  /\ Open(Append(path, i), source)
         /\ CyclesBy(path, source, h + 1, i) = Cycles(Append(path, i), source, h)
<1> DEFINE q == Append(path, i)
           n == Len(path)
<1>1. path \in Trails /\ i \in DOMAIN graph.edges /\ n \in Nat /\ Trail(path, source)
  BY TrailFacts DEF Open, Trail, Steps
<1>2. /\ q \in Trails /\ Len(q) = n + 1
      /\ \A k \in 1..n : q[k] = path[k]
      /\ q[n + 1] = i
  BY <1>1, AppendTrails
<1>3. Trail(q, source)
  BY <1>1, AppendTrail
<1>4. \A k \in 1..n : Edge(path[k]).dest # source
  BY DEF Open
<1> HIDE DEF q
<1>5. Open(q, source)
  <2>1. \A k \in 1..Len(q) : k \in 1..n \/ k = n + 1
    BY <1>1, <1>2
  <2> QED BY <1>2, <1>3, <1>4, <2>1 DEF Open
<1>6. ASSUME NEW c \in CyclesBy(path, source, h + 1, i) PROVE c \in Cycles(q, source, h)
  <2>1. /\ c \in Trails /\ Closed(c, source) /\ Begins(path, c) /\ c[n + 1] = i
        /\ Len(c) <= n + (h + 1)
    BY DEF CyclesBy, Cycles
  <2>2. Len(c) \in Nat /\ n < Len(c) /\ n + 1 \in 1..Len(c)
    BY <1>1, <2>1, TrailFacts DEF Begins
  <2>3. Len(c) # n + 1
    BY <2>1, <2>2 DEF Closed
  <2>4. \A k \in 1..Len(q) : c[k] = q[k]
    <3>1. \A k \in 1..Len(q) : k \in 1..n \/ k = n + 1
      BY <1>1, <1>2
    <3> QED BY <1>2, <2>1, <3>1 DEF Begins
  <2>5. Len(q) < Len(c) /\ Len(c) <= Len(q) + h
    BY <1>1, <1>2, <2>1, <2>2, <2>3
  <2> QED BY <2>1, <2>4, <2>5 DEF Cycles, Begins
<1>7. ASSUME NEW c \in Cycles(q, source, h) PROVE c \in CyclesBy(path, source, h + 1, i)
  <2>1. /\ c \in Trails /\ Closed(c, source) /\ Len(q) < Len(c) /\ Len(c) <= Len(q) + h
        /\ \A k \in 1..Len(q) : c[k] = q[k]
    BY DEF Cycles, Begins
  <2>2. n + 1 \in 1..Len(q) /\ \A k \in 1..n : k \in 1..Len(q)
    BY <1>1, <1>2
  <2>3. c[n + 1] = i /\ \A k \in 1..n : c[k] = path[k]
    BY <1>2, <2>1, <2>2
  <2>4. Len(c) \in Nat
    BY <2>1, TrailFacts
  <2>5. n < Len(c) /\ Len(c) <= n + (h + 1)
    BY <1>1, <1>2, <2>1, <2>4
  <2> QED BY <2>1, <2>3, <2>5 DEF CyclesBy, Cycles, Begins
<1>8. CyclesBy(path, source, h + 1, i) = Cycles(q, source, h)
  BY <1>6, <1>7
<1> QED BY <1>5, <1>8 DEF q

\* What one edge more finds.
LEMMA ExploreLists ==
  ASSUME IInv, NEW source, NEW path, Open(path, source), NEW h \in Nat, NEW found,
         \A p \in Trails : Open(p, source) => Enumerates(found[p], Cycles(p, source, h), Trails),
         NEW i \in Steps(path, source)
  PROVE  Enumerates(Explore(found, source, path, i), CyclesBy(path, source, h + 1, i), Trails)
<1> DEFINE q == Append(path, i)
<1>1. path \in Trails /\ i \in DOMAIN graph.edges
  BY DEF Open, Trail, Steps
<1>2. q \in Trails
  BY <1>1, AppendTrails
<1>3. CASE Edge(i).dest = source /\ path # <<>>
  <2>1. Len(path) # 0
    BY <1>1, <1>3, TrailFacts
  <2>2. CyclesBy(path, source, h + 1, i) = IF Profitable(q) THEN {q} ELSE {}
    BY <1>3, <2>1, ClosedBy
  <2>3. Explore(found, source, path, i) = IF Profitable(q) THEN <<q>> ELSE <<>>
    BY <1>3 DEF Explore
  <2> HIDE DEF q
  <2>4. Enumerates(<<q>>, {q}, Trails)
    BY <1>2 DEF Enumerates
  <2> QED BY <2>2, <2>3, <2>4, ListsNothing
<1>4. CASE ~(Edge(i).dest = source /\ path # <<>>)
  <2>1. Edge(i).dest # source
    <3>1. CASE path # <<>>
      BY <1>4, <3>1
    <3>2. CASE path = <<>>
      <4>1. Edge(i).source = source
        BY <3>2 DEF Steps, EndOf
      <4> QED BY <1>1, <4>1, EdgeFacts
    <3> QED BY <3>1, <3>2
  <2>2. Open(q, source) /\ CyclesBy(path, source, h + 1, i) = Cycles(q, source, h)
    BY <2>1, OpenBy
  <2>3. Explore(found, source, path, i) = found[q]
    BY <1>4 DEF Explore
  <2> HIDE DEF q
  <2> QED BY <1>2, <2>2, <2>3
<1> QED BY <1>3, <1>4

\* What all edges together find.
LEMMA ExploreAllLists ==
  ASSUME IInv, NEW source, NEW path, Open(path, source), NEW h \in Nat,
         NEW found \in [Trails -> Seq(Trails)],
         \A p \in Trails : Open(p, source) => Enumerates(found[p], Cycles(p, source, h), Trails)
  PROVE  Enumerates(ExploreAll(found, source, path), Cycles(path, source, h + 1), Trails)
<1> DEFINE onward == Onward(path, source)
           n == Len(onward)
           seqs == [k \in DOMAIN onward |-> Explore(found, source, path, onward[k])]
           X == [k \in 1..n |-> CyclesBy(path, source, h + 1, onward[k])]
<1>1. path \in Trails
  BY DEF Open, Trail
<1>2. Enumerates(onward, Steps(path, source), DOMAIN graph.edges)
  BY OnwardLists
<1>3. n \in Nat /\ DOMAIN onward = 1..n
  BY <1>2, LenProperties DEF Enumerates
<1>4. seqs \in Seq(Seq(Trails)) /\ ExploreAll(found, source, path) = FlattenSeq(seqs)
  BY <1>1, SearchType DEF ExploreAll
<1>5. Len(seqs) = n
  <2>1. DOMAIN seqs = 1..n /\ DOMAIN seqs = 1..Len(seqs) /\ Len(seqs) \in Nat
    BY <1>3, <1>4, LenProperties
  <2> HIDE DEF seqs, n
  <2> QED BY <1>3, <1>4, <2>1
<1>6. \A k \in 1..n : Enumerates(seqs[k], X[k], Trails)
  <2> SUFFICES ASSUME NEW k \in 1..n PROVE Enumerates(seqs[k], X[k], Trails)
    OBVIOUS
  <2>1. onward[k] \in Steps(path, source)
    BY <1>2 DEF Enumerates
  <2>2. seqs[k] = Explore(found, source, path, onward[k])
    BY <1>3
  <2>3. X[k] = CyclesBy(path, source, h + 1, onward[k])
    OBVIOUS
  <2> HIDE DEF seqs, X, onward
  <2>4. Enumerates(Explore(found, source, path, onward[k]), CyclesBy(path, source, h + 1, onward[k]), Trails)
    BY <2>1, ExploreLists
  <2> QED BY <2>2, <2>3, <2>4
<1>7. \A k, l \in 1..n : k # l => X[k] \cap X[l] = {}
  <2> SUFFICES ASSUME NEW k \in 1..n, NEW l \in 1..n, k # l PROVE X[k] \cap X[l] = {}
    OBVIOUS
  <2>1. onward[k] # onward[l]
    BY <1>2 DEF Enumerates
  <2> QED BY <2>1 DEF CyclesBy
<1>8. UNION {X[k] : k \in 1..n} = Cycles(path, source, h + 1)
  <2>1. \A k \in 1..n : X[k] \subseteq Cycles(path, source, h + 1)
    BY DEF CyclesBy
  <2>2. ASSUME NEW c \in Cycles(path, source, h + 1) PROVE \E k \in 1..n : c \in X[k]
    <3>1. c[Len(path) + 1] \in Steps(path, source)
      BY <1>1, CycleGoesOn
    <3>2. PICK k \in 1..n : onward[k] = c[Len(path) + 1]
      BY <1>2, <3>1 DEF Enumerates
    <3>3. c \in X[k]
      BY <3>2 DEF CyclesBy
    <3> QED BY <3>3
  <2> HIDE DEF X, n
  <2> QED BY <2>1, <2>2
<1> HIDE DEF seqs, X, n
<1>9. Enumerates(FlattenSeq(seqs), UNION {X[k] : k \in 1..n}, Trails)
  BY <1>4, <1>5, <1>6, <1>7, FlattenLists
<1> QED BY <1>4, <1>8, <1>9

\* By induction over the hops left: the search lists the cycles from a path.
LEMMA SearchLists ==
  ASSUME IInv, NEW source, NEW n \in Nat
  PROVE  \A h \in 0..n : \A path \in Trails : Open(path, source) =>
           Enumerates(dfs_recurse(source, n)[h][path], Cycles(path, source, h), Trails)
<1> DEFINE f == dfs_recurse(source, n)
           Found(h) == \A path \in Trails : Open(path, source) =>
                         Enumerates(f[h][path], Cycles(path, source, h), Trails)
           T == {h \in Nat : h <= n => Found(h)}
<1>1. /\ \A h \in 0..n : f[h] \in [Trails -> Seq(Trails)]
      /\ \A path \in Trails : f[0][path] = <<>>
      /\ \A h \in 1..n : \A path \in Trails : f[h][path] = ExploreAll(f[h - 1], source, path)
  BY Recursion
<1> HIDE DEF f
<1>2. 0 \in T
  <2> SUFFICES ASSUME NEW path \in Trails
               PROVE  Enumerates(f[0][path], Cycles(path, source, 0), Trails)
    OBVIOUS
  <2>1. Cycles(path, source, 0) = {}
    <3>1. ASSUME NEW c \in Trails, Len(path) < Len(c), Len(c) <= Len(path) + 0 PROVE FALSE
      <4>1. Len(c) \in Nat /\ Len(path) \in Nat
        BY TrailFacts
      <4> QED BY <3>1, <4>1
    <3> QED BY <3>1 DEF Cycles, Begins
  <2> QED BY <1>1, <2>1, ListsNothing
<1>3. ASSUME NEW h \in Nat, h \in T PROVE h + 1 \in T
  <2> SUFFICES ASSUME h + 1 <= n, NEW path \in Trails, Open(path, source)
               PROVE  Enumerates(f[h + 1][path], Cycles(path, source, h + 1), Trails)
    OBVIOUS
  <2>1. h + 1 \in 1..n /\ h \in 0..n /\ (h + 1) - 1 = h
    OBVIOUS
  <2>2. \A p \in Trails : Open(p, source) => Enumerates(f[h][p], Cycles(p, source, h), Trails)
    BY <1>3, <2>1
  <2>3. f[h] \in [Trails -> Seq(Trails)] /\ f[h + 1][path] = ExploreAll(f[h], source, path)
    BY <1>1, <2>1
  <2> QED BY <2>2, <2>3, ExploreAllLists
<1>4. Nat \subseteq T
  <2> HIDE DEF T
  <2> QED BY <1>2, <1>3, SetInduction
<1>5. \A h \in 0..n : Found(h)
  <2> HIDE DEF Found
  <2> QED BY <1>4
<1> QED BY <1>5 DEF f

------------------------------------------------------------------------------
(* The cycles over the quotes *)

\* A pool is not quoted, out in both directions, or quoted in both, and a trip there
\* and back costs twice its fee.
Paired(p) ==
  LET q == Quotes(graph)[p]
  IN  \/ q = <<>>
      \/ q = <<Infinite, Infinite>>
      \/ q \in Int \X Int /\ q[1] + q[2] = 2 * FeeOf[p]

AllPaired == \A p \in Pools : Paired(p)

\* The edges of a pool lead there and back between its two mints, in every reachable graph.
THEOREM QuotesPaired == Spec => [](IInv /\ AllPaired)
<1>1. Init => AllPaired
  <2> SUFFICES ASSUME Init, NEW p \in Pools PROVE Paired(p)
    BY DEF AllPaired
  <2>1. Quotes(graph)[p] = <<>>
    BY InitSound
  <2> QED BY <2>1 DEF Paired
<1>2. IInv /\ AllPaired /\ [Next]_graph => AllPaired'
  <2> SUFFICES ASSUME IInv, AllPaired, [Next]_graph, NEW p \in Pools
               PROVE  Paired(p)'
    BY DEF AllPaired
  <2> DEFINE q == Quotes(graph)[p]
             r == Quotes(graph')[p]
  <2>0. Paired(p)
    BY DEF AllPaired
  <2>1. \/ r = q
        \/ r = <<Infinite, Infinite>>
        \/ \E a, b \in Amounts : r = <<a - b + FeeOf[p], b - a + FeeOf[p]>>
    <3>1. [Board!Next]_(Quotes(graph))
      BY StepSound
    <3>2. Quotes(graph') = Quotes(graph)'
      BY DEF Quotes, WeightOf
    <3>3. DOMAIN Quotes(graph) = Pools
      BY DEF Quotes
    <3>4. CASE Quotes(graph') = Quotes(graph)
      BY <3>4
    <3>5. ASSUME NEW o \in Pools, Board!Quote(o)
          PROVE  r = q \/ \E a, b \in Amounts : r = <<a - b + FeeOf[p], b - a + FeeOf[p]>>
      <4>1. PICK a \in Amounts, b \in Amounts :
              Quotes(graph') = [Quotes(graph) EXCEPT ![o] = <<a - b + FeeOf[o], b - a + FeeOf[o]>>]
        BY <3>2, <3>5 DEF Board!Quote
      <4> QED BY <3>3, <4>1
    <3>6. ASSUME NEW o \in Pools, Board!Withdraw(o)
          PROVE  r = q \/ r = <<Infinite, Infinite>>
      <4>1. Quotes(graph') = [Quotes(graph) EXCEPT ![o] = <<Infinite, Infinite>>]
        BY <3>2, <3>6 DEF Board!Withdraw, Board!Withdrawn
      <4> QED BY <3>3, <4>1
    <3> HIDE DEF q, r
    <3> QED BY <3>1, <3>2, <3>4, <3>5, <3>6 DEF Board!Next
  <2> HIDE DEF q, r
  <2>2. \/ r = <<>>
        \/ r = <<Infinite, Infinite>>
        \/ r \in Int \X Int /\ r[1] + r[2] = 2 * FeeOf[p]
    <3>1. CASE r = q
      BY <2>0, <3>1 DEF Paired, q
    <3>2. CASE r = <<Infinite, Infinite>>
      BY <3>2
    <3>3. CASE \E a, b \in Amounts : r = <<a - b + FeeOf[p], b - a + FeeOf[p]>>
      <4>1. PICK a \in Amounts, b \in Amounts : r = <<a - b + FeeOf[p], b - a + FeeOf[p]>>
        BY <3>3
      <4>2. a \in Int /\ b \in Int /\ FeeOf[p] \in Int
        BY GraphAssumption
      <4> QED BY <4>1, <4>2
    <3> QED BY <2>1, <3>1, <3>2, <3>3
  <2>3. r = Quotes(graph)'[p]
    BY DEF r, Quotes, WeightOf
  <2> QED BY <2>2, <2>3 DEF Paired
<1> QED BY <1>1, <1>2, InitSound, StepSound, PTL DEF Spec

\* An edge carries its pool's quote in its direction.
LEMMA EdgeQuoted ==
  ASSUME IInv, NEW i \in DOMAIN graph.edges
  PROVE  LET hop == <<Edge(i).pool, Edge(i).source_mint>>
         IN  /\ hop \in DOMAIN graph.pool_edge_index /\ graph.pool_edge_index[hop] = i
             /\ Edge(i).pool \in Pools
             /\ OutputOf(hop) = Edge(i).dest_mint
             /\ Quotes(graph)[Edge(i).pool] # <<>>
             /\ Quotes(graph)[Edge(i).pool][SideOf(hop)] = Edge(i).weight
<1> DEFINE p == Edge(i).pool
           hop == <<p, Edge(i).source_mint>>
<1>1. hop \in DOMAIN graph.pool_edge_index /\ graph.pool_edge_index[hop] = i
  BY DEF IInv, Sound, IndexAgrees, Edge
<1>2. p \in Pools
  BY EdgeFacts DEF Edges
<1>3. PICK j \in {1, 2} : /\ Edge(i).source_mint = MintsOf[p][j]
                          /\ Edge(i).dest_mint = MintsOf[p][3 - j]
  BY EdgeFacts
<1>4. MintsOf[p][1] # MintsOf[p][2]
  BY <1>2, GraphAssumption
<1> HIDE DEF p
<1>5. SideOf(hop) = j
  BY <1>3, <1>4 DEF SideOf
<1>6. OutputOf(hop) = Edge(i).dest_mint
  BY <1>3, <1>5 DEF OutputOf
<1>7. hop = <<p, MintsOf[p][j]>>
  BY <1>3
<1>8. <<p, MintsOf[p][1]>> \in DOMAIN graph.pool_edge_index
  BY <1>1, <1>2, <1>7 DEF IInv, BothWays
<1>9. Quotes(graph)[p] = <<WeightOf(graph, p, 1), WeightOf(graph, p, 2)>>
  BY <1>2, <1>8 DEF Quotes
<1>10. Quotes(graph)[p][j] = WeightOf(graph, p, j)
  BY <1>9
<1>11. WeightOf(graph, p, j) = Edge(i).weight
  BY <1>1, <1>7 DEF WeightOf, Edge
<1>12. Quotes(graph)[p] # <<>>
  BY <1>9
<1> QED BY <1>1, <1>2, <1>5, <1>6, <1>10, <1>11, <1>12 DEF p

\* The usable edges are the quoted hops.
LEMMA UsableQuoted ==
  ASSUME IInv, AllPaired
  PROVE  /\ \A i \in DOMAIN graph.edges :
              Usable(i) => <<Edge(i).pool, Edge(i).source_mint>> \in QuotedHops
         /\ \A hop \in QuotedHops :
              /\ hop \in DOMAIN graph.pool_edge_index
              /\ graph.pool_edge_index[hop] \in DOMAIN graph.edges
              /\ Usable(graph.pool_edge_index[hop])
              /\ hop = <<Edge(graph.pool_edge_index[hop]).pool,
                         Edge(graph.pool_edge_index[hop]).source_mint>>
<1>1. ASSUME NEW i \in DOMAIN graph.edges, Usable(i)
      PROVE  <<Edge(i).pool, Edge(i).source_mint>> \in QuotedHops
  <2> DEFINE p == Edge(i).pool
             hop == <<p, Edge(i).source_mint>>
  <2>1. p \in Pools /\ Quotes(graph)[p] # <<>> /\ Quotes(graph)[p][SideOf(hop)] = Edge(i).weight
    BY EdgeQuoted
  <2>2. SideOf(hop) \in {1, 2}
    BY DEF SideOf
  <2>3. Edge(i).weight # Infinite
    BY <1>1 DEF Usable
  <2>4. Quotes(graph)[p] # <<Infinite, Infinite>>
    <3> HIDE DEF p, hop
    <3> QED BY <2>1, <2>2, <2>3
  <2>5. p \in Quoted
    BY <2>1, <2>4 DEF Quoted
  <2>6. \E j \in {1, 2} : Edge(i).source_mint = MintsOf[p][j]
    BY EdgeFacts
  <2> QED BY <2>5, <2>6 DEF QuotedHops
<1>2. ASSUME NEW hop \in QuotedHops
      PROVE  /\ hop \in DOMAIN graph.pool_edge_index
             /\ graph.pool_edge_index[hop] \in DOMAIN graph.edges
             /\ Usable(graph.pool_edge_index[hop])
             /\ hop = <<Edge(graph.pool_edge_index[hop]).pool,
                        Edge(graph.pool_edge_index[hop]).source_mint>>
  <2>1. PICK p \in Quoted, j \in {1, 2} : hop = <<p, MintsOf[p][j]>>
    BY DEF QuotedHops
  <2>2. p \in Pools /\ Quotes(graph)[p] # <<>> /\ Quotes(graph)[p] # <<Infinite, Infinite>>
    BY DEF Quoted
  <2>3. <<p, MintsOf[p][1]>> \in DOMAIN graph.pool_edge_index
    BY <2>2 DEF Quotes
  <2>4. hop \in DOMAIN graph.pool_edge_index
    BY <2>1, <2>2, <2>3 DEF IInv, BothWays
  <2>5. /\ graph.pool_edge_index[hop] \in DOMAIN graph.edges
        /\ hop = <<Edge(graph.pool_edge_index[hop]).pool,
                   Edge(graph.pool_edge_index[hop]).source_mint>>
    BY <2>4 DEF IInv, Sound, IndexAgrees, Edge
  <2>6. Quotes(graph)[p] \in Int \X Int
    BY <2>2 DEF AllPaired, Paired
  <2>7. Quotes(graph)[p][SideOf(hop)] \in Int
    <3>1. SideOf(hop) \in {1, 2}
      BY DEF SideOf
    <3> QED BY <2>6, <3>1
  <2>8. Edge(graph.pool_edge_index[hop]).pool = p
    BY <2>1, <2>5
  <2>9. Edge(graph.pool_edge_index[hop]).weight \in Int
    BY <2>5, <2>7, <2>8, EdgeQuoted
  <2> QED BY <2>4, <2>5, <2>9, GraphAssumption DEF Usable
<1> QED BY <1>1, <1>2

\* The position after k in a cycle of n.
LEMMA NextPosition ==
  ASSUME NEW n \in Nat, NEW k \in 1..n
  PROVE  (k % n) + 1 = IF k = n THEN 1 ELSE k + 1
OBVIOUS

\* Two registered tokens with one index are one token.
LEMMA OneIndex ==
  ASSUME IInv, NEW a \in DOMAIN graph.mint_to_index, NEW b \in DOMAIN graph.mint_to_index,
         graph.mint_to_index[a] = graph.mint_to_index[b]
  PROVE  a = b
BY DEF IInv, Sound, RegistryAgrees

HopOf(i) == <<Edge(i).pool, Edge(i).source_mint>>

\* The profit of a path is that of its hops.
LEMMA HopsGain ==
  ASSUME IInv, NEW path \in Trails
  PROVE  QuotedGain(Hops(path)) = Gain(path)
<1>1. \A k \in DOMAIN path : path[k] \in DOMAIN graph.edges
  BY TrailFacts
<1>2. DOMAIN Hops(path) = DOMAIN path /\ \A k \in DOMAIN path : Hops(path)[k] = HopOf(path[k])
  BY DEF Hops, HopOf
<1>3. \A k \in DOMAIN path :
        Quotes(graph)[Hops(path)[k][1]][SideOf(Hops(path)[k])] = Edge(path[k]).weight
  <2> SUFFICES ASSUME NEW k \in DOMAIN path
               PROVE  Quotes(graph)[Hops(path)[k][1]][SideOf(Hops(path)[k])] = Edge(path[k]).weight
    OBVIOUS
  <2>1. Hops(path)[k] = HopOf(path[k]) /\ Hops(path)[k][1] = Edge(path[k]).pool
    BY <1>2 DEF HopOf
  <2>2. Quotes(graph)[Edge(path[k]).pool][SideOf(HopOf(path[k]))] = Edge(path[k]).weight
    BY <1>1, EdgeQuoted DEF HopOf
  <2> QED BY <2>1, <2>2
<1>4. [k \in DOMAIN Hops(path) |-> Quotes(graph)[Hops(path)[k][1]][SideOf(Hops(path)[k])]]
        = [k \in DOMAIN path |-> Edge(path[k]).weight]
  BY <1>2, <1>3
<1> QED BY <1>4 DEF QuotedGain, Gain

\* Edges follow each other exactly when their hops do.
LEMMA HopsMeet ==
  ASSUME IInv, NEW i \in DOMAIN graph.edges, NEW j \in DOMAIN graph.edges
  PROVE  Edge(i).dest = Edge(j).source <=> OutputOf(HopOf(i)) = InputOf(HopOf(j))
<1>1. OutputOf(HopOf(i)) = Edge(i).dest_mint /\ InputOf(HopOf(j)) = Edge(j).source_mint
  BY EdgeQuoted DEF HopOf, InputOf
<1>2. /\ Edge(i).dest_mint \in DOMAIN graph.mint_to_index
      /\ Edge(i).dest = graph.mint_to_index[Edge(i).dest_mint]
      /\ Edge(j).source_mint \in DOMAIN graph.mint_to_index
      /\ Edge(j).source = graph.mint_to_index[Edge(j).source_mint]
  BY EdgeFacts
<1> QED BY <1>1, <1>2, OneIndex

\* And an edge leaves a token exactly when its hop takes it in.
LEMMA HopsLeave ==
  ASSUME IInv, NEW m \in Indexed, NEW i \in DOMAIN graph.edges
  PROVE  Edge(i).source = graph.mint_to_index[m] <=> InputOf(HopOf(i)) = m
<1>1. InputOf(HopOf(i)) = Edge(i).source_mint
  BY DEF HopOf, InputOf
<1>2. /\ Edge(i).source_mint \in DOMAIN graph.mint_to_index
      /\ Edge(i).source = graph.mint_to_index[Edge(i).source_mint]
  BY EdgeFacts
<1> QED BY <1>1, <1>2, OneIndex DEF Indexed

\* A closed path's hops are an arbitrage cycle.
LEMMA ClosedIsArbitrage ==
  ASSUME IInv, AllPaired, NEW m \in Indexed, MaxHops \in Nat,
         NEW c \in Cycles(<<>>, graph.mint_to_index[m], MaxHops)
  PROVE  Hops(c) \in ArbitragesAt(m)
<1> DEFINE n == Len(c)
           source == graph.mint_to_index[m]
           hops == Hops(c)
<1>1. /\ c \in Trails /\ n \in Nat /\ DOMAIN c = 1..n /\ n \in 2..MaxHops
      /\ \A k \in 1..n : c[k] \in DOMAIN graph.edges
  <2>1. c \in Trails /\ n >= 2 /\ n <= Len(<<>>) + MaxHops
    BY DEF Cycles, Closed
  <2>2. Len(<<>>) = 0 /\ n \in Nat
    BY <2>1, TrailFacts
  <2>3. n \in 2..MaxHops
    BY <2>1, <2>2
  <2> QED BY <2>1, <2>2, <2>3, TrailFacts
<1>2. /\ \A k \in 1..n : /\ Edge(c[k]).source = IF k = 1 THEN source ELSE Edge(c[k - 1]).dest
                         /\ Usable(c[k])
      /\ \A k, l \in 1..n : Edge(c[k]).pool = Edge(c[l]).pool => k = l
      /\ \A k \in 1..n : Edge(c[k]).dest = source <=> k = n
      /\ Profitable(c)
  BY DEF Cycles, Closed, Trail
<1> HIDE DEF n, source
<1>3. \A k \in 1..n : hops[k] = HopOf(c[k])
  BY <1>1 DEF Hops, HopOf
<1>4. \A k \in 1..n : hops[k] \in QuotedHops
  BY <1>1, <1>2, <1>3, UsableQuoted, Zenon DEF HopOf
<1>5. hops \in [1..n -> QuotedHops]
  <2>1. hops = [k \in 1..n |-> hops[k]]
    BY <1>1 DEF Hops
  <2> HIDE DEF hops
  <2> QED BY <1>4, <2>1
<1> HIDE DEF hops
<1>6. Len(hops) = n /\ DOMAIN hops = 1..n
  BY <1>1, <1>5
<1>7. InputOf(hops[1]) = m
  <2>1. 1 \in 1..n
    BY <1>1
  <2>2. Edge(c[1]).source = source
    BY <1>2, <2>1
  <2> QED BY <1>1, <1>3, <2>1, <2>2, HopsLeave DEF source
<1>8. \A k \in 2..n : InputOf(hops[k]) # m
  <2> SUFFICES ASSUME NEW k \in 2..n PROVE InputOf(hops[k]) # m
    OBVIOUS
  <2>1. k \in 1..n /\ k - 1 \in 1..n /\ k # 1 /\ k - 1 # n
    BY <1>1
  <2>2. Edge(c[k]).source # source
    BY <1>2, <2>1
  <2> QED BY <1>1, <1>3, <2>1, <2>2, HopsLeave DEF source
<1>9. \A k \in 1..n : InputOf(hops[(k % n) + 1]) = OutputOf(hops[k])
  <2> SUFFICES ASSUME NEW k \in 1..n PROVE InputOf(hops[(k % n) + 1]) = OutputOf(hops[k])
    OBVIOUS
  <2> DEFINE l == IF k = n THEN 1 ELSE k + 1
  <2>1. (k % n) + 1 = l
    BY <1>1, NextPosition
  <2>2. l \in 1..n
    BY <1>1
  <2>3. Edge(c[l]).source = Edge(c[k]).dest
    <3>1. CASE k = n
      BY <1>2, <2>2, <3>1
    <3>2. CASE k # n
      <4>1. l = k + 1 /\ l # 1 /\ l - 1 = k
        BY <3>2
      <4> HIDE DEF l
      <4> QED BY <1>2, <2>2, <4>1
    <3> QED BY <3>1, <3>2
  <2> HIDE DEF l
  <2>4. OutputOf(HopOf(c[k])) = InputOf(HopOf(c[l]))
    BY <1>1, <2>2, <2>3, HopsMeet
  <2> QED BY <1>3, <2>1, <2>2, <2>4
<1>10. \A k, l \in 1..n : hops[k][1] = hops[l][1] => k = l
  BY <1>2, <1>3 DEF HopOf
<1>11. QuotedGain(hops) > MinGain
  BY <1>1, <1>2, HopsGain DEF hops, Profitable
<1>12. IsArbitrage(hops)
  BY <1>6, <1>9, <1>10, <1>11 DEF IsArbitrage, IsCycle
<1>13. hops \in UNION {[1..k -> QuotedHops] : k \in 2..MaxHops}
  BY <1>1, <1>5
<1>14. hops \in ArbitragesAt(m)
  BY <1>6, <1>7, <1>8, <1>12, <1>13 DEF ArbitragesAt
<1> QED BY <1>14 DEF hops

\* And every arbitrage cycle is the hops of a closed path: the edges that the index
\* finds for them.
LEMMA ArbitrageIsClosed ==
  ASSUME IInv, AllPaired, NEW m \in Indexed, NEW hops \in ArbitragesAt(m)
  PROVE  \E c \in Cycles(<<>>, graph.mint_to_index[m], MaxHops) : Hops(c) = hops
<1> DEFINE source == graph.mint_to_index[m]
<1>1. PICK n \in 2..MaxHops : hops \in [1..n -> QuotedHops]
  BY DEF ArbitragesAt
<1>2. n \in Nat /\ Len(hops) = n /\ DOMAIN hops = 1..n /\ n >= 2 /\ n <= MaxHops
  BY <1>1, SearchAssumption
<1>3. /\ InputOf(hops[1]) = m
      /\ \A k \in 2..n : InputOf(hops[k]) # m
      /\ \A k \in 1..n : InputOf(hops[(k % n) + 1]) = OutputOf(hops[k])
      /\ \A k, l \in 1..n : hops[k][1] = hops[l][1] => k = l
      /\ QuotedGain(hops) > MinGain
  BY <1>2 DEF ArbitragesAt, IsArbitrage, IsCycle
<1> DEFINE c == [k \in 1..n |-> graph.pool_edge_index[hops[k]]]
<1>4. \A k \in 1..n : /\ c[k] \in DOMAIN graph.edges /\ Usable(c[k])
                      /\ hops[k] = HopOf(c[k])
  <2> SUFFICES ASSUME NEW k \in 1..n
               PROVE  c[k] \in DOMAIN graph.edges /\ Usable(c[k]) /\ hops[k] = HopOf(c[k])
    OBVIOUS
  <2>1. hops[k] \in QuotedHops
    BY <1>1
  <2> QED BY <2>1, UsableQuoted DEF HopOf
<1>5. c \in [1..n -> DOMAIN graph.edges]
  BY <1>4
<1> HIDE DEF c
<1>6. c \in Trails /\ Len(c) = n /\ DOMAIN c = 1..n
  BY <1>2, <1>5 DEF Trails
<1>7. Hops(c) = hops
  <2>1. Hops(c) = [k \in 1..n |-> HopOf(c[k])]
    BY <1>6 DEF Hops, HopOf
  <2>2. hops = [k \in 1..n |-> hops[k]]
    BY <1>1
  <2> QED BY <1>4, <2>1, <2>2
<1>8. \A k \in 1..n : Edge(c[k]).source = source <=> k = 1
  <2> SUFFICES ASSUME NEW k \in 1..n PROVE Edge(c[k]).source = source <=> k = 1
    OBVIOUS
  <2>1. k = 1 \/ k \in 2..n
    BY <1>2
  <2>2. InputOf(HopOf(c[k])) = m <=> k = 1
    BY <1>3, <1>4, <2>1
  <2> QED BY <1>4, <2>2, HopsLeave
<1>9. \A k \in 1..n : Edge(c[k]).dest = Edge(c[IF k = n THEN 1 ELSE k + 1]).source
  <2> SUFFICES ASSUME NEW k \in 1..n
               PROVE  Edge(c[k]).dest = Edge(c[IF k = n THEN 1 ELSE k + 1]).source
    OBVIOUS
  <2> DEFINE l == IF k = n THEN 1 ELSE k + 1
  <2>1. (k % n) + 1 = l
    BY <1>2, NextPosition
  <2>2. l \in 1..n
    BY <1>2
  <2> HIDE DEF l
  <2>3. OutputOf(HopOf(c[k])) = InputOf(HopOf(c[l]))
    BY <1>3, <1>4, <2>1, <2>2
  <2>4. Edge(c[k]).dest = Edge(c[l]).source
    BY <1>4, <2>2, <2>3, HopsMeet
  <2> QED BY <2>4 DEF l
<1>10. \A k \in 1..n : Edge(c[k]).source = IF k = 1 THEN source ELSE Edge(c[k - 1]).dest
  <2> SUFFICES ASSUME NEW k \in 1..n, k # 1
               PROVE  Edge(c[k]).source = Edge(c[k - 1]).dest
    BY <1>8
  <2>1. k - 1 \in 1..n /\ k - 1 # n /\ (k - 1) + 1 = k
    BY <1>2
  <2> QED BY <1>9, <2>1
<1>11. \A k \in 1..n : Edge(c[k]).dest = source <=> k = n
  <2> SUFFICES ASSUME NEW k \in 1..n PROVE Edge(c[k]).dest = source <=> k = n
    OBVIOUS
  <2> DEFINE l == IF k = n THEN 1 ELSE k + 1
  <2>1. l \in 1..n /\ (l = 1 <=> k = n)
    BY <1>2
  <2>2. Edge(c[k]).dest = Edge(c[l]).source
    BY <1>9
  <2> HIDE DEF l
  <2> QED BY <1>8, <2>1, <2>2
<1>12. \A k, l \in 1..n : Edge(c[k]).pool = Edge(c[l]).pool => k = l
  BY <1>3, <1>4 DEF HopOf
<1>13. Profitable(c)
  BY <1>3, <1>6, <1>7, HopsGain DEF Profitable
<1>14. Trail(c, source)
  BY <1>4, <1>6, <1>10, <1>12 DEF Trail
<1>15. Closed(c, source)
  BY <1>2, <1>6, <1>11, <1>13, <1>14 DEF Closed
<1>16. Len(<<>>) = 0 /\ Begins(<<>>, c)
  BY <1>2, <1>6 DEF Begins
<1>17. c \in Cycles(<<>>, source, MaxHops)
  BY <1>2, <1>6, <1>15, <1>16, SearchAssumption DEF Cycles
<1> QED BY <1>7, <1>17

\* The depth-first search finds the profitable cycles through distinct pools within the
\* hop limit, each once and no others, in every graph that updates and removals build:
\* whatever the pools, the tokens, the reserves and the order they came in.
THEOREM DepthFirstExact == Spec => []DfsExact
<1>1. IInv /\ AllPaired => DfsExact
  <2> SUFFICES ASSUME IInv, AllPaired, NEW m \in Anchors \cap Indexed
               PROVE  LET found == find_cycles_dfs(graph.mint_to_index[m])
                      IN  /\ IsInjective(found)
                          /\ {Hops(found[k]) : k \in DOMAIN found} = ArbitragesAt(m)
    BY DEF DfsExact
  <2> DEFINE source == graph.mint_to_index[m]
             found == find_cycles_dfs(source)
  <2>1. MaxHops \in Nat /\ MaxHops \in 0..MaxHops /\ <<>> \in Trails
    BY SearchAssumption, EmptySeq DEF Trails
  <2>2. Open(<<>>, source)
    <3>1. Len(<<>>) = 0 /\ 1..0 = {}
      OBVIOUS
    <3> QED BY <2>1, <3>1 DEF Open, Trail
  <2>3. Enumerates(found, Cycles(<<>>, source, MaxHops), Trails)
    BY <2>1, <2>2, SearchLists DEF find_cycles_dfs
  <2> HIDE DEF found
  <2>4. DOMAIN found = 1..Len(found)
    BY <2>3, LenProperties DEF Enumerates
  <2>5. IsInjective(found)
    BY <2>3, <2>4 DEF Enumerates, IsInjective
  <2>6. \A k \in DOMAIN found : Hops(found[k]) \in ArbitragesAt(m)
    BY <2>1, <2>3, <2>4, ClosedIsArbitrage DEF Enumerates
  <2>7. \A hops \in ArbitragesAt(m) : \E k \in DOMAIN found : Hops(found[k]) = hops
    <3> SUFFICES ASSUME NEW hops \in ArbitragesAt(m)
                 PROVE  \E k \in DOMAIN found : Hops(found[k]) = hops
      OBVIOUS
    <3>1. PICK c \in Cycles(<<>>, source, MaxHops) : Hops(c) = hops
      BY ArbitrageIsClosed
    <3> QED BY <2>3, <2>4, <3>1 DEF Enumerates
  <2> QED BY <2>5, <2>6, <2>7 DEF found
<1> QED BY <1>1, QuotesPaired, PTL


------------------------------------------------------------------------------
(* find_arbitrage_from: the relaxation *)

\* Predecessors are usable edges into their nodes.
Predecessors ==
  {pred \in [Nodes -> {NoEdge} \cup DOMAIN graph.edges] :
     \A v \in Nodes : pred[v] # NoEdge => Usable(pred[v]) /\ Edge(pred[v]).dest = v}

States == [dist : [Nodes -> Int \cup {Infinite}], predecessor : Predecessors]

\* Nodes are numbered from 1 and edges join them.
LEMMA NodeFacts ==
  ASSUME IInv
  PROVE  /\ Len(graph.index_to_mint) \in Nat /\ Nodes = 1..Len(graph.index_to_mint)
         /\ NoEdge \notin Nodes
         /\ Len(graph.edges) \in Nat /\ DOMAIN graph.edges = 1..Len(graph.edges)
         /\ NoEdge \notin DOMAIN graph.edges
         /\ \A m \in Indexed : graph.mint_to_index[m] \in Nodes
         /\ \A i \in DOMAIN graph.edges :
              /\ Edge(i).source \in Nodes /\ Edge(i).dest \in Nodes
              /\ Edge(i).weight \in Int \cup {Infinite}
<1>1. Sound(graph)
  BY DEF IInv
<1>2. graph.index_to_mint \in Seq(Mints) /\ graph.edges \in Seq(Edges)
  BY <1>1 DEF Sound, Graphs
<1>3. /\ Len(graph.index_to_mint) \in Nat /\ Nodes = 1..Len(graph.index_to_mint)
      /\ Len(graph.edges) \in Nat /\ DOMAIN graph.edges = 1..Len(graph.edges)
  BY <1>2, LenProperties DEF Nodes
<1>4. \A m \in Indexed : graph.mint_to_index[m] \in Nodes
  BY <1>1 DEF Sound, RegistryAgrees, Nodes, Indexed
<1>5. ASSUME NEW i \in DOMAIN graph.edges
      PROVE  /\ Edge(i).source \in Nodes /\ Edge(i).dest \in Nodes
             /\ Edge(i).weight \in Int \cup {Infinite}
  <2>1. /\ Edge(i) \in Edges
        /\ Edge(i).source_mint \in Indexed /\ Edge(i).dest_mint \in Indexed
        /\ Edge(i).source = graph.mint_to_index[Edge(i).source_mint]
        /\ Edge(i).dest = graph.mint_to_index[Edge(i).dest_mint]
    BY EdgeFacts DEF Indexed
  <2>2. Edge(i).weight \in Int \cup {Infinite}
    BY <2>1 DEF Edges
  <2> QED BY <1>4, <2>1, <2>2
<1>6. NoEdge \notin Nodes /\ NoEdge \notin DOMAIN graph.edges
  BY <1>3 DEF NoEdge
<1> QED BY <1>3, <1>4, <1>5, <1>6

\* The distances a Bellman-Ford run starts with are a state of it.
LEMMA StartSound ==
  ASSUME IInv, NEW source
  PROVE  Start(source) \in States
<1> DEFINE d == [n \in Nodes |-> IF n = source THEN 0 ELSE Infinite]
           p == [n \in Nodes |-> NoEdge]
<1>1. d \in [Nodes -> Int \cup {Infinite}]
  OBVIOUS
<1>2. p \in Predecessors
  BY DEF Predecessors
<1> HIDE DEF d, p
<1>3. [dist |-> d, predecessor |-> p] \in States
  BY <1>1, <1>2 DEF States
<1> QED BY <1>3 DEF d, p, Start

\* A relaxation step keeps the predecessors usable edges into their nodes.
LEMMA RelaxSound ==
  ASSUME IInv, NEW state \in States, NEW i \in DOMAIN graph.edges
  PROVE  Relax(state, i) \in States
<1>1. CASE ~Shortens(state, i)
  BY <1>1 DEF Relax
<1>2. CASE Shortens(state, i)
  <2> DEFINE u == Edge(i).source
             v == Edge(i).dest
             w == state.dist[u] + Edge(i).weight
             d == [state.dist EXCEPT ![v] = w]
             p == [state.predecessor EXCEPT ![v] = i]
  <2>1. state.dist \in [Nodes -> Int \cup {Infinite}] /\ state.predecessor \in Predecessors
    BY DEF States
  <2>2. u \in Nodes /\ v \in Nodes /\ Edge(i).weight \in Int \cup {Infinite}
    BY NodeFacts
  <2>3. Usable(i) /\ state.dist[u] # Infinite /\ Edge(i).weight # Infinite
    BY <1>2 DEF Shortens, Usable
  <2>4. w \in Int
    BY <2>1, <2>2, <2>3
  <2>5. d \in [Nodes -> Int \cup {Infinite}]
    <3> HIDE DEF w
    <3> QED BY <2>1, <2>2, <2>4
  <2>6. p \in Predecessors
    <3>1. p \in [Nodes -> {NoEdge} \cup DOMAIN graph.edges]
      BY <2>1, <2>2 DEF Predecessors
    <3>2. \A x \in Nodes : p[x] # NoEdge => Usable(p[x]) /\ Edge(p[x]).dest = x
      BY <2>1, <2>2, <2>3 DEF Predecessors
    <3> HIDE DEF p
    <3> QED BY <3>1, <3>2 DEF Predecessors
  <2>7. Relax(state, i) = [dist |-> d, predecessor |-> p]
    BY <1>2, <2>1 DEF Relax, States
  <2> HIDE DEF d, p
  <2> QED BY <2>5, <2>6, <2>7 DEF States
<1> QED BY <1>1, <1>2

\* So do a pass over the edges and all the passes.
LEMMA RelaxAllSound ==
  ASSUME IInv, NEW state \in States
  PROVE  RelaxAll(state) \in States
<1> DEFINE n == Len(graph.edges)
           step == [i \in 1..n |-> [x \in States |-> Relax(x, i)]]
           E(q) == q = [i \in 0..Len(graph.edges) |->
                         IF i = 0 THEN state ELSE Relax(q[i - 1], i)]
           f == CHOOSE q : E(q)
<1>0. n \in Nat /\ \A i \in 1..n : \A x \in States : Relax(x, i) \in States
  BY NodeFacts, RelaxSound
<1>1. step \in [1..n -> [States -> States]]
  BY <1>0
<1>2. PICK p : Follows(p, States, state, n, step)
  <2> HIDE DEF step, n
  <2> QED BY <1>0, <1>1, StepsExist, Zenon
<1>3. p \in [0..n -> States] /\ p[0] = state /\ \A k \in 1..n : p[k] = step[k][p[k - 1]]
  BY <1>2, Zenon DEF Follows
<1>4. \A k \in 1..n : p[k] = Relax(p[k - 1], k)
  <2> SUFFICES ASSUME NEW k \in 1..n PROVE p[k] = Relax(p[k - 1], k)
    OBVIOUS
  <2>1. p[k - 1] \in States
    BY <1>0, <1>3
  <2> QED BY <1>3, <2>1
<1>5. E(p)
  BY <1>0, <1>3, <1>4
<1>6. RelaxAll(state) = f[n]
  BY DEF RelaxAll
<1>7. E(f)
  <2> HIDE DEF E
  <2> QED BY <1>5
<1> HIDE DEF f
<1>8. f[0] \in States /\ \A k \in 1..n : f[k - 1] \in States => f[k] \in States
  BY <1>0, <1>7
<1>9. \A k \in 0..n : f[k] \in States
  <2> HIDE DEF n, E
  <2> QED BY <1>0, <1>8, StepsStay
<1>10. n \in 0..n
  BY <1>0
<1> QED BY <1>6, <1>9, <1>10

\* Every predecessor left by the passes over the edges is an edge into its node.
LEMMA RelaxedSound ==
  ASSUME IInv, NEW source, Nodes # {}
  PROVE  Relaxed(source) \in States
<1> DEFINE n == Len(graph.index_to_mint) - 1
           step == [i \in 1..n |-> [x \in States |-> RelaxAll(x)]]
           E(q) == q = [i \in 0..n |-> IF i = 0 THEN Start(source) ELSE RelaxAll(q[i - 1])]
           f == CHOOSE q : E(q)
<1>0. n \in Nat /\ Start(source) \in States /\ \A x \in States : RelaxAll(x) \in States
  BY NodeFacts, RelaxAllSound, StartSound
<1>1. step \in [1..n -> [States -> States]]
  BY <1>0
<1>2. PICK p : Follows(p, States, Start(source), n, step)
  <2> HIDE DEF step, n
  <2> QED BY <1>0, <1>1, StepsExist, Zenon
<1>3. /\ p \in [0..n -> States] /\ p[0] = Start(source)
      /\ \A k \in 1..n : p[k] = step[k][p[k - 1]]
  BY <1>2, Zenon DEF Follows
<1>4. \A k \in 1..n : p[k] = RelaxAll(p[k - 1])
  <2> SUFFICES ASSUME NEW k \in 1..n PROVE p[k] = RelaxAll(p[k - 1])
    OBVIOUS
  <2>1. p[k - 1] \in States
    BY <1>0, <1>3
  <2> QED BY <1>3, <2>1
<1>5. E(p)
  <2> HIDE DEF n
  <2> QED BY <1>0, <1>3, <1>4
<1>6. Relaxed(source) = f[n]
  BY DEF Relaxed
<1>7. E(f)
  <2> HIDE DEF E
  <2> QED BY <1>5
<1> HIDE DEF f, n
<1>8. f[0] \in States /\ \A k \in 1..n : f[k - 1] \in States => f[k] \in States
  BY <1>0, <1>7
<1>9. \A k \in 0..n : f[k] \in States
  <2> HIDE DEF E
  <2> QED BY <1>0, <1>8, StepsStay
<1>10. n \in 0..n
  BY <1>0
<1> QED BY <1>6, <1>9, <1>10

------------------------------------------------------------------------------
(* trace_cycle: walks back along the predecessors *)

Size == Len(graph.index_to_mint)

\* A node one step back is a node or missing, and nothing is before what is missing.
LEMMA BeforeFacts ==
  ASSUME IInv, NEW state \in States, NEW v \in Nodes \cup {NoEdge}
  PROVE  /\ Before(state, v) \in Nodes \cup {NoEdge}
         /\ v = NoEdge => Before(state, v) = NoEdge
         /\ Before(state, v) # NoEdge =>
              /\ v \in Nodes
              /\ state.predecessor[v] \in DOMAIN graph.edges
              /\ Usable(state.predecessor[v])
              /\ Edge(state.predecessor[v]).dest = v
              /\ Edge(state.predecessor[v]).source = Before(state, v)
<1>1. state.predecessor \in Predecessors
  BY DEF States
<1>2. CASE v = NoEdge
  BY <1>2 DEF Before
<1>3. CASE v \in Nodes
  <2>1. /\ state.predecessor[v] \in {NoEdge} \cup DOMAIN graph.edges
        /\ state.predecessor[v] # NoEdge =>
             Usable(state.predecessor[v]) /\ Edge(state.predecessor[v]).dest = v
    BY <1>1, <1>3 DEF Predecessors
  <2>2. v # NoEdge /\ NoEdge \notin DOMAIN graph.edges
    BY <1>3, NodeFacts
  <2>3. CASE state.predecessor[v] = NoEdge
    BY <2>2, <2>3 DEF Before
  <2>4. CASE state.predecessor[v] \in DOMAIN graph.edges
    <3>1. state.predecessor[v] # NoEdge
      BY <2>2, <2>4
    <3>2. Before(state, v) = Edge(state.predecessor[v]).source
      BY <2>2, <3>1 DEF Before
    <3>3. Edge(state.predecessor[v]).source \in Nodes
      BY <2>4, NodeFacts
    <3> QED BY <1>3, <2>1, <2>2, <2>4, <3>1, <3>2, <3>3
  <2> QED BY <2>1, <2>3, <2>4
<1> QED BY <1>2, <1>3

\* The walk back, step by step.
LEMMA AncestorsAre ==
  ASSUME IInv, NEW state \in States, NEW v \in Nodes \cup {NoEdge}
  PROVE  /\ Ancestors(state, v)[0] = v
         /\ \A k \in 1..Size : Ancestors(state, v)[k] = Before(state, Ancestors(state, v)[k - 1])
         /\ \A k \in 0..Size : Ancestors(state, v)[k] \in Nodes \cup {NoEdge}
<1> DEFINE n == Size
           S == Nodes \cup {NoEdge}
           step == [i \in 1..n |-> [x \in S |-> Before(state, x)]]
           E(q) == q = [i \in 0..n |-> IF i = 0 THEN v ELSE Before(state, q[i - 1])]
           f == Ancestors(state, v)
<1>0. n \in Nat /\ \A x \in S : Before(state, x) \in S
  BY NodeFacts, BeforeFacts DEF Size
<1>1. step \in [1..n -> [S -> S]]
  <2> HIDE DEF S
  <2> QED BY <1>0
<1>2. PICK p : Follows(p, S, v, n, step)
  <2> HIDE DEF step, n, S
  <2> QED BY <1>0, <1>1, StepsExist, Zenon DEF S
<1>3. p \in [0..n -> S] /\ p[0] = v /\ \A k \in 1..n : p[k] = step[k][p[k - 1]]
  BY <1>2, Zenon DEF Follows
<1>4. \A k \in 1..n : p[k] = Before(state, p[k - 1])
  <2> HIDE DEF S
  <2> SUFFICES ASSUME NEW k \in 1..n PROVE p[k] = Before(state, p[k - 1])
    OBVIOUS
  <2>1. p[k - 1] \in S
    BY <1>0, <1>3
  <2> QED BY <1>3, <2>1
<1>5. E(p)
  <2> HIDE DEF n, S
  <2> QED BY <1>0, <1>3, <1>4
<1>6. f = CHOOSE q : E(q)
  BY DEF Ancestors, Size
<1>7. E(f)
  <2> HIDE DEF E, f
  <2> QED BY <1>5, <1>6
<1> HIDE DEF f, n, S
<1>8. f[0] = v /\ \A k \in 1..n : f[k] = Before(state, f[k - 1])
  BY <1>0, <1>7
<1>9. \A k \in 0..n : f[k] \in S
  <2>1. f[0] \in S /\ \A k \in 1..n : f[k - 1] \in S => f[k] \in S
    BY <1>0, <1>8 DEF S
  <2> HIDE DEF E
  <2> QED BY <1>0, <2>1, StepsStay
<1> QED BY <1>8, <1>9 DEF f, n, S

\* A walk from a node of a walk is the rest of that walk.
LEMMA WalksGoOn ==
  ASSUME IInv, NEW state \in States, NEW v \in Nodes \cup {NoEdge}, NEW k \in 0..Size
  PROVE  \A t \in Nat : k + t <= Size =>
           Ancestors(state, Ancestors(state, v)[k])[t] = Ancestors(state, v)[k + t]
<1> DEFINE a == Ancestors(state, v)
           b == Ancestors(state, a[k])
           T == {t \in Nat : k + t <= Size => b[t] = a[k + t]}
<1>0. Size \in Nat
  BY NodeFacts DEF Size
<1>1. /\ a[0] = v /\ \A j \in 1..Size : a[j] = Before(state, a[j - 1])
      /\ a[k] \in Nodes \cup {NoEdge}
  BY AncestorsAre
<1> HIDE DEF a
<1>2. b[0] = a[k] /\ \A j \in 1..Size : b[j] = Before(state, b[j - 1])
  BY <1>1, AncestorsAre
<1> HIDE DEF b
<1>3. 0 \in T
  BY <1>0, <1>2
<1>4. ASSUME NEW t \in Nat, t \in T PROVE t + 1 \in T
  <2> SUFFICES ASSUME k + (t + 1) <= Size PROVE b[t + 1] = a[k + (t + 1)]
    BY <1>4
  <2>1. /\ t + 1 \in 1..Size /\ (t + 1) - 1 = t
        /\ k + (t + 1) \in 1..Size /\ (k + (t + 1)) - 1 = k + t /\ k + t <= Size
    BY <1>0
  <2>2. b[t] = a[k + t]
    BY <1>4, <2>1
  <2>3. b[t + 1] = Before(state, b[t])
    BY <1>2, <2>1
  <2>4. a[k + (t + 1)] = Before(state, a[k + t])
    BY <1>1, <2>1
  <2> QED BY <2>2, <2>3, <2>4
<1>5. Nat \subseteq T
  <2> HIDE DEF T
  <2> QED BY <1>3, <1>4, SetInduction
<1> QED BY <1>5 DEF a, b

\* What a walk still finds after t steps, it found all along.
LEMMA WalkUnbroken ==
  ASSUME IInv, NEW state \in States, NEW v \in Nodes \cup {NoEdge}, NEW n \in 0..Size,
         Ancestors(state, v)[n] # NoEdge
  PROVE  \A k \in 0..n : Ancestors(state, v)[k] \in Nodes
<1> DEFINE a == Ancestors(state, v)
           T == {t \in Nat : t <= n => a[n - t] \in Nodes}
<1>0. Size \in Nat /\ NoEdge \notin Nodes
  BY NodeFacts DEF Size
<1>1. /\ \A j \in 1..Size : a[j] = Before(state, a[j - 1])
      /\ \A j \in 0..Size : a[j] \in Nodes \cup {NoEdge}
  BY AncestorsAre
<1>2. 0 \in T
  BY <1>0, <1>1
<1> HIDE DEF a
<1>3. ASSUME NEW t \in Nat, t \in T PROVE t + 1 \in T
  <2> SUFFICES ASSUME t + 1 <= n PROVE a[n - (t + 1)] \in Nodes
    BY <1>3
  <2>1. /\ n - t \in 1..Size /\ (n - t) - 1 = n - (t + 1)
        /\ n - (t + 1) \in 0..Size /\ t <= n
    BY <1>0
  <2>2. a[n - t] \in Nodes /\ a[n - t] = Before(state, a[n - (t + 1)])
    BY <1>1, <1>3, <2>1
  <2>3. a[n - (t + 1)] \in Nodes \cup {NoEdge}
    BY <1>1, <2>1
  <2> QED BY <1>0, <2>2, <2>3, BeforeFacts
<1>4. Nat \subseteq T
  <2> HIDE DEF T
  <2> QED BY <1>2, <1>3, SetInduction
<1>5. ASSUME NEW k \in 0..n PROVE a[k] \in Nodes
  <2>1. n - k \in Nat /\ n - k <= n /\ n - (n - k) = k
    BY <1>0
  <2> QED BY <1>4, <2>1
<1> QED BY <1>5 DEF a

\* A node that its own walk comes back to.
Cyclic(state, v) == v \in Nodes /\ \E k \in 1..Size : Ancestors(state, v)[k] = v

\* A walk as long as there are nodes ends on a cycle: it meets some node twice and
\* goes round from there on.
LEMMA LongWalksCycle ==
  ASSUME IInv, NEW state \in States, NEW v \in Nodes, Ancestors(state, v)[Size] # NoEdge
  PROVE  Cyclic(state, Ancestors(state, v)[Size])
<1> DEFINE a == Ancestors(state, v)
           n == Size
           visit == [k \in 0..n |-> a[k]]
<1>0. n \in Nat /\ Nodes = 1..n
  BY NodeFacts DEF Size
<1>1. \A k \in 0..n : a[k] \in Nodes
  BY <1>0, WalkUnbroken
<1> HIDE DEF a, n
<1>2. visit \in [0..n -> 1..n]
  BY <1>0, <1>1
<1>3. /\ IsFiniteSet(0..n) /\ IsFiniteSet(1..n)
      /\ Cardinality(1..n) < Cardinality(0..n)
  <2>1. /\ IsFiniteSet(0..n) /\ IsFiniteSet(1..n)
        /\ Cardinality(0..n) = IF 0 > n THEN 0 ELSE n - 0 + 1
        /\ Cardinality(1..n) = IF 1 > n THEN 0 ELSE n - 1 + 1
    BY <1>0, FS_Interval
  <2> QED BY <1>0, <2>1
<1>4. PICK x \in 0..n, y \in 0..n : x # y /\ visit[x] = visit[y]
  <2> HIDE DEF visit
  <2> QED BY <1>2, <1>3, FS_PigeonHole
<1>5. PICK i \in 0..n, j \in 0..n : i < j /\ a[i] = a[j]
  <2>1. a[x] = a[y] /\ (x < y \/ y < x)
    BY <1>0, <1>4
  <2> QED BY <2>1
<1> DEFINE d == j - i
           rest == n - j
           w == a[n]
<1>6. d \in 1..n /\ rest \in Nat /\ i + rest \in 0..n /\ (i + rest) + d = n /\ j + rest = n
  BY <1>0, <1>5
<1> HIDE DEF d, rest
<1>7. a[i + rest] = a[j + rest]
  <2>1. /\ Ancestors(state, a[i])[rest] = a[i + rest]
        /\ Ancestors(state, a[j])[rest] = a[j + rest]
    BY <1>0, <1>5, <1>6, WalksGoOn DEF a, n
  <2> QED BY <1>5, <2>1
<1>8. Ancestors(state, a[i + rest])[d] = a[(i + rest) + d]
  <2>1. d \in Nat /\ (i + rest) + d <= n
    BY <1>0, <1>6
  <2> QED BY <1>6, <2>1, WalksGoOn DEF a, n
<1>9. Ancestors(state, w)[d] = w
  BY <1>6, <1>7, <1>8
<1>10. w \in Nodes
  BY <1>0, <1>1
<1> QED BY <1>6, <1>9, <1>10 DEF Cyclic, a, n

\* The period is the first return, and until then no node comes twice.
LEMMA PeriodFacts ==
  ASSUME IInv, NEW state \in States, NEW v, Cyclic(state, v)
  PROVE  LET b == Ancestors(state, v)
             p == Period(state, v)
         IN  /\ p \in 1..Size /\ b[0] = v /\ b[p] = v
             /\ \A k \in 0..p : b[k] \in Nodes
             /\ \A k \in 1..p : b[k] = Before(state, b[k - 1])
             /\ \A k, l \in 0..(p - 1) : b[k] = b[l] => k = l
<1> DEFINE b == Ancestors(state, v)
           p == Period(state, v)
           M == {k \in 1..Size : b[k] = v}
<1>0. Size \in Nat /\ v \in Nodes /\ NoEdge \notin Nodes
  BY NodeFacts DEF Size, Cyclic
<1>1. b[0] = v /\ \A k \in 1..Size : b[k] = Before(state, b[k - 1])
  BY <1>0, AncestorsAre
<1>2. \E k \in 1..Size : b[k] = v /\ \A j \in 1..(k - 1) : b[j] # v
  <2>1. M \subseteq Nat /\ M # {}
    BY <1>0 DEF Cyclic
  <2>2. PICK k \in M : \A j \in M : k <= j
    <3> HIDE DEF M
    <3> QED BY <2>1, LeastElement
  <2>3. k \in 1..Size /\ b[k] = v
    BY <2>2
  <2>4. \A j \in 1..(k - 1) : b[j] # v
    <3> SUFFICES ASSUME NEW j \in 1..(k - 1), b[j] = v PROVE FALSE
      OBVIOUS
    <3>1. j \in 1..Size /\ ~(k <= j)
      BY <1>0, <2>3
    <3> QED BY <2>2, <3>1
  <2> QED BY <2>3, <2>4
<1>3. p \in 1..Size /\ b[p] = v /\ \A j \in 1..(p - 1) : b[j] # v
  BY <1>2 DEF Period, Size
<1> HIDE DEF p
<1>4. \A k \in 0..p : b[k] \in Nodes
  <2>1. p \in 0..Size /\ b[p] # NoEdge
    BY <1>0, <1>3
  <2> QED BY <1>0, <2>1, WalkUnbroken
<1> HIDE DEF b
<1>5. ASSUME NEW k \in 0..(p - 1), NEW l \in 0..(p - 1), b[k] = b[l], k < l PROVE FALSE
  <2> DEFINE t == p - l
  <2>1. /\ k \in 0..Size /\ l \in 0..Size /\ t \in Nat
        /\ k + t <= Size /\ l + t <= Size /\ l + t = p /\ k + t \in 1..(p - 1)
    BY <1>0, <1>3, <1>5
  <2> HIDE DEF t
  <2>2. Ancestors(state, b[k])[t] = b[k + t] /\ Ancestors(state, b[l])[t] = b[l + t]
    BY <1>0, <2>1, WalksGoOn DEF b
  <2>3. b[k + t] = v
    BY <1>3, <1>5, <2>1, <2>2
  <2> QED BY <1>3, <2>1, <2>3
<1>6. \A k, l \in 0..(p - 1) : b[k] = b[l] => k = l
  <2> SUFFICES ASSUME NEW k \in 0..(p - 1), NEW l \in 0..(p - 1), b[k] = b[l] PROVE k = l
    OBVIOUS
  <2>1. ~(k < l) /\ ~(l < k)
    BY <1>5
  <2> QED BY <2>1
<1>7. \A k \in 1..p : b[k] = Before(state, b[k - 1])
  BY <1>0, <1>1, <1>3
<1> QED BY <1>1, <1>3, <1>4, <1>6, <1>7 DEF b, p

\* The traced edges lead from node to node, through every node of the walk once.
LEMMA TraceFacts ==
  ASSUME IInv, NEW state \in States, NEW v, Cyclic(state, v)
  PROVE  LET b == Ancestors(state, v)
             p == Period(state, v)
             c == trace_cycle(state, v)
         IN  /\ c \in Trails /\ Len(c) = p /\ DOMAIN c = 1..p
             /\ \A k \in 1..p : /\ c[k] \in DOMAIN graph.edges /\ Usable(c[k])
                                /\ Edge(c[k]).dest = b[p - k]
                                /\ Edge(c[k]).source = b[p - k + 1]
<1> DEFINE b == Ancestors(state, v)
           p == Period(state, v)
           c == trace_cycle(state, v)
<1>0. Size \in Nat /\ NoEdge \notin Nodes
  BY NodeFacts DEF Size
<1>1. /\ p \in 1..Size
      /\ \A k \in 0..p : b[k] \in Nodes
      /\ \A k \in 1..p : b[k] = Before(state, b[k - 1])
  BY PeriodFacts
<1>2. c = [j \in 1..p |-> state.predecessor[b[p - j]]]
  BY DEF trace_cycle
<1> HIDE DEF b, p, c
<1>3. ASSUME NEW k \in 1..p
      PROVE  /\ c[k] \in DOMAIN graph.edges /\ Usable(c[k])
             /\ Edge(c[k]).dest = b[p - k]
             /\ Edge(c[k]).source = b[p - k + 1]
  <2>1. p - k \in 0..p /\ p - k + 1 \in 1..p /\ p - k + 1 \in 0..p /\ (p - k + 1) - 1 = p - k
    BY <1>0, <1>1
  <2>2. b[p - k] \in Nodes /\ b[p - k + 1] \in Nodes /\ b[p - k + 1] = Before(state, b[p - k])
    BY <1>1, <2>1
  <2>3. c[k] = state.predecessor[b[p - k]]
    BY <1>2
  <2> DEFINE x == b[p - k]
             y == b[p - k + 1]
  <2>4. x \in Nodes /\ y \in Nodes /\ y = Before(state, x) /\ c[k] = state.predecessor[x]
    BY <2>2, <2>3
  <2> HIDE DEF x, y
  <2>5. /\ state.predecessor[x] \in DOMAIN graph.edges
        /\ Usable(state.predecessor[x])
        /\ Edge(state.predecessor[x]).dest = x
        /\ Edge(state.predecessor[x]).source = y
    BY <1>0, <2>4, BeforeFacts
  <2> QED BY <2>4, <2>5 DEF x, y
<1>4. c \in [1..p -> DOMAIN graph.edges]
  BY <1>2, <1>3
<1>5. c \in Trails /\ Len(c) = p /\ DOMAIN c = 1..p
  BY <1>0, <1>1, <1>4 DEF Trails
<1> QED BY <1>3, <1>5 DEF b, p, c

\* Two edges of one pool lead to one of its tokens, or there and back at a loss.
LEMMA SamePool ==
  ASSUME IInv, AllPaired, NEW i \in DOMAIN graph.edges, NEW j \in DOMAIN graph.edges,
         Edge(i).pool = Edge(j).pool, Edge(i).dest # Edge(j).dest, Usable(i), Usable(j)
  PROVE  /\ Edge(i).dest = Edge(j).source /\ Edge(j).dest = Edge(i).source
         /\ Edge(i).weight \in Int /\ Edge(j).weight \in Int
         /\ Edge(i).weight + Edge(j).weight >= 0
<1> DEFINE p == Edge(i).pool
<1>1. PICK s \in {1, 2} : Edge(i).source_mint = MintsOf[p][s] /\ Edge(i).dest_mint = MintsOf[p][3 - s]
  BY EdgeFacts
<1>2. PICK t \in {1, 2} : Edge(j).source_mint = MintsOf[p][t] /\ Edge(j).dest_mint = MintsOf[p][3 - t]
  BY EdgeFacts
<1>3. /\ Edge(i).source = graph.mint_to_index[Edge(i).source_mint]
      /\ Edge(i).dest = graph.mint_to_index[Edge(i).dest_mint]
      /\ Edge(j).source = graph.mint_to_index[Edge(j).source_mint]
      /\ Edge(j).dest = graph.mint_to_index[Edge(j).dest_mint]
      /\ p \in Pools
  BY EdgeFacts DEF Edges
<1>4. t = 3 - s /\ s = 3 - t
  <2>1. s # t
    BY <1>1, <1>2, <1>3
  <2> QED BY <2>1
<1>5. Edge(i).dest = Edge(j).source /\ Edge(j).dest = Edge(i).source
  BY <1>1, <1>2, <1>3, <1>4
<1>6. /\ SideOf(HopOf(i)) = s /\ SideOf(HopOf(j)) = t
  <2>1. MintsOf[p][1] # MintsOf[p][2]
    BY <1>3, GraphAssumption
  <2> HIDE DEF p
  <2>2. HopOf(i) = <<p, MintsOf[p][s]>> /\ HopOf(j) = <<p, MintsOf[p][t]>>
    BY <1>1, <1>2 DEF HopOf, p
  <2> QED BY <2>1, <2>2 DEF SideOf
<1>7. /\ Quotes(graph)[p][s] = Edge(i).weight /\ Quotes(graph)[p][t] = Edge(j).weight
      /\ Quotes(graph)[p] # <<>>
  BY <1>6, EdgeQuoted DEF HopOf
<1>8. Quotes(graph)[p] # <<Infinite, Infinite>>
  BY <1>7 DEF Usable
<1>9. /\ Quotes(graph)[p] \in Int \X Int
      /\ Quotes(graph)[p][1] + Quotes(graph)[p][2] = 2 * FeeOf[p]
  BY <1>3, <1>7, <1>8 DEF AllPaired, Paired
<1>10. FeeOf[p] \in Nat
  BY <1>3, GraphAssumption
<1> HIDE DEF p
<1> DEFINE q == Quotes(graph)[p]
<1>11. q[1] \in Int /\ q[2] \in Int /\ q[1] + q[2] >= 0
  BY <1>9, <1>10
<1>12. q[s] \in Int /\ q[t] \in Int /\ q[s] + q[t] >= 0
  <2> HIDE DEF q
  <2>1. CASE s = 1
    BY <1>4, <1>11, <2>1
  <2>2. CASE s = 2
    BY <1>4, <1>11, <2>2
  <2> QED BY <2>1, <2>2
<1> QED BY <1>5, <1>7, <1>12

\* A traced cycle through one pool twice is a trip there and back, and has no profit.
LEMMA TracedPools ==
  ASSUME IInv, AllPaired, NEW state \in States, NEW v, Cyclic(state, v),
         Profitable(trace_cycle(state, v))
  PROVE  LET c == trace_cycle(state, v)
         IN  \A k, l \in DOMAIN c : Edge(c[k]).pool = Edge(c[l]).pool => k = l
<1> DEFINE b == Ancestors(state, v)
           p == Period(state, v)
           c == trace_cycle(state, v)
<1>0. Size \in Nat
  BY NodeFacts DEF Size
<1>1. /\ p \in 1..Size /\ b[0] = b[p]
      /\ \A k, l \in 0..(p - 1) : b[k] = b[l] => k = l
  BY PeriodFacts
<1>2. /\ c \in Trails /\ Len(c) = p /\ DOMAIN c = 1..p
      /\ \A k \in 1..p : /\ c[k] \in DOMAIN graph.edges /\ Usable(c[k])
                         /\ Edge(c[k]).dest = b[p - k]
                         /\ Edge(c[k]).source = b[p - k + 1]
  BY TraceFacts
<1> HIDE DEF b, p, c
<1> SUFFICES ASSUME NEW k \in 1..p, NEW l \in 1..p, Edge(c[k]).pool = Edge(c[l]).pool, k < l
             PROVE  FALSE
  <2>1. \A k, l \in 1..p : Edge(c[k]).pool = Edge(c[l]).pool => ~(k < l) /\ ~(l < k)
    OBVIOUS
  <2>2. \A k, l \in 1..p : ~(k < l) /\ ~(l < k) => k = l
    BY <1>0, <1>1
  <2> QED BY <1>2, <2>1, <2>2 DEF c
<1>3. p - k \in 0..(p - 1) /\ p - l \in 0..(p - 1) /\ p - k # p - l
  BY <1>0, <1>1
<1>4. Edge(c[k]).dest # Edge(c[l]).dest
  BY <1>1, <1>2, <1>3
<1>5. /\ Edge(c[k]).dest = Edge(c[l]).source /\ Edge(c[l]).dest = Edge(c[k]).source
      /\ Edge(c[k]).weight \in Int /\ Edge(c[l]).weight \in Int
      /\ Edge(c[k]).weight + Edge(c[l]).weight >= 0
  BY <1>2, <1>4, SamePool
<1>6. b[p - k] = b[p - l + 1] /\ b[p - l] = b[p - k + 1]
  BY <1>2, <1>5
<1>7. l = k + 1
  <2>1. p - l + 1 \in 0..(p - 1)
    BY <1>0, <1>1
  <2>2. p - k = p - l + 1
    BY <1>1, <1>3, <1>6, <2>1
  <2> QED BY <1>0, <1>1, <2>2
<1>8. k = 1 /\ l = p
  <2>1. CASE k = 1
    <3>1. p - k + 1 = p /\ 0 \in 0..(p - 1)
      BY <1>0, <1>1, <2>1
    <3>2. b[p - l] = b[0]
      BY <1>1, <1>6, <3>1
    <3>3. p - l = 0
      BY <1>1, <1>3, <3>1, <3>2
    <3> QED BY <1>0, <1>1, <2>1, <3>3
  <2>2. CASE k # 1
    <3>1. p - k + 1 \in 0..(p - 1)
      BY <1>0, <1>1, <2>2
    <3>2. p - l = p - k + 1
      BY <1>1, <1>3, <1>6, <3>1
    <3> QED BY <1>0, <1>1, <1>7, <3>2
  <2> QED BY <2>1, <2>2
<1>9. p = 2 /\ k = 1 /\ l = 2
  BY <1>7, <1>8
<1> DEFINE ws == [j \in DOMAIN c |-> Edge(c[j]).weight]
<1>10. /\ ws \in Seq(Int) /\ Len(ws) = 2
       /\ ws[1] \in Int /\ ws[2] \in Int /\ ws[1] + ws[2] >= 0
  <2>1. DOMAIN c = 1..2
    BY <1>2, <1>9
  <2>2. \A j \in 1..2 : ws[j] \in Int
    BY <1>5, <1>9, <2>1
  <2>3. ws \in [1..2 -> Int]
    BY <2>1, <2>2
  <2>4. ws[1] + ws[2] >= 0
    BY <1>5, <1>9, <2>1
  <2> HIDE DEF ws
  <2>5. ws \in Seq(Int)
    <3>1. 2 \in Nat /\ ws \in UNION {[1..n -> Int] : n \in Nat}
      BY <2>3
    <3> QED BY <3>1, SeqDef
  <2>6. Len(ws) = 2
    <3>1. DOMAIN ws = 1..2 /\ DOMAIN ws = 1..Len(ws) /\ Len(ws) \in Nat
      BY <2>3, <2>5, LenProperties
    <3> QED BY <3>1
  <2> QED BY <2>2, <2>4, <2>5, <2>6
<1> HIDE DEF ws
<1>11. SumSeq(ws) >= 0
  <2> DEFINE s == PrefixSums(ws)
  <2>1. IsPrefixSums(s, ws)
    BY <1>10, PrefixSumsCorrect
  <2> HIDE DEF s
  <2>2. s[0] = 0 /\ \A j \in 1..2 : s[j] = s[j - 1] + ws[j]
    BY <1>10, <2>1 DEF IsPrefixSums
  <2>3. s[1] = s[0] + ws[1] /\ s[2] = s[1] + ws[2]
    BY <2>2
  <2>4. s[2] >= 0
    BY <1>10, <2>2, <2>3
  <2> QED BY <1>10, <2>4 DEF SumSeq, s
<1>12. SumSeq(ws) \in Int
  BY <1>10, SumSeqType
<1>13. Gain(c) = -SumSeq(ws)
  BY DEF Gain, ws
<1>14. Gain(c) > MinGain
  BY DEF Profitable, c
<1>15. MinGain \in Nat
  BY SearchAssumption
<1> QED BY <1>11, <1>12, <1>13, <1>14, <1>15

------------------------------------------------------------------------------
(* find_arbitrage_from: what it reports *)

\* A traced cycle with a profit is an arbitrage cycle over the quotes.
LEMMA TracedIsArbitrage ==
  ASSUME IInv, AllPaired, NEW state \in States, NEW v, Cyclic(state, v),
         Profitable(trace_cycle(state, v))
  PROVE  IsArbitrage(Hops(trace_cycle(state, v)))
<1> DEFINE b == Ancestors(state, v)
           p == Period(state, v)
           c == trace_cycle(state, v)
           hops == Hops(c)
<1>0. Size \in Nat
  BY NodeFacts DEF Size
<1>1. p \in 1..Size /\ b[0] = b[p]
  BY PeriodFacts
<1>2. /\ c \in Trails /\ Len(c) = p /\ DOMAIN c = 1..p
      /\ \A k \in 1..p : /\ c[k] \in DOMAIN graph.edges
                         /\ Edge(c[k]).dest = b[p - k]
                         /\ Edge(c[k]).source = b[p - k + 1]
  BY TraceFacts
<1>3. \A k, l \in 1..p : Edge(c[k]).pool = Edge(c[l]).pool => k = l
  BY <1>2, TracedPools
<1>4. QuotedGain(hops) > MinGain
  BY <1>2, HopsGain DEF Profitable
<1> HIDE DEF b, p, c
<1>5. \A k \in 1..p : hops[k] = HopOf(c[k])
  BY <1>2 DEF Hops, HopOf
<1>6. hops \in [1..p -> {HopOf(c[k]) : k \in 1..p}] /\ DOMAIN hops = 1..p /\ p \in Nat
  <2>1. hops = [k \in 1..p |-> HopOf(c[k])]
    BY <1>2 DEF Hops, HopOf
  <2> QED BY <1>0, <1>1, <2>1
<1> HIDE DEF hops
<1>7. Len(hops) = p
  BY <1>6
<1>8. \A k \in 1..p : InputOf(hops[(k % p) + 1]) = OutputOf(hops[k])
  <2> SUFFICES ASSUME NEW k \in 1..p PROVE InputOf(hops[(k % p) + 1]) = OutputOf(hops[k])
    OBVIOUS
  <2> DEFINE l == IF k = p THEN 1 ELSE k + 1
  <2>1. (k % p) + 1 = l
    BY <1>6, NextPosition
  <2>2. l \in 1..p
    BY <1>6
  <2>3. b[p - l + 1] = b[p - k]
    <3>1. CASE k = p
      <4>1. p - l + 1 = p /\ p - k = 0
        BY <1>6, <3>1
      <4> QED BY <1>1, <4>1
    <3>2. CASE k # p
      <4>1. p - l + 1 = p - k
        BY <1>6, <3>2
      <4> QED BY <4>1
    <3> QED BY <3>1, <3>2
  <2> HIDE DEF l
  <2>4. Edge(c[k]).dest = Edge(c[l]).source
    BY <1>2, <2>2, <2>3
  <2>5. OutputOf(HopOf(c[k])) = InputOf(HopOf(c[l]))
    BY <1>2, <2>2, <2>4, HopsMeet
  <2> QED BY <1>5, <2>1, <2>2, <2>5
<1>9. \A k, l \in 1..p : hops[k][1] = hops[l][1] => k = l
  BY <1>3, <1>5 DEF HopOf
<1>10. IsArbitrage(hops)
  BY <1>4, <1>6, <1>7, <1>8, <1>9 DEF IsArbitrage, IsCycle
<1> QED BY <1>10 DEF hops, c

NodesOn(path) == {Edge(path[k]).source : k \in DOMAIN path}

\* The marked nodes are whole predecessor cycles, those of the cycles reported among
\* them, and no two of these share a node.
Accs(state) ==
  {acc \in [visited : SUBSET Nodes, cycles : Seq(Trails)] :
     /\ \A v \in acc.visited : Before(state, v) \in acc.visited
     /\ \A k \in 1..Len(acc.cycles) :
          IsArbitrage(Hops(acc.cycles[k])) /\ NodesOn(acc.cycles[k]) \subseteq acc.visited
     /\ \A k, l \in 1..Len(acc.cycles) :
          k # l => NodesOn(acc.cycles[k]) \cap NodesOn(acc.cycles[l]) = {}}

\* A cycle with one node unmarked has no node marked.
LEMMA UnmarkedCycle ==
  ASSUME IInv, NEW state \in States, NEW v, Cyclic(state, v), NEW V,
         \A u \in V : Before(state, u) \in V, v \notin V
  PROVE  \A k \in 0..Period(state, v) : Ancestors(state, v)[k] \notin V
<1> DEFINE b == Ancestors(state, v)
           p == Period(state, v)
<1>0. Size \in Nat
  BY NodeFacts DEF Size
<1>1. p \in 1..Size /\ b[p] = v /\ \A k \in 1..p : b[k] = Before(state, b[k - 1])
  BY PeriodFacts
<1> HIDE DEF b, p
<1> SUFFICES ASSUME NEW k \in 0..p, b[k] \in V PROVE FALSE
  BY DEF b, p
<1> DEFINE T == {t \in Nat : k + t <= p => b[k + t] \in V}
<1>2. 0 \in T
  <2>1. k + 0 = k
    BY <1>0, <1>1
  <2> QED BY <2>1
<1>3. ASSUME NEW t \in Nat, t \in T PROVE t + 1 \in T
  <2> SUFFICES ASSUME k + (t + 1) <= p PROVE b[k + (t + 1)] \in V
    BY <1>3
  <2>1. k + (t + 1) \in 1..p /\ (k + (t + 1)) - 1 = k + t /\ k + t <= p
    BY <1>0, <1>1
  <2>2. b[k + t] \in V
    BY <1>3, <2>1
  <2>3. b[k + (t + 1)] = Before(state, b[k + t])
    BY <1>1, <2>1
  <2> QED BY <2>2, <2>3
<1>4. Nat \subseteq T
  <2> HIDE DEF T
  <2> QED BY <1>2, <1>3, SetInduction
<1>5. p - k \in Nat /\ k + (p - k) <= p /\ k + (p - k) = p
  BY <1>0, <1>1
<1>6. b[p] \in V
  BY <1>4, <1>5
<1> QED BY <1>1, <1>6

\* Marking a traced cycle's nodes marks a whole cycle of unmarked ones.
LEMMA Marking ==
  ASSUME IInv, NEW state \in States, NEW v, Cyclic(state, v), NEW V \in SUBSET Nodes,
         \A u \in V : Before(state, u) \in V, v \notin V
  PROVE  LET c == trace_cycle(state, v)
             W == V \cup {Edge(c[k]).dest : k \in DOMAIN c}
         IN  /\ W \in SUBSET Nodes
             /\ \A u \in W : Before(state, u) \in W
             /\ NodesOn(c) \subseteq W /\ NodesOn(c) \cap V = {}
<1> DEFINE b == Ancestors(state, v)
           p == Period(state, v)
           c == trace_cycle(state, v)
           D == {Edge(c[k]).dest : k \in DOMAIN c}
<1>0. Size \in Nat
  BY NodeFacts DEF Size
<1>1. /\ p \in 1..Size /\ b[0] = b[p]
      /\ \A k \in 0..p : b[k] \in Nodes
      /\ \A k \in 1..p : b[k] = Before(state, b[k - 1])
  BY PeriodFacts
<1>2. /\ DOMAIN c = 1..p
      /\ \A k \in 1..p : /\ Edge(c[k]).dest = b[p - k]
                         /\ Edge(c[k]).source = b[p - k + 1]
  BY TraceFacts
<1>3. \A k \in 0..p : b[k] \notin V
  BY UnmarkedCycle
<1> HIDE DEF b, p, c
<1>4. \A k \in 1..p : b[p - k] \in D
  BY <1>2
<1> HIDE DEF D
<1>5. \A k \in 0..p : b[k] \in D
  <2> SUFFICES ASSUME NEW k \in 0..p PROVE b[k] \in D
    OBVIOUS
  <2>1. CASE k = p
    <3>1. p \in 1..p /\ p - p = 0
      BY <1>0, <1>1
    <3> QED BY <1>1, <1>4, <2>1, <3>1
  <2>2. CASE k # p
    <3>1. p - k \in 1..p /\ p - (p - k) = k
      BY <1>0, <1>1, <2>2
    <3> QED BY <1>4, <3>1
  <2> QED BY <2>1, <2>2
<1>6. \A u \in D : \E k \in 0..(p - 1) : u = b[k]
  <2> SUFFICES ASSUME NEW u \in D PROVE \E k \in 0..(p - 1) : u = b[k]
    OBVIOUS
  <2>1. PICK k \in 1..p : u = Edge(c[k]).dest
    BY <1>2 DEF D
  <2>2. p - k \in 0..(p - 1) /\ u = b[p - k]
    BY <1>0, <1>1, <1>2, <2>1
  <2> QED BY <2>2
<1>7. \A u \in D : u \in Nodes /\ Before(state, u) \in D
  <2> SUFFICES ASSUME NEW u \in D PROVE u \in Nodes /\ Before(state, u) \in D
    OBVIOUS
  <2>1. PICK k \in 0..(p - 1) : u = b[k]
    BY <1>6
  <2>2. k \in 0..p /\ k + 1 \in 1..p /\ k + 1 \in 0..p /\ (k + 1) - 1 = k
    BY <1>0, <1>1
  <2>3. b[k + 1] = Before(state, b[k])
    BY <1>1, <2>2
  <2> QED BY <1>1, <1>5, <2>1, <2>2, <2>3
<1>8. ASSUME NEW u \in NodesOn(c) PROVE u \in D /\ u \notin V
  <2>1. PICK k \in 1..p : u = Edge(c[k]).source
    BY <1>2 DEF NodesOn
  <2>2. p - k + 1 \in 0..p /\ u = b[p - k + 1]
    BY <1>0, <1>1, <1>2, <2>1
  <2> QED BY <1>3, <1>5, <2>2
<1>9. /\ (V \cup D) \in SUBSET Nodes
      /\ \A u \in V \cup D : Before(state, u) \in V \cup D
      /\ NodesOn(c) \subseteq V \cup D /\ NodesOn(c) \cap V = {}
  BY <1>7, <1>8
<1> QED BY <1>9 DEF D, c

\* An edge of the last pass marks and reports a whole cycle or nothing.
LEMMA DetectSound ==
  ASSUME IInv, AllPaired, NEW state \in States, NEW acc \in Accs(state),
         NEW i \in DOMAIN graph.edges
  PROVE  Detect(state, acc, i) \in Accs(state)
<1> DEFINE node == Ancestors(state, Edge(i).dest)[Size]
           c == trace_cycle(state, node)
           V == acc.visited
           W == V \cup {Edge(c[k]).dest : k \in DOMAIN c}
           old == acc.cycles
           new == IF Len(c) \in 2..4 /\ Profitable(c) THEN Append(old, c) ELSE old
<1>1. CASE ~Shortens(state, i) \/ node = NoEdge \/ node \in V
  BY <1>1 DEF Detect, Size
<1>2. CASE ~(~Shortens(state, i) \/ node = NoEdge \/ node \in V)
  <2>1. Cyclic(state, node)
    BY <1>2, NodeFacts, LongWalksCycle
  <2>2. Detect(state, acc, i) = [visited |-> W, cycles |-> new]
    BY <1>2 DEF Detect, Size
  <2>3. /\ V \in SUBSET Nodes /\ old \in Seq(Trails)
        /\ \A v \in V : Before(state, v) \in V
        /\ \A k \in 1..Len(old) : IsArbitrage(Hops(old[k])) /\ NodesOn(old[k]) \subseteq V
        /\ \A k, l \in 1..Len(old) : k # l => NodesOn(old[k]) \cap NodesOn(old[l]) = {}
    BY DEF Accs
  <2>4. node \notin V
    BY <1>2
  <2> HIDE DEF node, V, old
  <2>5. /\ W \in SUBSET Nodes
        /\ \A v \in W : Before(state, v) \in W
        /\ NodesOn(c) \subseteq W /\ NodesOn(c) \cap V = {}
    BY <2>1, <2>3, <2>4, Marking
  <2>6. c \in Trails /\ (Profitable(c) => IsArbitrage(Hops(c)))
    BY <2>1, TraceFacts, TracedIsArbitrage
  <2>7. V \subseteq W
    OBVIOUS
  <2> HIDE DEF W, c
  <2>8. /\ new \in Seq(Trails)
        /\ \A k \in 1..Len(new) : IsArbitrage(Hops(new[k])) /\ NodesOn(new[k]) \subseteq W
        /\ \A k, l \in 1..Len(new) : k # l => NodesOn(new[k]) \cap NodesOn(new[l]) = {}
    <3>1. CASE ~(Len(c) \in 2..4 /\ Profitable(c))
      <4>1. new = old
        BY <3>1
      <4> HIDE DEF new
      <4> QED BY <2>3, <2>7, <4>1
    <3>2. CASE Len(c) \in 2..4 /\ Profitable(c)
      <4>1. new = Append(old, c)
        BY <3>2
      <4>2. /\ new \in Seq(Trails) /\ Len(new) = Len(old) + 1 /\ Len(old) \in Nat
            /\ \A k \in 1..Len(old) : new[k] = old[k]
            /\ new[Len(old) + 1] = c
        BY <2>3, <2>6, <4>1, AppendProperties, LenProperties
      <4> HIDE DEF new
      <4>3. \A k \in 1..Len(new) :
              \/ k \in 1..Len(old) /\ new[k] = old[k]
              \/ k = Len(old) + 1 /\ new[k] = c
        BY <4>2
      <4>4. \A k \in 1..Len(new) : IsArbitrage(Hops(new[k])) /\ NodesOn(new[k]) \subseteq W
        BY <2>3, <2>5, <2>6, <2>7, <3>2, <4>3
      <4>5. \A k, l \in 1..Len(new) : k # l => NodesOn(new[k]) \cap NodesOn(new[l]) = {}
        <5> SUFFICES ASSUME NEW k \in 1..Len(new), NEW l \in 1..Len(new), k # l
                     PROVE  NodesOn(new[k]) \cap NodesOn(new[l]) = {}
          OBVIOUS
        <5>1. CASE k \in 1..Len(old) /\ new[k] = old[k] /\ l \in 1..Len(old) /\ new[l] = old[l]
          BY <2>3, <5>1
        <5>2. CASE k \in 1..Len(old) /\ new[k] = old[k] /\ new[l] = c
          <6>1. NodesOn(new[k]) \subseteq V
            BY <2>3, <5>2
          <6> QED BY <2>5, <5>2, <6>1
        <5>3. CASE l \in 1..Len(old) /\ new[l] = old[l] /\ new[k] = c
          <6>1. NodesOn(new[l]) \subseteq V
            BY <2>3, <5>3
          <6> QED BY <2>5, <5>3, <6>1
        <5> QED BY <4>3, <5>1, <5>2, <5>3
      <4> QED BY <4>2, <4>4, <4>5
    <3> QED BY <3>1, <3>2
  <2> HIDE DEF new
  <2> QED BY <2>2, <2>5, <2>8, SMTT(20) DEF Accs
<1> QED BY <1>1, <1>2

\* So does the whole pass.
LEMMA FoundSound ==
  ASSUME IInv, AllPaired, NEW source, Nodes # {}
  PROVE  \E acc \in Accs(Relaxed(source)) : find_arbitrage_from(source) = acc.cycles
<1> DEFINE state == Relaxed(source)
           n == Len(graph.edges)
           S == Accs(state)
           none == [visited |-> {}, cycles |-> <<>>]
           step == [i \in 1..n |-> [x \in S |-> Detect(state, x, i)]]
           E(q) == q = [i \in 0..Len(graph.edges) |->
                         IF i = 0 THEN [visited |-> {}, cycles |-> <<>>]
                         ELSE Detect(state, q[i - 1], i)]
           f == CHOOSE q : E(q)
<1>1. find_arbitrage_from(source) = f[n].cycles
  BY DEF find_arbitrage_from
<1>2. state \in States
  BY RelaxedSound
<1> HIDE DEF state
<1>3. none \in S
  <2>1. none \in [visited : SUBSET Nodes, cycles : Seq(Trails)] /\ Len(<<>>) = 0
    OBVIOUS
  <2> QED BY <2>1 DEF Accs
<1>4. n \in Nat /\ \A i \in 1..n : \A x \in S : Detect(state, x, i) \in S
  BY <1>2, NodeFacts, DetectSound
<1>5. step \in [1..n -> [S -> S]]
  <2> HIDE DEF S
  <2> QED BY <1>4
<1>6. PICK p : Follows(p, S, none, n, step)
  <2> HIDE DEF step, n, S, none
  <2> QED BY <1>3, <1>4, <1>5, StepsExist, Zenon
<1>7. p \in [0..n -> S] /\ p[0] = none /\ \A k \in 1..n : p[k] = step[k][p[k - 1]]
  BY <1>6, Zenon DEF Follows
<1>8. \A k \in 1..n : p[k] = Detect(state, p[k - 1], k)
  <2> HIDE DEF S
  <2> SUFFICES ASSUME NEW k \in 1..n PROVE p[k] = Detect(state, p[k - 1], k)
    OBVIOUS
  <2>1. p[k - 1] \in S
    BY <1>4, <1>7
  <2> QED BY <1>7, <2>1
<1>9. E(p)
  <2> HIDE DEF S
  <2> QED BY <1>4, <1>7, <1>8
<1>10. E(f)
  <2> HIDE DEF E
  <2> QED BY <1>9
<1> HIDE DEF f, S
<1>11. f[0] \in S /\ \A k \in 1..n : f[k - 1] \in S => f[k] \in S
  <2>1. f[0] = none
    BY <1>4, <1>10
  <2>2. \A k \in 1..n : f[k] = Detect(state, f[k - 1], k)
    <3> SUFFICES ASSUME NEW k \in 1..n PROVE f[k] = Detect(state, f[k - 1], k)
      OBVIOUS
    <3>1. k \in 0..Len(graph.edges) /\ k # 0
      BY <1>4
    <3>2. f[k] = IF k = 0 THEN none ELSE Detect(state, f[k - 1], k)
      <4> HIDE DEF n
      <4> QED BY <1>10, <3>1
    <3> HIDE DEF none, E
    <3> QED BY <3>1, <3>2
  <2> HIDE DEF n, E, none
  <2> QED BY <1>3, <1>4, <2>1, <2>2
<1>12. \A k \in 0..n : f[k] \in S
  <2> HIDE DEF n, E
  <2> QED BY <1>4, <1>11, StepsStay
<1>13. f[n] \in S
  BY <1>4, <1>12
<1> QED BY <1>1, <1>13 DEF S, state

\* What Bellman-Ford reports are profitable cycles over the pools' quotes, through
\* distinct pools, and no two of them share a token: for every graph that updates and
\* removals build and whatever the relaxation left of the distances.
THEOREM BellmanFordReportsSound == Spec => []BellmanFordSound
<1>1. IInv /\ AllPaired => BellmanFordSound
  <2> SUFFICES ASSUME IInv, AllPaired, NEW m \in Anchors \cap Indexed
               PROVE  LET found == find_arbitrage_from(graph.mint_to_index[m])
                          TokensOn(k) == {InputOf(Hops(found[k])[j]) : j \in DOMAIN found[k]}
                      IN  /\ \A k \in DOMAIN found : IsArbitrage(Hops(found[k]))
                          /\ \A k, l \in DOMAIN found : k # l => TokensOn(k) \cap TokensOn(l) = {}
    BY DEF BellmanFordSound
  <2> DEFINE found == find_arbitrage_from(graph.mint_to_index[m])
             TokensOn(k) == {InputOf(Hops(found[k])[j]) : j \in DOMAIN found[k]}
  <2>1. Nodes # {}
    BY NodeFacts
  <2>2. PICK acc \in Accs(Relaxed(graph.mint_to_index[m])) : found = acc.cycles
    BY <2>1, FoundSound
  <2>3. /\ found \in Seq(Trails)
        /\ \A k \in 1..Len(found) : IsArbitrage(Hops(found[k]))
        /\ \A k, l \in 1..Len(found) : k # l => NodesOn(found[k]) \cap NodesOn(found[l]) = {}
    BY <2>2 DEF Accs
  <2> HIDE DEF found
  <2>4. DOMAIN found = 1..Len(found) /\ \A k \in 1..Len(found) : found[k] \in Trails
    BY <2>3, LenProperties, ElementOfSeq
  <2>5. ASSUME NEW k \in DOMAIN found, NEW l \in DOMAIN found, k # l,
               NEW t \in TokensOn(k), t \in TokensOn(l)
        PROVE  FALSE
    <3> DEFINE c == found[k]
               d == found[l]
    <3>1. c \in Trails /\ d \in Trails
      BY <2>4
    <3>2. PICK i \in DOMAIN c, j \in DOMAIN d :
            t = InputOf(Hops(c)[i]) /\ t = InputOf(Hops(d)[j])
      BY <2>5
    <3> HIDE DEF c, d
    <3>3. c[i] \in DOMAIN graph.edges /\ d[j] \in DOMAIN graph.edges
      BY <3>1, TrailFacts
    <3>4. t = Edge(c[i]).source_mint /\ t = Edge(d[j]).source_mint
      BY <3>2 DEF Hops, InputOf
    <3>5. Edge(c[i]).source = Edge(d[j]).source
      <4>1. Edge(c[i]).source = graph.mint_to_index[t]
        BY <3>3, <3>4, EdgeFacts
      <4>2. Edge(d[j]).source = graph.mint_to_index[t]
        BY <3>3, <3>4, EdgeFacts
      <4> QED BY <4>1, <4>2
    <3>6. Edge(c[i]).source \in NodesOn(c) \cap NodesOn(d)
      BY <3>5 DEF NodesOn
    <3> QED BY <2>3, <2>4, <2>5, <3>6 DEF c, d
  <2>6. \A k, l \in DOMAIN found : k # l => TokensOn(k) \cap TokensOn(l) = {}
    BY <2>5
  <2> QED BY <2>3, <2>4, <2>6 DEF found
<1> QED BY <1>1, QuotesPaired, PTL
==============================================================================
