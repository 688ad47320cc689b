------------------------------ MODULE DexStrategy ------------------------------
(***************************************************************************)
(* From an account update to priced opportunities: the DEX strategy and    *)
(* the backrun strategy.  The DEX strategy decodes the update, puts the    *)
(* pool in its graph and publishes a copy of the graph now and then; it    *)
(* finds cycles in the graph but prices each from the account cache, one   *)
(* account after the other, while the cache updater, a task of its own,    *)
(* writes it.  The backrun strategy searches the published copy.           *)
(*                                                                         *)
(* Updates reach both tasks in the order of the chain's writes; replay and *)
(* lag are in UpdateFeed.  An update is named by its index in "updates",   *)
(* 0 being none, and the graph by the update each pool's edges come from.  *)
(***************************************************************************)
EXTENDS DexAdapters, FiniteSetsExt

CONSTANTS
  Pools,           \* pool accounts
  Mints,           \* token mints
  Contents,        \* Contents[p]: the data account p may hold
  Anchors,         \* anchor mints, in their order
  MinRatio,        \* <<10001, 10000>>, the ratio of cycles worth pricing
  PublishEvery,    \* updates between two copies of the graph: 100
  MaxHops, MinProfit,           \* configuration of the DEX strategy
  MinInput, MaxInput,           \* 1000000, 10000000000
  Slippage,                     \* <<995, 1000>>
  SwapSizes,                    \* sizes of detected swaps; detect_swap says 0
  BackrunHops,                  \* 3
  MinTradeSize, BackrunMinProfit,  \* configuration of the backrun strategy
  BackrunStart,                 \* 1000000000
  BackrunSlippage,              \* <<10000 - max_slippage_bps, 10000>>
  Rounding,                     \* what rounding may cost the optimizer
  MaxUpdates                    \* bound: writes on the chain

ASSUME StrategyAssumption ==
  /\ PublishEvery \in Nat \ {0}
  /\ MinInput \in Amounts /\ MaxInput \in Amounts /\ BackrunStart \in Amounts
  /\ MaxHops \in Nat /\ BackrunHops \in Nat
  /\ MinProfit \in Int /\ BackrunMinProfit \in Int
  /\ 2 * MaxInput <= U64 /\ 2 * BackrunStart <= U64
  /\ Slippage \in Nat \X (Nat \ {0}) /\ BackrunSlippage \in Nat \X (Nat \ {0})
  /\ MinRatio \in Nat \X (Nat \ {0})
  /\ MaxUpdates \in Nat /\ Rounding \in Nat
  /\ \A p \in Pools : \A account \in Contents[p] :
       WellFormed(account) /\ {account.token_a, account.token_b} \subseteq Mints

VARIABLES
  updates,    \* external: the updates broadcast so far
  position,   \* updates each task has behind it
  cache,      \* AccountCache: the update each account was last written by
  graph,      \* mutable_graph
  snapshot,   \* the published copy of the graph
  updates_since_publish,
  decoded,    \* history variable: the updates the strategy decoded, in order
  job,        \* the evaluation each strategy is busy with
  found,      \* the opportunities of each strategy's latest evaluation
  began       \* history variable: the cache when that evaluation began

feedVars == <<updates, position, cache>>
graphVars == <<graph, snapshot, updates_since_publish, decoded>>
searchVars == <<job, found, began>>
vars == <<feedVars, graphVars, searchVars>>

Strategies == {"dex_arb", "backrun"}
Indices == 0..MaxUpdates
Nothing == [p \in Pools |-> 0]
Idle == [todo |-> {}, path |-> <<>>, read |-> <<>>]

Init ==
  /\ updates = <<>> /\ position = [cache |-> 0, dex_arb |-> 0]
  /\ cache = Nothing
  /\ graph = Nothing /\ snapshot = Nothing
  /\ updates_since_publish = 0 /\ decoded = <<>>
  /\ job = [s \in Strategies |-> Idle]
  /\ found = [s \in Strategies |-> {}]
  /\ began = [s \in Strategies |-> Nothing]

------------------------------------------------------------------------------
(* The chain and the cache *)

\* External: an account is written, and its update broadcast.
Write(p) ==
  /\ Len(updates) < MaxUpdates
  /\ \E account \in Contents[p] : updates' = Append(updates, [pool |-> p, account |-> account])
  /\ UNCHANGED <<position, cache, graphVars, searchVars>>

Behind(task) == position[task] < Len(updates)
Upcoming(task) == updates[position[task] + 1]
Advance(task) == position' = [position EXCEPT ![task] = @ + 1]

CacheUpdate ==
  /\ Behind("cache") /\ Advance("cache")
  /\ cache' = [cache EXCEPT ![Upcoming("cache").pool] = position["cache"] + 1]
  /\ UNCHANGED <<updates, graphVars, searchVars>>

------------------------------------------------------------------------------
(* Cycles in a graph of updates *)

\* The pool in update i's account: one or none.
PoolsIn(i) == IF i \in DOMAIN updates THEN decode_pool(updates[i].account) ELSE {}
PoolAt(i) == CHOOSE pool \in PoolsIn(i) : TRUE
HasReserves(pool) == NonZero({pool.reserve_a, pool.reserve_b})

\* The two edges of each pool in graph g.  A fee that takes everything makes the
\* weight infinite or not a number: no edge.
Edges(g) ==
  LET Quoted == {p \in Pools : \E pool \in PoolsIn(g[p]) : pool.num < pool.den}
      Edge(p, input, output) == [pool |-> p, input |-> input, output |-> output]
  IN  {Edge(p, PoolAt(g[p]).token_a, PoolAt(g[p]).token_b) : p \in Quoted}
      \cup {Edge(p, PoolAt(g[p]).token_b, PoolAt(g[p]).token_a) : p \in Quoted}

\* find_cycles_dfs: the paths of up to n edges from the anchor that use a pool at
\* most once and end when they are back.
PathsFrom(edges, anchor, n) ==
  {path \in UNION {[1..k -> edges] : k \in 2..n} :
     /\ \A k \in DOMAIN path : path[k].input = IF k = 1 THEN anchor ELSE path[k - 1].output
     /\ \A k \in DOMAIN path : path[k].output = anchor <=> k = Len(path)
     /\ \A k, l \in DOMAIN path : path[k].pool = path[l].pool => k = l}

\* What one unit becomes along the path, at no price impact: a fraction.
Ratio(g, path) ==
  LET hop(k) == Hop(PoolAt(g[path[k].pool]), path[k].input)
      ratio[k \in 0..Len(path)] ==
        IF k = 0 THEN <<1, 1>>
        ELSE <<ratio[k - 1][1] * hop(k).reserve_out * (hop(k).den - hop(k).num),
               ratio[k - 1][2] * hop(k).reserve_in * hop(k).den>>
  IN  ratio[Len(path)]

WorthPricing(g, path) == Ratio(g, path)[1] * MinRatio[2] > Ratio(g, path)[2] * MinRatio[1]

Cycles(g, n) ==
  UNION {{path \in PathsFrom(Edges(g), Anchors[a], n) : WorthPricing(g, path)}
         : a \in DOMAIN Anchors}

------------------------------------------------------------------------------
(* The DEX strategy's graph *)

Busy(s) == job[s] # Idle

Begin(s, cycles) ==
  /\ job' = [job EXCEPT ![s] = [Idle EXCEPT !.todo = cycles]]
  /\ found' = [found EXCEPT ![s] = {}]
  /\ began' = [began EXCEPT ![s] = cache]

\* The circuit breaker is tripped, or no adapter decodes the account.
PassUpdate ==
  /\ ~Busy("dex_arb")
  /\ Behind("dex_arb") /\ Advance("dex_arb")
  /\ UNCHANGED <<updates, cache, graphVars, searchVars>>

Publish_OneLate ==
  IF updates_since_publish + 1 > PublishEvery
  THEN snapshot' = graph' /\ updates_since_publish' = 0
  ELSE updates_since_publish' = updates_since_publish + 1 /\ UNCHANGED snapshot

Publish_BeforeUpdate ==
  IF updates_since_publish + 1 >= PublishEvery
  THEN snapshot' = graph /\ updates_since_publish' = 0
  ELSE updates_since_publish' = updates_since_publish + 1 /\ UNCHANGED snapshot

\* Every so many updates the graph is copied for other readers.
Publish ==
  IF updates_since_publish + 1 >= PublishEvery
  THEN snapshot' = graph' /\ updates_since_publish' = 0
  ELSE updates_since_publish' = updates_since_publish + 1 /\ UNCHANGED snapshot

\* process_update, up to the search.  A pool without reserves leaves the graph as
\* it is.
ProcessUpdate ==
  LET i == position["dex_arb"] + 1
  IN  /\ ~Busy("dex_arb")
      /\ Behind("dex_arb") /\ Advance("dex_arb")
      /\ \E pool \in PoolsIn(i) :
           graph' = IF HasReserves(pool) THEN [graph EXCEPT ![updates[i].pool] = i] ELSE graph
      /\ Publish
      /\ decoded' = Append(decoded, i)
      /\ Begin("dex_arb", Cycles(graph', MaxHops))
      /\ UNCHANGED <<updates, cache>>

\* evaluate_swap, which has no caller.
EvaluateSwap(size) ==
  /\ ~Busy("backrun")
  /\ size >= MinTradeSize
  /\ Begin("backrun", Cycles(snapshot, BackrunHops))
  /\ UNCHANGED <<feedVars, graphVars>>

------------------------------------------------------------------------------
(* Pricing a cycle from the cache *)

\* The backrun strategy has no adapter for the CLMM.
AdaptersOf(s) == IF s = "dex_arb" THEN DexTypes ELSE DexTypes \ {"raydium_clmm"}

Remaining_OncePerPools(s, path) ==
  LET PoolsOf(p) == {p[k].pool : k \in DOMAIN p}
  IN  {other \in job[s].todo : PoolsOf(other) # PoolsOf(path)}

Remaining(s, path) == job[s].todo \ {path}

\* What strategy s makes of an account it reads.
Readable(s, i) ==
  {pool \in PoolsIn(i) :
     /\ updates[i].account.owner \in AdaptersOf(s)
     /\ s = "dex_arb" => HasReserves(pool)}

AmountsQuoted_Unchained(path, read, start) ==
  [k \in 0..Len(read) |->
     IF k = 0 THEN start ELSE Output(quote(PoolAt(read[k]), path[k].input, start))]

\* The amounts before and after each hop, zero from where a quote fails.
AmountsQuoted(path, read, start) ==
  LET amount[k \in 0..Len(read)] ==
        IF k = 0 THEN start
        ELSE Output(quote(PoolAt(read[k]), path[k].input, amount[k - 1]))
  IN  amount

Step(hop, amount_in, amount_out, slippage) ==
  [pool |-> hop.pool, input |-> hop.input, output |-> hop.output, amount_in |-> amount_in,
   min_amount_out |-> AsU64(amount_out * slippage[1]) \div slippage[2]]

Opportunity(path, read, start, slippage) ==
  LET amount == AmountsQuoted(path, read, start)
  IN  IF amount[Len(path)] = 0 THEN {}
      ELSE {[path |-> [k \in DOMAIN path |-> Step(path[k], amount[k - 1], amount[k], slippage)],
             expected_profit |-> DifferenceAsI64(amount[Len(path)], start),
             read |-> read]}

HopsRead(path, read) == [k \in DOMAIN path |-> Hop(PoolAt(read[k]), path[k].input)]

\* simulate_cycle: at the input the optimizer chose.
SimulateCycle(path, read) ==
  LET best == optimize_arb_amount(HopsRead(path, read), MaxInput, MinInput)
  IN  IF best.profit <= 0 \/ best.amount = 0 THEN {}
      ELSE Opportunity(path, read, best.amount, Slippage)

Priced(s, path, read) ==
  IF s = "dex_arb"
  THEN {o \in SimulateCycle(path, read) : o.expected_profit >= MinProfit}
  ELSE {o \in Opportunity(path, read, BackrunStart, BackrunSlippage) :
          o.expected_profit >= BackrunMinProfit}

\* The cycle in hand, or those that may come next: anchor by anchor.
CyclesAtHand(s) ==
  LET Rank(path) == CHOOSE a \in DOMAIN Anchors : Anchors[a] = path[1].input
  IN  IF job[s].path # <<>> THEN {job[s].path}
      ELSE {path \in job[s].todo : \A q \in job[s].todo : Rank(path) <= Rank(q)}

ReadNext_FromGraph(s, path) ==
  Append(job[s].read, graph[path[Len(job[s].read) + 1].pool])

\* The account of the next hop, as the cache has it now.
ReadNext(s, path) ==
  Append(job[s].read, cache[path[Len(job[s].read) + 1].pool])

\* The account just read is of use.  The backrun strategy quotes as it goes.
Passes(s, path, read) ==
  /\ Readable(s, read[Len(read)]) # {}
  /\ s = "backrun" => AmountsQuoted(path, read, BackrunStart)[Len(read)] # 0

ReadHop(s) ==
  \E path \in CyclesAtHand(s) :
    LET read == ReadNext(s, path)
    IN  /\ Passes(s, path, read)
        /\ Len(read) < Len(path)
        /\ job' = [job EXCEPT ![s] = [todo |-> Remaining(s, path), path |-> path, read |-> read]]
        /\ UNCHANGED <<feedVars, graphVars, found, began>>

DropCycle(s) ==
  \E path \in CyclesAtHand(s) :
    /\ ~Passes(s, path, ReadNext(s, path))
    /\ job' = [job EXCEPT ![s] = [Idle EXCEPT !.todo = Remaining(s, path)]]
    /\ UNCHANGED <<feedVars, graphVars, found, began>>

\* The last account is read and the cycle priced.  The backrun strategy returns
\* the first opportunity it keeps.
PriceCycle(s) ==
  \E path \in CyclesAtHand(s) :
    LET read == ReadNext(s, path)
        kept == Priced(s, path, read)
        done == s = "backrun" /\ kept # {}
    IN  /\ Passes(s, path, read)
        /\ Len(read) = Len(path)
        /\ found' = [found EXCEPT ![s] = @ \cup kept]
        /\ job' = [job EXCEPT ![s] =
                    [Idle EXCEPT !.todo = IF done THEN {} ELSE Remaining(s, path)]]
        /\ UNCHANGED <<feedVars, graphVars, began>>

Evaluate(s) == ReadHop(s) \/ DropCycle(s) \/ PriceCycle(s)

Next ==
  \/ \E p \in Pools : Write(p)
  \/ CacheUpdate
  \/ PassUpdate
  \/ ProcessUpdate
  \/ \E size \in SwapSizes : EvaluateSwap(size)
  \/ \E s \in Strategies : Evaluate(s)

Spec == Init /\ [][Next]_vars

------------------------------------------------------------------------------
(* Properties *)

Hops == [pool : Pools, input : Mints, output : Mints]
Paths == Seq(Hops)
Reads == Seq(Indices)
Steps ==
  [pool : Pools, input : Mints, output : Mints, amount_in : Amounts, min_amount_out : Amounts]

\* What each variable holds; a copy of the graph is never more than PublishEvery
\* decoded updates old.
TypeOK ==
  /\ updates \in Seq([pool : Pools, account : UNION {Contents[p] : p \in Pools}])
  /\ Len(updates) <= MaxUpdates
  /\ position \in [{"cache", "dex_arb"} -> 0..Len(updates)]
  /\ cache \in [Pools -> 0..position["cache"]]
  /\ graph \in [Pools -> 0..position["dex_arb"]]
  /\ snapshot \in [Pools -> 0..position["dex_arb"]]
  /\ updates_since_publish \in 0..(PublishEvery - 1)
  /\ decoded \in Seq(1..position["dex_arb"])
  /\ job \in [Strategies -> [todo : SUBSET Paths, path : Paths, read : Reads]]
  /\ found \in [Strategies -> SUBSET [path : Seq(Steps), expected_profit : Int, read : Reads]]
  /\ began \in [Strategies -> [Pools -> 0..position["cache"]]]

\* The pool just broadcast, if any: every update is the latest when it is sent.
PoolsSeen == PoolsIn(Len(updates))

\* The invariant in the name of constant_product.rs ("x * y = k"): whatever rounding
\* and the cast of the fee do, a swap never leaves a pool with less than its product.
QuotesKeepProduct ==
  \A pool \in PoolsSeen : \A input \in {pool.token_a, pool.token_b}, amount \in 1..MaxInput :
    LET hop == Hop(pool, input)
    IN  \A swap \in quote(pool, input, amount) :
          (hop.reserve_in + amount) * (hop.reserve_out - swap.out) >= hop.reserve_in * hop.reserve_out

\* swap_base_out rounds up twice: the input it names buys at least the output asked
\* for, as long as neither u128 loses anything when it becomes a u64.
InverseQuoteSuffices ==
  \A pool \in PoolsSeen : \A input \in {pool.token_a, pool.token_b}, amount \in 1..MaxInput :
    LET hop == Hop(pool, input)
        before_fee == InputBeforeFee(hop.reserve_in, hop.reserve_out, amount)
    IN  \A swap \in swap_base_out(hop.reserve_in, hop.reserve_out, amount, hop.num, hop.den) :
          (before_fee < U64 /\ InputWithFee(before_fee, hop.num, hop.den) < U64)
            => Output(quote(pool, input, swap.in)) >= amount

\* The hop after k, round the cycle.
Following(path, k) == path[(k % Len(path)) + 1]

\* Every opportunity is a cycle through distinct pools whose amounts chain: each
\* hop is fed what the one before it bought at the accounts read, what comes out
\* at the end is the input and the expected profit, and that is enough.
OpportunitiesAddUp ==
  \A s \in Strategies : \A o \in found[s] :
    LET n == Len(o.path)
        Bought(k) == Output(quote(PoolAt(o.read[k]), o.path[k].input, o.path[k].amount_in))
    IN  /\ \A k \in 1..n : Following(o.path, k).input = o.path[k].output
        /\ \A k, l \in 1..n : o.path[k].pool = o.path[l].pool => k = l
        /\ \A k \in 1..(n - 1) : o.path[k + 1].amount_in = Bought(k)
        /\ Bought(n) = o.path[1].amount_in + o.expected_profit
        /\ o.expected_profit >= IF s = "dex_arb" THEN MinProfit ELSE BackrunMinProfit
        /\ \A k \in 1..n : o.path[k].min_amount_out <= Bought(k)

\* The graph and its copy may be long out of date, and the cache is written while a
\* cycle is priced.  Yet every pool on an opportunity was priced from an account
\* that was in the cache after the evaluation began, and that holds a usable pool:
\* one drained or switched off before is never traded on its old edges.
PricedFromTheCache ==
  \A s \in Strategies : \A o \in found[s] : \A k \in DOMAIN o.path :
    LET p == o.path[k].pool
    IN  /\ o.read[k] \in began[s][p]..cache[p]
        /\ updates[o.read[k]].pool = p
        /\ Readable(s, o.read[k]) # {}

\* Cycle path was priced from accounts that were in the cache while strategy s
\* evaluated, and what is worth keeping was kept.
Judged(s, path) ==
  \E read \in [1..Len(path) -> Indices] :
    /\ \A k \in 1..Len(path) : read[k] \in began[s][path[k].pool]..cache[path[k].pool]
    /\ (\A k \in 1..Len(path) : Readable(s, read[k]) # {}) => Priced(s, path, read) \subseteq found[s]

\* Nothing is priced from the cache's past, and nothing is passed over either: once
\* the DEX strategy is idle, every cycle of its graph has been judged by accounts
\* the cache held meanwhile.  A cycle is without an opportunity only because they
\* made it unprofitable or unusable, not because another cycle was dropped, kept or
\* met the same pools.
EveryCycleJudged ==
  ~Busy("dex_arb") => \A path \in Cycles(graph, MaxHops) : Judged("dex_arb", path)

\* The updates graph g knows the pools of a path from.
Sources(g, path) == [k \in DOMAIN path |-> g[path[k].pool]]

\* What any input of the range would earn on a path, priced from what graph g knows;
\* none if some input is too small to get through.
ProfitsOn(path, g) ==
  LET hops == HopsRead(path, Sources(g, path))
      profits == {simulate_cycle(hops, amount) : amount \in MinInput..MaxInput}
  IN  IF DeadPath \in profits THEN {} ELSE profits

\* The most that a cycle below the threshold on the ratio could have earned: the
\* 0.0001 of find_opportunities on its largest input.
Forgone == (MaxInput * (MinRatio[1] - MinRatio[2])) \div MinRatio[2]

\* When the cache held what the graph was built from all through the evaluation,
\* the DEX strategy has found every cycle on which some input earns the minimum
\* profit and more than the threshold forgoes, give or take the rounding: the
\* ternary search loses none of them.
NothingMissed ==
  ( /\ ~Busy("dex_arb") /\ began["dex_arb"] = cache
    /\ \A p \in Pools : graph[p] \in {0, cache[p]} )
  => \A path \in UNION {PathsFrom(Edges(graph), Anchors[a], MaxHops) : a \in DOMAIN Anchors} :
       (\E profit \in ProfitsOn(path, graph) : profit >= Max({MinProfit, Forgone}) + Rounding)
         => \E o \in found["dex_arb"] :
              [k \in DOMAIN o.path |-> <<o.path[k].pool, o.path[k].input>>]
                = [k \in DOMAIN path |-> <<path[k].pool, path[k].input>>]

\* What the arithmetic alone owes a round trip of the graph: the ternary search comes
\* within the rounding of what any input earns, and a ratio below the threshold
\* forgoes no more than it is said to.
ServesOn(g, path) ==
  \A profit \in ProfitsOn(path, g) :
    /\ optimize_arb_amount(HopsRead(path, Sources(g, path)), MaxInput, MinInput).profit
         >= profit - Rounding
    /\ profit >= Max({MinProfit, Forgone}) + Rounding => WorthPricing(g, path)

\* It does so for all of them, as NothingMissed has to suppose.
ArithmeticServes ==
  \A a \in DOMAIN Anchors : \A path \in PathsFrom(Edges(graph), Anchors[a], MaxHops) :
    ServesOn(graph, path)

\* The graph as the first n decoded updates left it.
GraphAfter(n) ==
  [p \in Pools |->
     Max({0} \cup {decoded[k] : k \in {k \in 1..n :
            /\ updates[decoded[k]].pool = p
            /\ \E pool \in PoolsIn(decoded[k]) : HasReserves(pool)}})]

\* The copy other strategies search is the graph as it was updates_since_publish
\* decoded updates ago, and the graph is up to date with the last one.
SnapshotLags ==
  /\ graph = GraphAfter(Len(decoded))
  /\ snapshot = GraphAfter(Len(decoded) - updates_since_publish)
==============================================================================
