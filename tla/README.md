# A TLA+ model of the Solana MEV bot

This project specifies the control logic of the bot in `src/`: which account
updates reach its caches, what the adapters read out of them, how cycles are found
and priced, how an opportunity is vetted and becomes a bundle, what is booked of
the bundle's fate, and when trading stops. TLC checks the modules on small
instances and TLAPS proves the most important invariants for every instance.

## 1. Inventory

| Component (code) | State | Operations | Talks to | What makes it correct |
|---|---|---|---|---|
| Data feed (`data-feed/laserstream.rs`, `slot_tracker.rs`) | stream position, latest slot | handle a message, reconnect with replay, end | broadcasts every update to three receivers | the slot tracker is never behind the data; receivers see the end |
| Account cache (`account-cache/cache.rs`, `invalidation.rs`) | account -> data, slot | slot-gated `update`; the updater task's receive, lag, stop | read by the strategies while it is written | holds the last received update of the highest slot |
| Price graph (`price-graph/graph.rs`, `tokens.rs`) | edges, adjacency, pool-edge index | `update_pool`, `remove_pool` | owned by the DEX strategy | two edges a pool, index and adjacency agree, no stale rate |
| Arbitrage search (`price-graph/bellman_ford.rs`) | buffers | depth-first search, Bellman-Ford | reads the graph | every path returned is a cycle of the graph with the product claimed |
| Swap arithmetic (`dex-adapters/math`) | none | quote, inverse quote, simulation, ternary search | adapters, strategies | the product of the reserves never falls, the inverse quote suffices, the optimum is found |
| DEX adapters (`dex-adapters/*.rs`) | none | `decode_pool`, `quote` | strategies | pools that are closed, empty or cut short are refused, reserves fit their words |
| DEX strategy (`strategies/dex_arb.rs`) | graph, published copy, counter, vault tracker | `process_update`, simulation of a cycle | cache, channel, backrun strategy | prices come from the cache, not from the graph; amounts chain; no cycle worth taking is missed |
| Backrun strategy (`strategies/backrun.rs`) | none | `evaluate_swap` (no caller) | cache, published copy | as above |
| Lending adapters (`lending-adapters/*.rs`) | none | `decode_obligation` | liquidation strategy | what is offered for liquidation is under water |
| Liquidation strategy (`strategies/liquidation.rs`) | none | `process_update` | channel | at most one opportunity per update |
| Risk limits (`risk/limits.rs`) | limits | `check`, `calculate_tip` | strategy tasks, executor | tips within bounds, only vetted opportunities are traded |
| Blacklist (`risk/blacklist.rs`) | two sets, each under its lock | `check_opportunity`, add, remove, `reload` | strategy tasks | a verdict agrees with the lists in force while it was reached |
| Circuit breaker (`risk/circuit_breaker.rs`) | deque of trades, latch | `record_trade`, `is_allowed`, `reset`, `rolling_pnl` | executor writes, strategies read | trips exactly on a breach, forgets nothing that counts |
| Executor task (`mev-bot/main.rs`, `executor/jito_client.rs`, `tx_builder.rs`) | current opportunity | receive, build, submit, poll, book, stop | channel, block engine, tracker, breaker, counters | the counters balance, each outcome is booked once |
| Bundle tracker (`executor/status_tracker.rs`) | deque of pending bundles | `track`, `poll` | block engine | one outcome per bundle, none lost but by eviction |
| P&L counters (`metrics/pnl.rs`) | atomics | record | executor, strategies | agree with what the breaker is told |
| Shutdown (`mev-bot/main.rs`) | watch channel | ctrl_c | all tasks | every task ends |
| Configuration, metrics server, statistics, transaction stream, instruction builders | - | - | - | not modelled, see section 8 |

What is hard: three receivers drain one broadcast ring at their own pace and may
be overtaken by it; the stream replays old updates; two strategies block on one
bounded channel; the executor awaits the block engine between reading the clock
and using it; the DEX strategy reads a cycle's accounts one by one from a cache that
is being written, and finds the cycle in a graph that may be older; a check of the
blacklist takes a lock for every question; u128 results are cut to u64; requests fail or answer partially; time moves trades out of the
breaker's window; and ctrl_c may come while any task waits for anything.
`PROJECT.json` lists every such hazard at its line.

## 2. Modules

| Module | Models | Kind |
|---|---|---|
| `CircuitBreaker` | `risk/src/circuit_breaker.rs` | component |
| `BundleTracker` | `executor/src/status_tracker.rs` with the block engine it polls | component |
| `BundleLedger` | what a tracker promises | abstract specification, implemented by `BundleTracker` |
| `RiskLimits` | `risk/src/limits.rs` | operators |
| `MevBot` | the tasks of `mev-bot/src/main.rs`; instantiates `BundleTracker` and `CircuitBreaker`, extends `RiskLimits` | composition |
| `UpdateFeed` | data feed, broadcast ring, cache updater, cache, graph updates of the DEX strategy | component with its environment |
| `PriceGraph` | `price-graph/src/graph.rs`, `tokens.rs` | component |
| `QuoteBoard` | what a price graph promises | abstract specification, implemented by `PriceGraph` |
| `ArbSearch` | `price-graph/src/bellman_ford.rs`, `path.rs`; extends `PriceGraph` | pure algorithms on the component's state |
| `Words` | the casts and the wrapping arithmetic of a release build, at any word width | operators |
| `SwapMath` | `dex-adapters/src/math`; extends `Words` | operators |
| `DexAdapters` | `decode_pool` and `quote` of the five adapters; extends `SwapMath` | operators |
| `DexStrategy` | `strategies/src/dex_arb.rs`, `backrun.rs` with the cache they read; extends `DexAdapters` | component with its environment |
| `Blacklist` | `risk/src/blacklist.rs` | component |
| `Lending` | `decode_obligation` of the three lending adapters, `evaluate_obligation`; extends `Words` | operators |
| `Liquidation` | `strategies/src/liquidation.rs` and the vetting of both strategies' opportunities; extends `Blacklist` and `Lending` | composition |
| `SeqFolds` | `.iter().sum()` and the loop that rebuilds a deque | operators |
| `SeqFoldsProofs`, `CircuitBreakerProofs`, `BundleTrackerProofs`, `MevBotProofs`, `UpdateFeedProofs`, `PriceGraphProofs`, `DexStrategyProofs`, `LiquidationProofs` | | theorems and proofs |
| `MC*` | small instances | model checking |

### How state and actions correspond to the code

**CircuitBreaker.** `trades`, `tripped`, `tripped_at` are the fields behind the
mutex; `now` is the clock, in ticks. Every method takes the lock, then the clock,
so each is one action, and trades are pushed in the order of their instants.
`history` records every trade since the last reset and is read by properties
only.

**BundleTracker.** `pending` is the deque; each entry has the number `n` of the
`track` call it stems from, which the code does not keep. `poll` is split at its
await: `StartPoll` reads the clock into `asked`, then `PollError` or `PollReply`
follows. A reply lists any subset of the ids, since the block engine may answer
for some only. `chain` is the block engine's knowledge; `confirmed` and `failed`
are final, and the id `unknown` (NoId), tracked when the engine's answer has no
string, never appears in a reply. An id may be handed out twice: equal
transactions make equal bundles.

**MevBot.** `phase[s]` tells where strategy task `s` is in its `select!` loop:
waiting (`select`), in the loop over one update's opportunities (`batch`), or in
`send().await` (`sending`). `Receive` asks the breaker once per update, as the code does.
What the search finds is abstracted to any short sequence of `Opportunities`, of
which the instance has one that passes and one per reason to be refused. `exec`
is the executor's place; `booking` is the loop over the outcomes `poll` returned,
one outcome per step. `Book` updates the counters and the breaker together: nothing is awaited
between them, and of the two the other tasks read only the breaker's latch.
`StopExecutor` drops the channel with what is queued in it, after which sends
fail (`SendFails`).

**UpdateFeed.** `writes` is the order in which the chain wrote the accounts the
stream delivered, `cursor` the stream's place in it; `Reconnect` moves it back. `sent`
is everything broadcast, of which the ring holds the last `RingCap`;
`position[r]` is receiver `r`'s place. `handle_update` is two steps, the slot
tracker and the broadcast, because other tasks run in between.

**PriceGraph.** `graph` is the struct with its five tables; each method is an
operator from a graph to a graph, composed as the code calls them. Reserves are
given by their logarithms, so that `-ln(rate * (1 - fee))` is the integer
`in - out + fee` and the sum of weights along a path is exact; a profit
threshold becomes `MinGain`. The strategy owns the graph, so there is no
interleaving within a method: the hazard is the order in which pools, tokens,
updates and removals arrive.

**ArbSearch.** The searches read the graph and change nothing, so they are
operators, checked in every reachable graph. Their reference, `ArbitragesAt`, does not
look at edges: it enumerates sequences of pools and input mints over the quotes of
`QuoteBoard`'s mapping. Loops over the edges are folds in edge order, since
Bellman-Ford relaxes in place and its result depends on that order.

**DexAdapters.** An account is a record of the fields its adapter reads; the byte
offsets are left out. A pool that an adapter refuses is the empty set. The virtual
reserves of the concentrated-liquidity pools are computed as the code does, with
square roots of prices as fractions.

**DexStrategy.** The graph is the update each pool's edges come from (the tables
are in `PriceGraph`), so that a stale edge can be told from a fresh one. A cycle is
found in the graph and priced from the cache: `ReadHop` reads one account, with
`CacheUpdate` free to run between two of them; `DropCycle` is every early return of
the simulation, `PriceCycle` its end. `snapshot` is the copy published every
`PublishEvery` updates, which the backrun strategy searches. The order in which
cycles of one anchor are simulated is the search's; the model allows any.
`ProcessUpdate` and `EvaluateSwap` collect the cycles at once, since the graph is
the strategy's own and the copy is replaced, never written. Slots, replay and lag
are in `UpdateFeed`; here both tasks see the chain's writes in order.

**Blacklist.** `Ask` is one question of `check_opportunity`, pool, input and output mint of
a step in turn, each under a read lock. `reload` is `ReloadTokens` then
`ReloadPools`. `always`, `ever` and `covered` are history variables: what was listed
all through a check, some time in it, and whether all complete lists in force
during it ban the path.

**Lending, Liquidation.** An obligation is a record of the fields read and the room its data
leaves for the lists. The floating-point health factor is replaced by the
comparison of the totals it divides. Sums wrap and values are cut as in the code.

## 3. Runs

| Run | Instance | Question and answer |
|---|---|---|
| `breaker` | window 2, limit 2, results -2, -1, 2, clock to 5, 4 trades between resets | holds: `TypeOK`, `NothingInWindowDropped`, `TrippedIffBreached` |
| `tracker` | room for 2, 3 bundles, 2 ids and `unknown`, timeout 1, clock to 3 | holds: `TypeOK`, `OldestFirst`, `OneOutcomeEach`, `LandedIsConfirmed`, `LostOnlyUnderLoad`, `ImplementsLedger`, `EveryBundleSettles` |
| `tracker_late` | the same | **violated**: `FailedIsNotConfirmed` |
| `bot` | 5 opportunities, DEX batches of 2, channel of 1, tracker of 2, 3 bundles, 1 update each | holds: `TypeOK`, `OnlyVettedTraded`, `CountersBalance`, `BreakerFollowsBooks`, `NeverTrips` |
| `bot_shutdown` | 2 opportunities, 1 bundle | holds under fairness: `SendersResume`, `ShutdownStopsTasks` |
| `bot_loss` | 2 opportunities, limit 1 | **violated**: `PausedAfterLoss` |
| `feed` | 2 pools, ring of 2, 3 writes, 3 broadcasts | holds: `TypeOK`, `CacheIsLatestReceived`, `SlotTrackerAhead`, `QuiescentAgree`, and under fairness `EveryUpdateCachedOrMissed`, `TasksStop` |
| `feed_vaults` | one pool with vaults, one without | **violated**: `PoolsPriced` |
| `search` | 3 mints, 4 pools (two of one pair), fees 0 and 1, 2 sizes of reserve, 2 anchors, 3 hops | holds: `TypeOK`, `TablesAgree`, `IndicesStayValid`, `ImplementsBoard`, `DfsExact`, `BellmanFordSound` |
| `strategies` | one pool of each DEX over 3 mints, words of 128, 3 writes, a copy every 2 updates, cycles of up to 3 hops, inputs 3 to 20, threshold ratio 7/6 | holds: `TypeOK`, `QuotesKeepProduct`, `InverseQuoteSuffices`, `OpportunitiesAddUp`, `PricedFromTheCache`, `EveryCycleJudged`, `NothingMissed`, `SnapshotLags` (228 675 states) |
| `vetting` | a token, a pool, an obligation; 11 lending accounts; 2 changes of the lists; words of 32 | holds: `TypeOK`, `VerdictsJustified`, `OffersOnlyUnderwater` (776 034 states) |
| `blacklist_reload` | the same | **violated**: `CoveredIsBlocked` |

Each property is stated in words above its definition. Every property of a
passing run has a mutant, a plausible bug in the code, that TLC catches.

### Bounds, and why they are enough

* Breaker: a window of 2 in a clock of 5 lets every trade age out, a limit of 2
  takes one loss of -2 not to trip and two to trip, and a profit of 2 hides a loss.
* Tracker: three bundles overflow a deque of two; two ids let bundles share
  one; the last tick is later than any timeout (`Track` is guarded so, since a
  clock that stops would keep a bundle from timing out).
* Bot: a channel of one blocks both strategies at once; three bundles overflow
  the tracker's two; every reason of refusal occurs; `Timeout = 0` and one tick
  let a bundle time out.
* Strategies: in words of 128 the product with the slippage wraps, and inverse quotes are
  cut; three writes put three pools on a cycle, or change one between the
  search and its pricing; one pool of the CLMM can be switched off and one Whirlpool drained
  while its edges stay in the graph; two pools share a pair; a copy every two updates
  lags by none and by one. Every adapter decodes an account and one is refused.
* Vetting: two changes and the second half of a reload can all fall between two questions of one
  check; both protocols with value totals have accounts above and below water and values too large
  for the word; of Kamino's lists one is cut at the most items read (two here, ten in the code),
  one announces a deposit too many, and one account's data ends after the first of two deposits.
* Feed: a ring of two is overrun by three broadcasts; three writes in equal or growing
  slots, in any order of accounts, and any replay of them.

* Search: nothing bounds the number of calls, the state space is finite by
  itself. Four pools in every order of arrival; two share a pair and list its mints
  in opposite orders; the weights are -1 to 2, so cycles of gain below, at and
  above the threshold occur; a triangle needs exactly the hop limit, which is
  `config/default.toml`'s. With three mints a traced cycle has at most three hops,
  so the upper limit of `trace_cycle`, four, is not reached.

### Fairness

Only `EveryBundleSettles`, `SendersResume`, `ShutdownStopsTasks`,
`EveryUpdateCachedOrMissed` and `TasksStop` assume fairness; everything said of
`DexStrategy` and `Liquidation` is safety. Nothing is assumed of the user, the chain
or the stream. Running tasks go on
(weak fairness); requests end, with an answer or an error (weak fairness of their
disjunction); `select!` chooses at random among ready branches, so a branch that
is ready again and again is taken (strong fairness of `StopStrategy`,
`StopExecutor` and of taking an opportunity). `EveryBundleSettles` also needs the block
engine to answer some poll if polls go on for ever (strong fairness of
`PollReply`): the code retries without limit and nothing else ends an outage.

## 4. What the violated properties say of the code

1. `FailedIsNotConfirmed` - `poll` tests the timeout before it looks at the
   status it just received, so a confirmed bundle may be reported as failed.
2. `PausedAfterLoss` - the breaker is told the expected profit of a landed bundle
   and zero for a failed one. It is never told a loss, while a landed bundle,
   whose swap instructions are empty, costs its tip. `NeverTrips` states the other
   side: in the running bot the breaker cannot trip.
3. `PoolsPriced` - the reserves of Raydium AMM pools are in token accounts that no
   subscription filter streams, so those pools never get edges.
4. `CoveredIsBlocked` - `reload` replaces the tokens, then the pools, each under its own
   lock, and a check asks question by question. An opportunity that both the old
   and the new lists ban passes when the old ones ban its token and the new ones its
   pool. No task calls `reload` today; `VerdictsJustified` is what does hold.

Seen while modelling, and not the subject of a run:

* Equal transactions make bundles with one id (`tx_builder.rs:58`), and the tracker keeps an entry for
  each call of `track`: one landing is then booked for both entries, in the counter of landed bundles, in
  the P&L and in the breaker. TLC reaches such a state in the instance of `bot`; `OneOutcomeEach`
  and `BooksAreConfirmed` count calls of `track`, not bundles of the chain.
* The breaker compares the limit only when a trade is recorded: when a profit
  leaves the window, the rolling loss may exceed the limit while `is_allowed` stays
  true (`circuit_breaker.rs:6-7`).
* On a full channel the strategy waits; the warning that says it drops is logged
  only when the executor is gone.
* In Bellman-Ford the edge that reveals a negative cycle is not entered as a
  predecessor before `trace_cycle` walks back, so a cycle that closes with it may be
  missed (`bellman_ford.rs:82-85`). The search in use, the depth-first one, is exact.
* All lending adapters leave mints at `Pubkey::default()` (`kamino.rs:82`), so a banned
  token never blocks a liquidation. Marginfi adds up token amounts, not values. A
  market value is cut to a u64 before it is scaled (`kamino.rs:78`, `106`): an account
  with a deposit that does not fit can look under water.
* The minimum output of a hop is below what the next hop is fed: if a hop pays the
  minimum, the next one lacks input (`dex_arb.rs`, `backrun.rs`).
* A cycle is found and priced once from every anchor on it.
* The profit over the input has plateaus where integer division gives nothing more; the ternary search
  assumes one peak. `NothingMissed` measures the loss on the instance: at most `Rounding`.
* A cycle is priced only if the product of its rates exceeds 1.0001 (`0.0001`, `dex_arb.rs:137`). With
  inputs up to 10^10 (`dex_arb.rs:198`) one below that may earn up to about 10^6 lamports, while
  the default minimum profit is 50 000: the threshold, not the minimum, decides. `NothingMissed`
  therefore promises only cycles that earn more than it forgoes (`Forgone`).

## 5. What is proved

TLAPS checks the theorems below for every value of the constants that satisfies
the named assumptions of the modules (`BreakerAssumption`, `TrackerAssumption`,
`BotAssumption`, `RiskAssumption`, `FeedAssumption`, `GraphAssumption`,
`SearchAssumption`, `WordAssumption`, `MathAssumption`, `AdapterAssumption`, `StrategyAssumption`,
`BlacklistAssumption`, `LendingAssumption`, `LiquidationAssumption`): any window, limit, deque
bound, timeout, channel size, number of strategies, ids, accounts, word width,
fees, lists. The bounds on
clocks and counters are constants too, so the theorems hold for any of them.

| Theorem | States, for every reachable state |
|---|---|
| `CircuitBreakerProofs!BreakerTypes`, `EvictionSound`, `TripExact` | types; the deque drops only what has left the window and `rolling_pnl` is the window's sum; the latch is set exactly by the first breach |
| `BundleTrackerProofs!TrackerTypes`, `DequeOrdered`, `OutcomesUnique`, `LandedSound`, `LossBounded` | types; deque bounded and in order; one outcome each; landed means confirmed; lost only under load |
| `BundleTrackerProofs!TrackerImplementsLedger` | the tracker implements `BundleLedger` |
| `BundleTrackerProofs!FailuresJustified` | a bundle is reported failed only if the chain failed it or it had timed out when the poll asked: what is left true beside `FailedIsNotConfirmed` |
| `MevBotProofs!BotTypes`, `VettedOnly`, `CountersAddUp`, `BooksAgree`, `BreakerIdle` | types; only vetted opportunities are traded; the counters balance; breaker and P&L agree; the breaker never trips |
| `MevBotProofs!BotRunsTracker`, `BotRunsBreaker` | the bot's behaviours are behaviours of the two components |
| `MevBotProofs!BotKeepsLedger`, `BotLosesOnlyUnderLoad`, `BotFailuresJustified`, `BotBreakerExact` | so what the components promise holds in the bot, between all its tasks |
| `MevBotProofs!BooksAreConfirmed` | the P&L is the sum of expected profits of vetted opportunities whose bundles the chain confirmed, one for each call of `track` that settled as landed (two calls that share an id are both booked) |
| `UpdateFeedProofs!FeedTypes`, `TrackerLeads`, `CacheLatest` | types; the slot tracker leads; the cache holds the latest received value of the highest slot |
| `UpdateFeedProofs!CacheAndGraphAgree` | when all is delivered and taken, cache and graph hold the chain's last state of each pool |
| `PriceGraphProofs!GraphTypes`, `TablesConsistent`, `IndicesStable` | types; registry, edges, index and adjacency lists agree; indices never change their meaning |
| `PriceGraphProofs!GraphImplementsBoard` | the price graph implements `QuoteBoard` |
| `DexStrategyProofs!StrategyTypes` | types: every amount of an opportunity is a u64 and every index is in range |
| `DexStrategyProofs!ProductsAreKept`, `InverseQuotesSuffice` | no quote takes from the product of the reserves; the inverse quote, uncut, suffices |
| `DexStrategyProofs!PricesComeFromTheCache` | every opportunity was priced from usable accounts that were cached after its evaluation began |
| `PriceGraphProofs!DepthFirstExact` | the depth-first search finds every arbitrage cycle through an anchor within the hop limit, each once, and nothing else |
| `PriceGraphProofs!BellmanFordReportsSound` | what Bellman-Ford reports are arbitrage cycles, and no two share a token |
| `DexStrategyProofs!OpportunitiesBalance` | every opportunity is a round trip through distinct pools whose amounts chain and whose profit is the difference |
| `DexStrategyProofs!CyclesAreJudged` | once the DEX strategy is idle, every cycle of its graph has been priced from accounts cached meanwhile, and what paid was kept |
| `DexStrategyProofs!OnlyArithmeticMisses` | `NothingMissed`, as long as the arithmetic serves (below) |
| `DexStrategyProofs!SearchFindsPeak`, `SearchEarnsPeak` | the ternary search ends within the precision of the peak, and forgoes at most slope times precision (of the pure function, below) |
| `DexStrategyProofs!SnapshotsLag` | graph and published copy are the decoded updates, all of them or all but the last few |
| `LiquidationProofs!VettingTypes`, `VerdictsHaveReasons` | types; a verdict agrees with the lists in force while it was reached |
| `LiquidationProofs!OffersAreUnderwater` | a Kamino or Save account in hand owes more than it holds, give or take one unit a deposit, if what it holds fits a u64 |

Four theorems of the specifications assume more than their modules do. `VettedOnly` needs
`MinTip <= MinProfit` and `TipNum <= TipDen`: with a minimum profit below
`MIN_TIP_LAMPORTS` (10 000) the floor of `calculate_tip` would exceed the profit.
`config/default.toml` (50 000 and 0.50) satisfies both, and nothing in the code
checks them. `BreakerIdle` needs `MinProfit >= 0` and `MaxLoss >= 0`. `OpportunitiesBalance`
needs `ConfigurationInRange`: minimum profits are not negative and the slippage factors,
995 in 1000 in `dex_arb.rs`, are at most one.

`OnlyArithmeticMisses` is conditional: for a positive minimum profit, `NothingMissed` holds in every
behaviour in which `ArithmeticServes` does. That hypothesis speaks of two pure functions on the
graph of each state and of nothing else: on every round trip the optimizer's answer is
within `Rounding` of what any input earns, and a ratio below the threshold forgoes at most `Forgone`. So
whatever is missed is missed by them; no interleaving, stale entry or bookkeeping of the strategy loses a cycle.
TLC finds `ArithmeticServes` to hold in every state of `strategies` (add it to
`DexStrategy.cfg` to repeat that).

`SearchFindsPeak` and `SearchEarnsPeak` are about `optimize_arb_amount` on any hops. `Peaked` supposes
that profits rise up to the peak and do not rise after it, seen from inputs a third of the precision
apart; in between, rounding may have them go up and down. `EnoughRounds` supposes that taking a third off the range once per
round gets below the precision: for 10^10 and a precision of 1000 that takes 40 rounds of the 50 there are.
The second theorem supposes too that the peak earns most and that neighbouring inputs
differ by at most `slope` in what they earn; the answer then earns at most
`slope * Precision` less than any other. Two pools of 2000 for 3000 and 2500 for 2400 with a fee of 0.3% and a
precision of 90 satisfy all of it: five peaks from 167 to 175, a slope of 1, and the answer 175.

`FeedAssumption` says that no vault is a pool (they have different owners);
`StrategyAssumption` says of the accounts that the fields read are unsigned and
that their mints are mints, and of the configuration that sizes are numbers that fit;
the slippage of the backrun strategy must not exceed 10 000 basis points (above that the
code's subtraction wraps), and no input is more than half a u64, or the difference that is
cast to i64 could turn a loss into a profit (2^63 lamports are more than there are).
`SearchAssumption` takes the profit threshold for a number not below zero: every caller passes a positive
ratio. `LendingAssumption` takes scales and record sizes for positive, as the code's
constants are, and `CollateralSize <= LengthSize + LiquiditySize`, 56 <= 84: when the data
ends within the first list, nothing is read of the second. `LiquidationAssumption` takes
an account's values for unsigned and its lists for as long as what is read of them.

### The inductive invariants

* **Breaker.** `WindowInDeque`, the first half of `NothingInWindowDropped`, speaks of the window at
  the present instant, and is inductive only together with the order of the history (no
  trade is younger than one recorded later, or than the clock): what is outside
  the window stays outside. `TrippedIffBreached` then needs that the sum over
  the deque is the sum over the window of the whole history (`WindowSum`), and from the same
  facts `RollingExact` derives the other half, that `rolling_pnl` is that sum.
* **Tracker.** `OldestFirst`, `OneOutcomeEach` and `LostOnlyUnderLoad` need
  `Numbered`: pending bundles and outcomes have numbers and instants not beyond
  the counter and the clock. A bundle evicted from a full deque in the order of
  numbers is at least `MaxPending` behind the counter (`OldestNumber`). For
  `poll`, `RetainSplits` says that the rebuilt deque and the outcomes share the
  old deque out, each in its order.
* **Ledger.** The refinement mapping is `fate`, a function of the numbers of
  `pending` and `outcomes`. `Track` moves one bundle from new to awaiting and at
  most one, the oldest, to forgotten; `PollReply` moves a set of bundles to their
  verdicts; everything else is a stutter.
* **Bot.** The invariant has four parts: the strategies' batches (the
  head of a batch in `send` is approved), the queue (only approved
  opportunities), the tracker (its own invariant, and only trades of approved
  opportunities) and the books. The proof is compositional: `TrackerStep` and
  `BreakerStep` show that a step of the bot is a step of the component or leaves
  it alone, so the components' invariants are preserved by their own proofs. The
  bot's part of the invariant is needed for that: the tracker's step requires
  the submitted trade, and the breaker's step the recorded result, to be in the
  sets their specifications quantify over.
* **Feed.** `TypeInv` adds to the types that the n-th write's slot is at most n,
  which bounds the slot tracker. `TrackerLeads` needs `HandledSeen`: the message
  being handled has been shown to the slot tracker, though not yet broadcast.
  `CacheIsLatestReceived` is inductive with `TypeInv`: the new update is compared
  with the cached one, which outranks all others received. `QuiescentAgree` needs three
  more facts: the chain's order (`ChainOrder`: slots never decrease), that what is
  broadcast comes from the chain (`SentFromChain`), and `ReplaysCatchUp`: up to the point
  the stream has reached, every write broadcast is followed by all the later ones. So the
  last write to a pool is broadcast after all others to it, which is what the graph holds
  (`GraphIsLastTaken`), and the cache's choice cannot be another (`LastWriteSent`).
* **Price graph.** `TablesAgree` is inductive only with two more facts: every entry of
  an adjacency list is an edge and every edge's source has a list (`Listed`), and a
  pool has both edges or none (`BothWays`), without which `remove_pool` of half a pool
  would not map to a step of the board. Inside `update_pool` the second fact and the
  equal lengths fail for a while, so each method has a lemma about the weaker
  `Sound`, and `QuoteSound` puts them together.
* **Depth-first search.** Nothing of the graph but the invariant is needed, with one more
  fact that is inductive after it (`AllPaired`, theorem `QuotesPaired`): a pool's edges lead
  there and back between its two mints. The search is a recursive function of the hops
  left, so the proof is an induction over them: from a path, `SearchLists` says, it lists
  the closed paths that begin with it (`Enumerates`: as a set, and each once). One step
  lists the usable edges onward, explores each, and flattens; the lists are disjoint because
  the paths in them differ at the next edge (`FlattenLists`). `ClosedIsArbitrage` and
  `ArbitrageIsClosed` then say that the hops of the closed paths are the arbitrages: an edge and
  the quote of its pool name each other, and the weights add up along a path to the gain.
* **Bellman-Ford.** Its report is right whatever distances the passes end with; what counts is that
  each predecessor is a usable edge into its node (`RelaxSound`, kept by every step). A walk
  along predecessors that is as long as there are nodes meets a node twice, by the pigeonhole
  principle, and goes round from there on (`LongWalksCycle`), so what is traced
  is a cycle. Two nodes of it on one pool would make it the trip there and back, whose gain
  is not positive (`SamePool`, `TracedPools`): the threshold then rules it out. For the second half,
  the marks: a cycle with one unmarked node has no marked one (`UnmarkedCycle`), and
  marking a traced cycle marks all of it (`Marking`). These are kept
  through the fold over the edges (`DetectSound`).
* **DEX strategy.** `PricedFromTheCache` speaks of finished opportunities and is inductive
  only with the same fact about the accounts already read for the cycle in hand
  (`InHand`: fewer than the cycle has hops, each `Backed`), and with `Cached`: the entry
  of an account stems from an update of that account, and entries only grow, so
  one that was in the cache after the evaluation began is between the entry then and
  the entry now. What the search returns is a sequence of hops and not empty
  (`CyclesLong`), or the next account to read would not be defined. `SnapshotLags`
  needs that the counter never exceeds the updates decoded, and that a decoded update
  is the newest (`GraphAfterOneMore`). The types of amounts rest on two recursive
  functions, the amounts along a path and the ternary search; `StepsExist` and
  `StepsStay` say that such a function exists and stays in a set its steps stay in.
* **Every cycle.** `EveryCycleJudged` speaks of an idle strategy. Inductive is `AllAccounted`: each
  cycle of the graph is still to be looked at, in hand, or judged. A judged one stays judged: what was read lies
  between the cache when the evaluation began and the cache now, and that interval only grows
  (`CacheOnlyGrows`); an account once broadcast never changes, so the cycle would still be priced the
  same (`SameSteps`). A cycle leaves the one in hand only with its opportunities found.
* **Misses.** `OnlyArithmeticMisses` adds `GraphUsable`: the pools of the graph were usable when it took them. If
  the cache still holds what the graph was built from, the accounts by which a cycle was judged are those (`JudgedOnTheGraph`),
  so its hops are the hops of the hypothesis, and the optimizer's profit passes the strategy's test.
* **Ternary search.** `Round` is one round as a function of the range. A round drops the third that has not the
  peak, since one of the two points compared is beyond it (`RoundKeepsPeak`), and takes a third off
  (`RoundShrinks`); the induction is over the rounds. For the loss, an induction over
  the distance from the peak (`SlopeBounds`).
* **Opportunities.** `OpportunitiesAddUp` is inductive with `Balanced`: the cycles still to be
  evaluated, and the one in hand, are round trips through distinct pools. That the profit
  cannot wrap takes the bound on the inputs: what comes out is a u64, so the difference as
  an i64 is either the true one or negative. The minimum outputs are fractions of what is
  bought, by the facts about products and quotients.
* **Quotes.** The fee, rounded down and cut, only makes the input smaller, and the
  quotient is rounded down: `(in + amount) * (out - bought)` is at least the
  product (`SwapKeepsProduct`). Backwards, both divisions round down and add one, which
  is more than was cut off (`InverseReaches`). The facts about division are proved
  from its defining inequalities (`DivisionBounds`).
* **Vetting.** The lists in force lie between what was listed all through a check
  and what was listed some time in it (`Watched`); no question answered so far was
  about something listed all through, and a path is passed only after its last
  question (`Progress`).
* **Liquidation.** An account in hand is one that `process_update` made an offer of (`InHand`).
  The comparison made is of totals cut to a u64, of values cut, scaled and rounded down one
  by one, over as many items as the data holds. `OffersAreUnderwater` follows it back: what was
  read of the deposits is at most a unit below each (`SumSeqScaled`, `SumSeqAtMost`), none
  is missed unless no borrow is read either, and what was read of the borrows is at most what is owed.

Facts about sums and about retaining elements of a sequence are proved in
`SeqFoldsProofs` from the recursive functions of `SeqFolds`. The induction there
is over a set of naturals (`SetInduction`, from the least element of a set): the
searches' proofs use it too, for sets written out, since no prover installed instantiates an
induction theorem over an operator.

## 6. What is only model-checked

* `EveryBundleSettles`, `SendersResume`, `ShutdownStopsTasks`,
  `EveryUpdateCachedOrMissed`, `TasksStop`: liveness under fairness is beyond the
  prover.
* `NothingMissed` without a hypothesis: what the ternary search misses depends on the pools, so the
  property holds for no fixed `Rounding` of all of them; the constant bounds the loss of the instance.
  What is proved is that nothing else misses a cycle (`OnlyArithmeticMisses`), and what the
  search loses where the profit has a peak (`SearchEarnsPeak`). That the profit of a path has one, up to
  rounding, follows from the concavity of its swaps over the reals, which is beyond these provers.
* Bellman-Ford is proved sound and is not complete (section 4), so no property says what it
  must find.
* The violated properties of section 4: each run is its counterexample.

## 7. Plan

Done: all modules of section 2. Every invariant and action property of the passing runs has a
theorem, `NothingMissed` a conditional one. What would come next:

1. That integer profits of constant-product paths are `Peaked` to within a precision that depends on the reserves.
2. `MevBot`'s refusals refined by `Blacklist`, which has its own run, and its finds by `DexStrategy`.
3. The transaction stream and `detect_swap`, when a task of `main` starts them.

## 8. What is not modelled, and why

* Byte offsets and the decoding of instructions, transaction encoding and signing,
  HTTP: pure conversions and I/O. What the control logic sees of them (failure,
  absence, equal bundles, accounts too short) is in the models.
* `build_swap_ix` and `build_liquidation_ix`: no caller; the transactions the bot sends
  hold the tip only. `price_impact_bps` is only displayed.
* Memory: `kamino.rs:99` reserves room for as many borrows as the account announces before it
  reads at most ten of them. The model has the reading, not the reservation.
* Floating-point rounding of the tip, of edge weights and of the health factor (two totals
  that differ may divide to 1.0 above 2^53), and overflow of sums of lamports.
* Configuration loading (before any concurrency), the metrics exporter and the
  statistics log (output only).
* The transaction stream, `detect_swap`, `prefetch`, `AccountCache::remove`: no task of `main`
  calls them. (`CircuitBreaker::reset`, `swap_base_out`, `evaluate_swap` and the
  blacklist's `add`, `remove` and `reload` have no caller either, but are modelled as part of
  their types' interfaces.)
* Process crash: nothing is persisted, so a restart is `Init`.
