------------------------------ MODULE UpdateFeed ------------------------------
(***************************************************************************)
(* From the chain to the DEX strategy: the LaserStream subscription with   *)
(* replay, the broadcast channel every task receives from at its own pace, *)
(* the cache updater with its slot-gated cache, and the DEX strategy with  *)
(* its price graph, which takes some reserves from that cache.             *)
(*                                                                         *)
(* An update stands for an account's whole data: its index n in the order  *)
(* of the chain's writes, which only the model knows, and its slot.        *)
(***************************************************************************)
EXTENDS Integers, Sequences

CONSTANTS
  Pools,      \* pool accounts: owned by a DEX program, hence subscribed to
  Vaults,     \* Vaults[p]: token accounts the reserves of p are read from;
              \* empty for pools whose data holds the reserves
  RingCap,    \* capacity of the broadcast channel
  NoAccount,  \* nothing cached, no edges
  MaxWrites,  \* bound: writes on the chain
  MaxSent     \* bound: updates broadcast, replayed ones included

ASSUME FeedAssumption ==
  /\ RingCap \in Nat \ {0}
  /\ MaxWrites \in Nat /\ MaxSent \in Nat
  \* vaults belong to the token program, pools to a DEX program
  /\ \A p \in Pools : Vaults[p] \cap Pools = {}
  /\ NoAccount \notin [account : Pools, slot : Nat, n : Nat]

VARIABLES
  writes,    \* external: the chain's writes the stream has delivered, in order
  cursor,    \* external: writes the stream has delivered since the last replay
  feed,      \* the feed task: "streaming", "handling" a message, "stopped"
  latest,    \* SlotTracker::latest_slot
  sent,      \* every update broadcast so far; the ring holds the last RingCap
  position,  \* updates each receiver has behind it, taken or skipped
  received,  \* history variable: the updates each receiver has taken
  updater,   \* the cache updater task: "select", "stopped"
  cache,     \* AccountCache
  strategy,  \* the DEX strategy task: "select", "stopped"
  graph,     \* the update each pool's edges were computed from
  shutdown   \* the watch channel's value

feedVars == <<writes, cursor, feed, latest, sent>>
receiverVars == <<position, received>>
updaterVars == <<updater, cache>>
strategyVars == <<strategy, graph>>
vars == <<feedVars, receiverVars, updaterVars, strategyVars, shutdown>>

Receivers == {"cache", "dex_arb"}
Accounts == Pools \cup UNION {Vaults[p] : p \in Pools}
Updates == [account : Pools, slot : 0..MaxWrites, n : 1..MaxWrites]

Init ==
  /\ writes = <<>> /\ cursor = 0
  /\ feed = "streaming" /\ latest = 0 /\ sent = <<>>
  /\ position = [r \in Receivers |-> 0]
  /\ received = [r \in Receivers |-> {}]
  /\ updater = "select"
  /\ cache = [a \in Accounts |-> NoAccount]
  /\ strategy = "select"
  /\ graph = [p \in Pools |-> NoAccount]
  /\ shutdown = FALSE

------------------------------------------------------------------------------
(* The chain and the stream *)

LastSlot == IF writes = <<>> THEN 0 ELSE writes[Len(writes)].slot

\* External: the chain's next write, in the current slot or the next one.  Only
\* accounts owned by a subscribed program are streamed, and no vault is.
NewWrites ==
  [account : Pools, slot : {LastSlot, LastSlot + 1}, n : {Len(writes) + 1}]

\* External: what the stream delivers next, a write it replays or else a new one.
Deliveries ==
  IF cursor < Len(writes) THEN {writes}
  ELSE {Append(writes, w) : w \in NewWrites}

\* An error item: the client reconnects and replays from an earlier write.
Reconnect ==
  /\ feed = "streaming"
  /\ \E earlier \in 0..(cursor - 1) : cursor' = earlier
  /\ UNCHANGED <<writes, feed, latest, sent, receiverVars, updaterVars, strategyVars, shutdown>>

Newest_Add(a, b) == a + b

\* fetch_max.
Newest(a, b) == IF a >= b THEN a ELSE b

TakeMessage_StoreSlot ==
  /\ feed = "streaming"
  /\ cursor < MaxWrites /\ Len(sent) < MaxSent
  /\ writes' \in Deliveries
  /\ cursor' = cursor + 1
  /\ latest' = writes'[cursor + 1].slot
  /\ feed' = "handling"
  /\ UNCHANGED <<sent, receiverVars, updaterVars, strategyVars, shutdown>>

\* handle_update: the slot tracker first ...
TakeMessage ==
  /\ feed = "streaming"
  /\ cursor < MaxWrites /\ Len(sent) < MaxSent
  /\ writes' \in Deliveries
  /\ cursor' = cursor + 1
  /\ latest' = Newest(latest, writes'[cursor + 1].slot)
  /\ feed' = "handling"
  /\ UNCHANGED <<sent, receiverVars, updaterVars, strategyVars, shutdown>>

\* ... then the broadcast.  send() never waits: it overwrites the oldest update
\* of a full ring.
Broadcast ==
  /\ feed = "handling"
  /\ sent' = Append(sent, writes[cursor])
  /\ feed' = "streaming"
  /\ UNCHANGED <<writes, cursor, latest, receiverVars, updaterVars, strategyVars, shutdown>>

\* The stream ends, or shutdown was signalled: the task drops the sender.
FeedStops ==
  /\ feed = "streaming"
  /\ feed' = "stopped"
  /\ UNCHANGED <<writes, cursor, latest, sent, receiverVars, updaterVars, strategyVars, shutdown>>

Shutdown ==
  /\ ~shutdown
  /\ shutdown' = TRUE
  /\ UNCHANGED <<feedVars, receiverVars, updaterVars, strategyVars>>

------------------------------------------------------------------------------
(* The receiving end of the broadcast channel *)

Oldest == IF Len(sent) > RingCap THEN Len(sent) - RingCap ELSE 0
Lagging(r) == position[r] < Oldest
HasUpdate(r) == ~Lagging(r) /\ position[r] < Len(sent)
Closed(r) == feed = "stopped" /\ position[r] = Len(sent)
Upcoming(r) == sent[position[r] + 1]
Take(r) ==
  /\ position' = [position EXCEPT ![r] = @ + 1]
  /\ received' = [received EXCEPT ![r] = @ \cup {position[r] + 1}]

\* recv() reports Lagged, once, and goes on at the oldest update of the ring.
Skip(r) ==
  /\ Lagging(r)
  /\ position' = [position EXCEPT ![r] = Oldest]
  /\ UNCHANGED received

------------------------------------------------------------------------------
(* The cache updater *)

Supersedes_StrictlyNewer(update, cached) ==
  cached = NoAccount \/ update.slot > cached.slot

\* AccountCache::update, under the entry's lock.
Supersedes(update, cached) ==
  cached = NoAccount \/ update.slot >= cached.slot

CacheUpdate ==
  /\ updater = "select"
  /\ HasUpdate("cache")
  /\ LET update == Upcoming("cache")
     IN  cache' = IF Supersedes(update, cache[update.account])
                  THEN [cache EXCEPT ![update.account] = update] ELSE cache
  /\ Take("cache")
  /\ UNCHANGED <<feedVars, updater, strategyVars, shutdown>>

CacheLagged_Stops ==
  /\ updater = "select"
  /\ Skip("cache")
  /\ updater' = "stopped"
  /\ UNCHANGED <<feedVars, cache, strategyVars, shutdown>>

CacheLagged ==
  /\ updater = "select"
  /\ Skip("cache")
  /\ UNCHANGED <<feedVars, updaterVars, strategyVars, shutdown>>

CacheStops ==
  /\ updater = "select"
  /\ Closed("cache") \/ shutdown
  /\ updater' = "stopped"
  /\ UNCHANGED <<feedVars, receiverVars, cache, strategyVars, shutdown>>

------------------------------------------------------------------------------
(* The DEX strategy *)

\* A pool whose data holds no reserves has some only once its vaults are cached;
\* update_pool skips a pool without reserves.
Priced(p) == \A v \in Vaults[p] : cache[v] # NoAccount

GraphAfter_NewerSlotOnly(update) ==
  IF Priced(update.account) /\ (graph[update.account] = NoAccount \/ update.slot > graph[update.account].slot)
  THEN [graph EXCEPT ![update.account] = update] ELSE graph

\* The edges take the reserves of the update at hand, whatever its slot.
GraphAfter(update) ==
  IF Priced(update.account) THEN [graph EXCEPT ![update.account] = update] ELSE graph

\* process_update.  The search that follows reads the cache and the graph and
\* changes neither.
ProcessUpdate ==
  /\ strategy = "select"
  /\ HasUpdate("dex_arb")
  /\ graph' = GraphAfter(Upcoming("dex_arb"))
  /\ Take("dex_arb")
  /\ UNCHANGED <<feedVars, updaterVars, strategy, shutdown>>

StrategyLagged ==
  /\ strategy = "select"
  /\ Skip("dex_arb")
  /\ UNCHANGED <<feedVars, updaterVars, strategyVars, shutdown>>

StrategyStops_IgnoresClosed ==
  /\ strategy = "select"
  /\ shutdown
  /\ strategy' = "stopped"
  /\ UNCHANGED <<feedVars, receiverVars, updaterVars, graph, shutdown>>

StrategyStops ==
  /\ strategy = "select"
  /\ Closed("dex_arb") \/ shutdown
  /\ strategy' = "stopped"
  /\ UNCHANGED <<feedVars, receiverVars, updaterVars, graph, shutdown>>

Next ==
  \/ Reconnect \/ TakeMessage \/ Broadcast \/ FeedStops
  \/ Shutdown
  \/ CacheUpdate \/ CacheLagged \/ CacheStops
  \/ ProcessUpdate \/ StrategyLagged \/ StrategyStops

Spec == Init /\ [][Next]_vars

\* Every receive loop goes on while there is something to receive; select! takes
\* a branch that stays ready in the end.
\* Nothing is assumed of the chain, the stream or the user.
Fairness ==
  /\ WF_vars(Broadcast)
  /\ WF_vars(CacheUpdate \/ CacheLagged) /\ WF_vars(CacheStops)
  /\ WF_vars(ProcessUpdate \/ StrategyLagged) /\ WF_vars(StrategyStops)

FairSpec == Spec /\ Fairness

------------------------------------------------------------------------------
(* Properties *)

\* Every variable keeps its type.
TypeOK ==
  /\ writes \in Seq(Updates) /\ cursor \in 0..Len(writes)
  /\ feed \in {"streaming", "handling", "stopped"}
  /\ feed = "handling" => cursor > 0
  /\ latest \in 0..MaxWrites
  /\ sent \in Seq(Updates)
  /\ position \in [Receivers -> 0..Len(sent)]
  /\ updater \in {"select", "stopped"}
  /\ DOMAIN received = Receivers
  /\ \A r \in Receivers : received[r] \subseteq 1..position[r]
  /\ cache \in [Accounts -> Updates \cup {NoAccount}]
  /\ strategy \in {"select", "stopped"}
  /\ graph \in [Pools -> Updates \cup {NoAccount}]
  /\ shutdown \in BOOLEAN

\* Update j takes the place of update i in the cache, whichever came first.
Outranks(j, i) ==
  sent[j].slot > sent[i].slot \/ (sent[j].slot = sent[i].slot /\ j >= i)

ReceivedFor(a) == {i \in received["cache"] : sent[i].account = a}

\* Whatever the stream replays and the updater misses, the cache holds for each
\* account the last of the updates with the highest slot among those received,
\* and nothing only if none was received.
CacheIsLatestReceived ==
  \A a \in Accounts :
    IF ReceivedFor(a) = {} THEN cache[a] = NoAccount
    ELSE \E j \in ReceivedFor(a) :
           cache[a] = sent[j] /\ \A i \in ReceivedFor(a) : Outranks(j, i)

\* No task ever holds data of a slot the slot tracker has not seen: the tracker
\* is updated before the broadcast, and replays never take it back.
SlotTrackerAhead ==
  /\ \A i \in 1..Len(sent) : sent[i].slot <= latest
  /\ \A p \in Pools : graph[p] # NoAccount => graph[p].slot <= latest
  /\ \A a \in Accounts : cache[a] # NoAccount => cache[a].slot <= latest

CaughtUp(r) == received[r] = 1..Len(sent)
Delivered == cursor = Len(writes) /\ feed = "streaming"
WritesTo(p) == {i \in 1..Len(writes) : writes[i].account = p}

\* Once the stream has delivered every write and both receivers have taken every
\* update, the cache and the graph agree on each pool, and both hold its
\* last state on the chain: replays and equal slots leave nothing behind.
QuiescentAgree ==
  Delivered /\ (\A r \in Receivers : CaughtUp(r)) =>
    \A p \in Pools : \A i \in WritesTo(p) :
      (\A j \in WritesTo(p) : j <= i) =>
        /\ cache[p] = writes[i]
        /\ Priced(p) => graph[p] = writes[i]

\* The updater takes every update broadcast unless it was so slow that the ring
\* has overwritten it, or ctrl_c came: none is lost to an earlier lag, nor to the
\* end of the stream.
EveryUpdateCachedOrMissed ==
  \A i \in 1..MaxSent :
    Len(sent) >= i ~> i \in received["cache"] \/ i + RingCap <= Len(sent) \/ shutdown

\* The receiving tasks end on ctrl_c, and when the feed has ended and they have
\* drained what it broadcast.
TasksStop ==
  shutdown \/ feed = "stopped" ~> updater = "stopped" /\ strategy = "stopped"

\* What the comment on DexArbStrategy says ("On each pool account update: 1.
\* Decode the pool state 2. Update the price graph"): every pool whose update was
\* processed has edges in the graph.
PoolsPriced == \A i \in received["dex_arb"] : graph[sent[i].account] # NoAccount
==============================================================================
