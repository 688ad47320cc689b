--------------------------- MODULE UpdateFeedProofs ---------------------------
(***************************************************************************)
(* Type correctness of UpdateFeed, the slot tracker's lead over all data,  *)
(* what the slot-gated cache and the ungated graph hold, and that both end *)
(* with the chain's last state, for any number of pools, writes, replays   *)
(* and any capacity of the ring.                                           *)
(***************************************************************************)
EXTENDS UpdateFeed, TLAPS

\* The n-th write has a slot of at most n, so slots stay within their type.
SlotsBounded ==
  /\ Len(writes) <= MaxWrites
  /\ \A i \in 1..Len(writes) : writes[i].slot <= i

TypeInv == TypeOK /\ SlotsBounded

\* The fields of an update.
LEMMA UpdateFields ==
  ASSUME NEW u \in Updates
  PROVE  /\ u.account \in Pools /\ u.account \in Accounts
         /\ u.slot \in 0..MaxWrites /\ u.slot \in Nat /\ u.n \in 1..MaxWrites
         /\ u # NoAccount
BY FeedAssumption DEF FeedAssumption, Updates, Accounts

\* What the chain delivers next, after what it has delivered.
LEMMA DeliveryTypes ==
  ASSUME TypeInv, cursor < MaxWrites, NEW w \in Deliveries
  PROVE  /\ w \in Seq(Updates) /\ Len(w) <= MaxWrites
         /\ cursor + 1 \in 1..Len(w)
         /\ \A i \in 1..Len(w) : w[i].slot <= i
<1>1. CASE cursor < Len(writes)
  BY <1>1 DEF TypeInv, TypeOK, SlotsBounded, Deliveries
<1>2. CASE ~(cursor < Len(writes))
  <2>1. cursor = Len(writes) /\ Len(writes) \in Nat /\ Len(writes) < MaxWrites
    BY <1>2 DEF TypeInv, TypeOK
  <2>2. PICK u \in NewWrites : w = Append(writes, u)
    BY <1>2 DEF Deliveries
  <2>3. LastSlot \in 0..Len(writes)
    <3>1. CASE writes = <<>>
      BY <3>1, <2>1 DEF LastSlot
    <3>2. CASE writes # <<>>
      <4>1. Len(writes) \in 1..Len(writes) /\ writes[Len(writes)] \in Updates
        BY <3>2, <2>1 DEF TypeInv, TypeOK
      <4> QED BY <4>1, <3>2, UpdateFields DEF LastSlot, TypeInv, SlotsBounded
    <3> QED BY <3>1, <3>2
  <2>4. u.account \in Pools /\ u.slot \in {LastSlot, LastSlot + 1} /\ u.n = Len(writes) + 1
    BY DEF NewWrites
  <2>5. u.slot \in 0..MaxWrites /\ u.slot <= Len(writes) + 1
    BY <2>1, <2>3, <2>4, FeedAssumption DEF FeedAssumption
  <2>6. u \in Updates /\ writes \in Seq(Updates)
    BY <2>1, <2>4, <2>5, FeedAssumption DEF FeedAssumption, Updates, NewWrites, TypeInv, TypeOK
  <2>7. w = Append(writes, u)
    BY <2>2
  <2>8. w \in Seq(Updates) /\ Len(w) = Len(writes) + 1
    BY <2>6, <2>7
  <2>9. ASSUME NEW i \in 1..Len(w) PROVE w[i].slot <= i
    <3>1. CASE i = Len(writes) + 1
      BY <3>1, <2>5, <2>6, <2>7
    <3>2. CASE i \in 1..Len(writes)
      BY <3>2, <2>6, <2>7 DEF TypeInv, SlotsBounded
    <3> QED BY <2>1, <2>8, <2>9, <3>1, <3>2
  <2> QED
    BY <2>1, <2>8, <2>9, FeedAssumption DEF FeedAssumption
<1> QED BY <1>1, <1>2

\* The ring holds the newest updates; the next one of a receiver is among those sent.
LEMMA Ring ==
  ASSUME TypeOK, NEW r \in Receivers
  PROVE  /\ Oldest \in 0..Len(sent)
         /\ Lagging(r) => Oldest \in 0..Len(sent)
         /\ HasUpdate(r) => /\ position[r] + 1 \in 1..Len(sent)
                            /\ Upcoming(r) \in Updates
<1>1. Len(sent) \in Nat /\ RingCap \in Nat \ {0} /\ position[r] \in 0..Len(sent)
  BY FeedAssumption DEF TypeOK, FeedAssumption
<1>2. Oldest \in 0..Len(sent)
  BY <1>1 DEF Oldest
<1>3. ASSUME HasUpdate(r) PROVE position[r] + 1 \in 1..Len(sent)
  BY <1>1, <1>3 DEF HasUpdate
<1>4. ASSUME HasUpdate(r) PROVE Upcoming(r) \in Updates
  BY <1>3, <1>4 DEF Upcoming, TypeOK
<1> QED BY <1>2, <1>3, <1>4

\* Taking an update keeps the types of a receiver.
LEMMA TakeTypes ==
  ASSUME TypeOK, NEW r \in Receivers, HasUpdate(r), Take(r)
  PROVE  /\ position' \in [Receivers -> 0..Len(sent)]
         /\ DOMAIN received' = Receivers
         /\ \A q \in Receivers : received'[q] \subseteq 1..position'[q]
<1>1. position[r] + 1 \in 1..Len(sent) /\ position[r] \in Nat
  BY Ring DEF TypeOK
<1>2. /\ position' = [position EXCEPT ![r] = @ + 1]
      /\ received' = [received EXCEPT ![r] = @ \cup {position[r] + 1}]
  BY DEF Take
<1>3. position' \in [Receivers -> 0..Len(sent)]
  BY <1>1, <1>2 DEF TypeOK
<1>4. ASSUME NEW q \in Receivers PROVE received'[q] \subseteq 1..position'[q]
  <2>1. received[q] \subseteq 1..position[q] /\ position[q] \in Nat
    BY DEF TypeOK
  <2>2. CASE q = r
    BY <1>1, <1>2, <2>1, <2>2 DEF TypeOK
  <2>3. CASE q # r
    BY <1>2, <2>1, <2>3 DEF TypeOK
  <2> QED BY <2>2, <2>3
<1> QED BY <1>2, <1>3, <1>4 DEF TypeOK

\* Falling behind keeps the types of a receiver.
LEMMA SkipTypes ==
  ASSUME TypeOK, NEW r \in Receivers, Skip(r)
  PROVE  /\ position' \in [Receivers -> 0..Len(sent)]
         /\ DOMAIN received' = Receivers
         /\ \A q \in Receivers : received'[q] \subseteq 1..position'[q]
<1>1. position[r] < Oldest /\ Oldest \in 0..Len(sent) /\ position[r] \in Nat
  BY Ring DEF Skip, Lagging, TypeOK
<1>2. position' = [position EXCEPT ![r] = Oldest] /\ received' = received
  BY DEF Skip
<1>3. position' \in [Receivers -> 0..Len(sent)]
  BY <1>1, <1>2 DEF TypeOK
<1>4. ASSUME NEW q \in Receivers PROVE received'[q] \subseteq 1..position'[q]
  <2>1. received[q] \subseteq 1..position[q] /\ position[q] \in Nat
    BY DEF TypeOK
  <2>2. position'[q] \in Nat /\ position[q] <= position'[q]
    BY <1>1, <1>2, <2>1 DEF TypeOK
  <2> QED BY <1>2, <2>1, <2>2
<1> QED BY <1>2, <1>3, <1>4 DEF TypeOK

\* The types hold in every reachable state.
LEMMA TypesHold == Spec => []TypeInv
<1>1. Init => TypeInv
  <2> SUFFICES ASSUME Init PROVE TypeInv
    OBVIOUS
  <2> USE FeedAssumption DEF FeedAssumption, Init
  <2>1. writes \in Seq(Updates) /\ sent \in Seq(Updates) /\ Len(sent) = 0 /\ Len(writes) = 0
    OBVIOUS
  <2>2. /\ position \in [Receivers -> 0..Len(sent)] /\ DOMAIN received = Receivers
        /\ \A r \in Receivers : received[r] \subseteq 1..position[r]
    BY <2>1
  <2>3. /\ cache \in [Accounts -> Updates \cup {NoAccount}]
        /\ graph \in [Pools -> Updates \cup {NoAccount}]
    OBVIOUS
  <2>4. /\ cursor \in 0..Len(writes) /\ latest \in 0..MaxWrites /\ feed = "streaming"
        /\ updater = "select" /\ strategy = "select" /\ shutdown = FALSE
    BY <2>1
  <2>5. SlotsBounded
    BY <2>1 DEF SlotsBounded
  <2> HIDE DEF Init
  <2> QED BY <2>1, <2>2, <2>3, <2>4, <2>5 DEF TypeInv, TypeOK
<1>2. TypeInv /\ [Next]_vars => TypeInv'
  <2> SUFFICES ASSUME TypeInv, [Next]_vars PROVE TypeInv'
    OBVIOUS
  <2> USE DEF TypeInv
  <2>1. CASE Reconnect
    <3>1. cursor' \in 0..Len(writes) /\ feed' # "handling"
      BY <2>1 DEF Reconnect, TypeOK
    <3> QED
      BY <2>1, <3>1 DEF Reconnect, TypeOK, SlotsBounded, receiverVars, updaterVars, strategyVars
  <2>2. CASE TakeMessage
    <3>1. /\ writes' \in Seq(Updates) /\ Len(writes') <= MaxWrites
          /\ cursor + 1 \in 1..Len(writes')
          /\ \A i \in 1..Len(writes') : writes'[i].slot <= i
      BY <2>2, DeliveryTypes DEF TakeMessage
    <3>2. writes'[cursor + 1] \in Updates
      BY <3>1
    <3>3. latest' \in 0..MaxWrites
      BY <2>2, <3>2, UpdateFields DEF TakeMessage, Newest, TypeOK
    <3>4. cursor' \in 0..Len(writes') /\ cursor' > 0
      BY <2>2, <3>1 DEF TakeMessage
    <3> QED
      BY <2>2, <3>1, <3>3, <3>4
      DEF TakeMessage, TypeOK, SlotsBounded, receiverVars, updaterVars, strategyVars
  <2>3. CASE Broadcast
    <3>1. writes[cursor] \in Updates
      BY <2>3 DEF Broadcast, TypeOK
    <3>2. sent' \in Seq(Updates) /\ Len(sent') = Len(sent) + 1
      BY <2>3, <3>1 DEF Broadcast, TypeOK
    <3>3. position' \in [Receivers -> 0..Len(sent')]
      BY <2>3, <3>2 DEF Broadcast, TypeOK, receiverVars
    <3> QED
      BY <2>3, <3>2, <3>3
      DEF Broadcast, TypeOK, SlotsBounded, receiverVars, updaterVars, strategyVars
  <2>4. CASE FeedStops
    BY <2>4 DEF FeedStops, TypeOK, SlotsBounded, receiverVars, updaterVars, strategyVars
  <2>5. CASE Shutdown
    BY <2>5 DEF Shutdown, TypeOK, SlotsBounded, feedVars, receiverVars, updaterVars, strategyVars
  <2>6. CASE CacheUpdate
    <3>1. "cache" \in Receivers /\ HasUpdate("cache") /\ Take("cache")
      BY <2>6 DEF CacheUpdate, Receivers
    <3>2. Upcoming("cache") \in Updates
      BY <3>1, Ring
    <3>3. cache' \in [Accounts -> Updates \cup {NoAccount}]
      BY <2>6, <3>2, UpdateFields DEF CacheUpdate, TypeOK
    <3> QED
      BY <2>6, <3>1, <3>3, TakeTypes
      DEF CacheUpdate, TypeOK, SlotsBounded, feedVars, strategyVars
  <2>7. CASE CacheLagged
    <3>1. "cache" \in Receivers /\ Skip("cache")
      BY <2>7 DEF CacheLagged, Receivers
    <3> QED
      BY <2>7, <3>1, SkipTypes
      DEF CacheLagged, TypeOK, SlotsBounded, feedVars, updaterVars, strategyVars
  <2>8. CASE CacheStops
    BY <2>8 DEF CacheStops, TypeOK, SlotsBounded, feedVars, receiverVars, strategyVars
  <2>9. CASE ProcessUpdate
    <3>1. "dex_arb" \in Receivers /\ HasUpdate("dex_arb") /\ Take("dex_arb")
      BY <2>9 DEF ProcessUpdate, Receivers
    <3>2. Upcoming("dex_arb") \in Updates
      BY <3>1, Ring
    <3>3. graph' \in [Pools -> Updates \cup {NoAccount}]
      BY <2>9, <3>2, UpdateFields DEF ProcessUpdate, GraphAfter, TypeOK
    <3> QED
      BY <2>9, <3>1, <3>3, TakeTypes
      DEF ProcessUpdate, TypeOK, SlotsBounded, feedVars, updaterVars
  <2>10. CASE StrategyLagged
    <3>1. "dex_arb" \in Receivers /\ Skip("dex_arb")
      BY <2>10 DEF StrategyLagged, Receivers
    <3> QED
      BY <2>10, <3>1, SkipTypes
      DEF StrategyLagged, TypeOK, SlotsBounded, feedVars, updaterVars, strategyVars
  <2>11. CASE StrategyStops
    BY <2>11 DEF StrategyStops, TypeOK, SlotsBounded, feedVars, receiverVars, updaterVars
  <2>12. CASE UNCHANGED vars
    BY <2>12 DEF vars, TypeOK, SlotsBounded, feedVars, receiverVars, updaterVars, strategyVars
  <2> QED
    BY <2>1, <2>2, <2>3, <2>4, <2>5, <2>6, <2>7, <2>8, <2>9, <2>10, <2>11, <2>12 DEF Next
<1> QED BY <1>1, <1>2, PTL DEF Spec

\* Type correctness of the feed, the cache and the graph.
THEOREM FeedTypes == Spec => []TypeOK
<1>1. TypeInv => TypeOK
  BY DEF TypeInv
<1> QED BY <1>1, TypesHold, PTL

------------------------------------------------------------------------------
(* The slot tracker *)

\* The message being handled has been shown to the slot tracker.
HandledSeen == feed = "handling" => writes[cursor].slot <= latest

\* Every step keeps the slot tracker ahead of what is broadcast.
LEMMA SlotTrackerStep ==
  ASSUME TypeInv, TypeInv', HandledSeen, SlotTrackerAhead, [Next]_vars
  PROVE  HandledSeen' /\ SlotTrackerAhead'
<1> USE DEF TypeInv
<1>1. CASE Reconnect
  BY <1>1 DEF Reconnect, HandledSeen, SlotTrackerAhead, receiverVars, updaterVars, strategyVars
<1>2. CASE TakeMessage
  <2>1. cursor' = cursor + 1 /\ cursor' \in 1..Len(writes') /\ writes' \in Seq(Updates)
    BY <1>2 DEF TakeMessage, TypeOK
  <2>2. writes'[cursor'] \in Updates
    BY <2>1
  <2>3. latest \in Nat /\ writes'[cursor'].slot \in Nat
    BY <2>2, UpdateFields DEF TypeOK
  <2>4. latest' \in Nat /\ latest <= latest' /\ writes'[cursor'].slot <= latest'
    BY <1>2, <2>1, <2>3 DEF TakeMessage, Newest
  <2>5. sent' = sent /\ graph' = graph /\ cache' = cache
    BY <1>2 DEF TakeMessage, updaterVars, strategyVars
  <2>6. ASSUME NEW i \in 1..Len(sent) PROVE sent[i].slot <= latest'
    BY <2>3, <2>4, UpdateFields DEF SlotTrackerAhead, TypeOK
  <2>7. ASSUME NEW p \in Pools, graph[p] # NoAccount PROVE graph[p].slot <= latest'
    <3>1. graph[p] \in Updates
      BY <2>7 DEF TypeOK
    <3> QED BY <2>3, <2>4, <2>7, <3>1, UpdateFields DEF SlotTrackerAhead
  <2>8. ASSUME NEW a \in Accounts, cache[a] # NoAccount PROVE cache[a].slot <= latest'
    <3>1. cache[a] \in Updates
      BY <2>8 DEF TypeOK
    <3> QED BY <2>3, <2>4, <2>8, <3>1, UpdateFields DEF SlotTrackerAhead
  <2> QED BY <2>4, <2>5, <2>6, <2>7, <2>8 DEF HandledSeen, SlotTrackerAhead
<1>3. CASE Broadcast
  <2>1. sent' = Append(sent, writes[cursor]) /\ latest' = latest /\ feed' = "streaming"
        /\ graph' = graph /\ cache' = cache
    BY <1>3 DEF Broadcast, updaterVars, strategyVars
  <2>2. writes[cursor].slot <= latest
    BY <1>3 DEF Broadcast, HandledSeen
  <2>3. ASSUME NEW i \in 1..Len(sent') PROVE sent'[i].slot <= latest
    <3>1. CASE i \in 1..Len(sent)
      BY <3>1, <2>1 DEF SlotTrackerAhead, TypeOK
    <3>2. CASE i = Len(sent) + 1
      BY <3>2, <2>1, <2>2 DEF TypeOK
    <3> QED BY <2>1, <3>1, <3>2 DEF TypeOK
  <2> QED BY <2>1, <2>3 DEF HandledSeen, SlotTrackerAhead
<1>4. CASE CacheUpdate
  <2>1. "cache" \in Receivers /\ HasUpdate("cache")
    BY <1>4 DEF CacheUpdate, Receivers
  <2>2. Upcoming("cache") \in Updates /\ Upcoming("cache").slot <= latest
    BY <2>1, Ring DEF Upcoming, SlotTrackerAhead
  <2>3. ASSUME NEW a \in Accounts, cache'[a] # NoAccount PROVE cache'[a].slot <= latest
    <3>1. cache'[a] \in {cache[a], Upcoming("cache")}
      BY <1>4 DEF CacheUpdate, TypeOK
    <3> QED BY <2>2, <2>3, <3>1 DEF SlotTrackerAhead
  <2> QED
    BY <1>4, <2>3 DEF CacheUpdate, HandledSeen, SlotTrackerAhead, feedVars, strategyVars
<1>5. CASE ProcessUpdate
  <2>1. "dex_arb" \in Receivers /\ HasUpdate("dex_arb")
    BY <1>5 DEF ProcessUpdate, Receivers
  <2>2. Upcoming("dex_arb") \in Updates /\ Upcoming("dex_arb").slot <= latest
    BY <2>1, Ring DEF Upcoming, SlotTrackerAhead
  <2>3. ASSUME NEW p \in Pools, graph'[p] # NoAccount PROVE graph'[p].slot <= latest
    <3>1. graph'[p] \in {graph[p], Upcoming("dex_arb")}
      BY <1>5 DEF ProcessUpdate, GraphAfter, TypeOK
    <3> QED BY <2>2, <2>3, <3>1 DEF SlotTrackerAhead
  <2> QED
    BY <1>5, <2>3 DEF ProcessUpdate, HandledSeen, SlotTrackerAhead, feedVars, updaterVars
<1>6. CASE FeedStops \/ Shutdown \/ CacheLagged \/ CacheStops \/ StrategyLagged \/ StrategyStops
  BY <1>6 DEF FeedStops, Shutdown, CacheLagged, CacheStops, StrategyLagged, StrategyStops,
              HandledSeen, SlotTrackerAhead, feedVars, updaterVars, strategyVars
<1>7. CASE UNCHANGED vars
  BY <1>7 DEF vars, HandledSeen, SlotTrackerAhead, feedVars, updaterVars, strategyVars
<1> QED BY <1>1, <1>2, <1>3, <1>4, <1>5, <1>6, <1>7 DEF Next

\* For any replays, lags and interleavings of the three tasks, no update that was
\* broadcast, cached or priced is from a slot the slot tracker has not seen.
THEOREM TrackerLeads == Spec => []SlotTrackerAhead
<1>1. Init => HandledSeen /\ SlotTrackerAhead
  BY DEF Init, HandledSeen, SlotTrackerAhead
<1>2. TypeInv /\ TypeInv' /\ HandledSeen /\ SlotTrackerAhead /\ [Next]_vars
        => (HandledSeen /\ SlotTrackerAhead)'
  BY SlotTrackerStep
<1> QED BY <1>1, <1>2, TypesHold, PTL DEF Spec

------------------------------------------------------------------------------
(* The slot-gated cache *)

\* An update of the cache keeps the latest received value of the highest slot in it.
LEMMA CacheStep ==
  ASSUME TypeInv, TypeInv', CacheIsLatestReceived, CacheUpdate
  PROVE  CacheIsLatestReceived'
<1> USE DEF TypeInv
<1> DEFINE k == position["cache"] + 1
           u == sent[k]
<1>1. "cache" \in Receivers /\ HasUpdate("cache") /\ Take("cache") /\ sent' = sent
  BY DEF CacheUpdate, Receivers, feedVars
<1>2. /\ k \in 1..Len(sent) /\ u \in Updates /\ Upcoming("cache") = u
      /\ received["cache"] \subseteq 1..(k - 1)
      /\ received'["cache"] = received["cache"] \cup {k}
  BY <1>1, Ring DEF Upcoming, Take, TypeOK
<1>3. cache' = IF Supersedes(u, cache[u.account])
               THEN [cache EXCEPT ![u.account] = u] ELSE cache
  BY <1>2, Zenon DEF CacheUpdate
<1>4. \A i \in 1..Len(sent) : sent[i] \in Updates /\ sent[i].slot \in Nat /\ sent[i] # NoAccount
  BY UpdateFields DEF TypeOK
<1>5. \A a \in Accounts : ReceivedFor(a) \subseteq received["cache"] /\ ReceivedFor(a) \subseteq 1..Len(sent)
  BY <1>2 DEF ReceivedFor
<1>6. \A a \in Accounts : ReceivedFor(a)' =
        IF a = u.account THEN ReceivedFor(a) \cup {k} ELSE ReceivedFor(a)
  BY <1>1, <1>2 DEF ReceivedFor
<1> SUFFICES ASSUME NEW a \in Accounts
             PROVE  IF ReceivedFor(a)' = {} THEN cache'[a] = NoAccount
                    ELSE \E j \in ReceivedFor(a)' :
                           cache'[a] = sent[j] /\ \A i \in ReceivedFor(a)' : Outranks(j, i)
  BY <1>1 DEF CacheIsLatestReceived, Outranks
<1>7. CASE a # u.account
  <2>1. cache'[a] = cache[a]
    BY <1>3, <1>7 DEF TypeOK
  <2>2. ReceivedFor(a)' = ReceivedFor(a)
    BY <1>6, <1>7
  <2> QED BY <2>1, <2>2, Zenon DEF CacheIsLatestReceived
<1>8. CASE a = u.account
  <2>1. k \in ReceivedFor(a)' /\ ReceivedFor(a)' = ReceivedFor(a) \cup {k}
    BY <1>6, <1>8
  <2>2. \A i \in ReceivedFor(a) : i < k /\ i \in 1..Len(sent)
    BY <1>2, <1>5
  <2>3. CASE ReceivedFor(a) = {}
    <3>1. cache'[a] = u
      BY <1>3, <1>8, <2>3 DEF CacheIsLatestReceived, Supersedes, TypeOK
    <3>2. Outranks(k, k)
      BY <1>2 DEF Outranks
    <3> QED BY <2>1, <2>3, <3>1, <3>2
  <2>4. CASE ReceivedFor(a) # {}
    <3>1. PICK j \in ReceivedFor(a) :
            cache[a] = sent[j] /\ \A i \in ReceivedFor(a) : Outranks(j, i)
      BY <2>4 DEF CacheIsLatestReceived
    <3>2. j \in 1..Len(sent) /\ j < k /\ cache[a] # NoAccount
      BY <1>4, <2>2, <3>1
    <3>3. CASE u.slot >= sent[j].slot
      <4>1. cache'[a] = u
        BY <1>3, <1>8, <3>1, <3>3 DEF Supersedes, TypeOK
      <4>2. ASSUME NEW i \in ReceivedFor(a)' PROVE Outranks(k, i)
        <5>1. CASE i = k
          BY <1>2, <5>1 DEF Outranks
        <5>2. CASE i \in ReceivedFor(a)
          <6>1. Outranks(j, i) /\ i < k /\ i \in 1..Len(sent)
            BY <2>2, <3>1, <5>2
          <6> QED BY <1>2, <1>4, <3>2, <3>3, <6>1 DEF Outranks
        <5> QED BY <2>1, <5>1, <5>2
      <4> QED BY <2>1, <4>1, <4>2
    <3>4. CASE ~(u.slot >= sent[j].slot)
      <4>1. cache'[a] = sent[j]
        BY <1>3, <1>8, <3>1, <3>2, <3>4 DEF Supersedes
      <4>2. Outranks(j, k)
        BY <1>2, <1>4, <3>2, <3>4 DEF Outranks
      <4> QED BY <2>1, <3>1, <4>1, <4>2
    <3> QED BY <3>3, <3>4
  <2> QED BY <2>3, <2>4
<1> QED BY <1>7, <1>8

\* What leaves the cache and what it received alone keeps its invariant.
LEMMA CacheUntouched ==
  ASSUME TypeInv, CacheIsLatestReceived,
         cache' = cache, received'["cache"] = received["cache"],
         \A i \in 1..Len(sent) : sent'[i] = sent[i]
  PROVE  CacheIsLatestReceived'
<1>1. received["cache"] \subseteq 1..Len(sent)
  BY DEF TypeInv, TypeOK, Receivers
<1>2. \A a \in Accounts : ReceivedFor(a)' = ReceivedFor(a)
  BY <1>1 DEF ReceivedFor
<1>3. \A i, j \in 1..Len(sent) : Outranks(j, i)' = Outranks(j, i)
  BY DEF Outranks
<1>4. \A a \in Accounts : ReceivedFor(a) \subseteq 1..Len(sent)
  BY <1>1 DEF ReceivedFor
<1> QED BY <1>2, <1>3, <1>4 DEF CacheIsLatestReceived

\* For any stream, replay and lag, the slot gate of AccountCache::update leaves
\* in the cache the last of the updates with the highest slot received.
THEOREM CacheLatest == Spec => []CacheIsLatestReceived
<1>1. Init => CacheIsLatestReceived
  BY DEF Init, CacheIsLatestReceived, ReceivedFor, Receivers
<1>2. TypeInv /\ TypeInv' /\ CacheIsLatestReceived /\ [Next]_vars => CacheIsLatestReceived'
  <2> SUFFICES ASSUME TypeInv, TypeInv', CacheIsLatestReceived, [Next]_vars
               PROVE  CacheIsLatestReceived'
    OBVIOUS
  <2>1. CASE CacheUpdate
    BY <2>1, CacheStep
  <2>2. CASE Broadcast
    <3>1. \A i \in 1..Len(sent) : sent'[i] = sent[i]
      BY <2>2 DEF Broadcast, TypeInv, TypeOK
    <3> QED BY <2>2, <3>1, CacheUntouched DEF Broadcast, receiverVars, updaterVars
  <2>3. CASE ProcessUpdate
    <3>1. received'["cache"] = received["cache"]
      BY <2>3 DEF ProcessUpdate, Take, Receivers, TypeInv, TypeOK
    <3> QED BY <2>3, <3>1, CacheUntouched DEF ProcessUpdate, feedVars, updaterVars
  <2>4. CASE CacheLagged \/ CacheStops \/ StrategyLagged \/ StrategyStops
    BY <2>4, CacheUntouched
    DEF CacheLagged, CacheStops, StrategyLagged, StrategyStops, Skip, feedVars,
        receiverVars, updaterVars
  <2>5. CASE Reconnect \/ TakeMessage \/ FeedStops \/ Shutdown \/ UNCHANGED vars
    BY <2>5, CacheUntouched
    DEF Reconnect, TakeMessage, FeedStops, Shutdown, vars, feedVars, receiverVars, updaterVars
  <2> QED BY <2>1, <2>2, <2>3, <2>4, <2>5 DEF Next
<1> QED BY <1>1, <1>2, TypesHold, PTL DEF Spec

------------------------------------------------------------------------------
(* The graph, which no slot gates *)

PricedFrom(p) == {i \in received["dex_arb"] : sent[i].account = p}

\* A pool that needs no vaults has the edges of the update taken last.
GraphIsLastTaken ==
  \A p \in Pools : Vaults[p] = {} =>
    IF PricedFrom(p) = {} THEN graph[p] = NoAccount
    ELSE \E j \in PricedFrom(p) : graph[p] = sent[j] /\ \A i \in PricedFrom(p) : i <= j

\* An update processed by the strategy is the last taken of its pool.
LEMMA GraphStep ==
  ASSUME TypeInv, GraphIsLastTaken, ProcessUpdate
  PROVE  GraphIsLastTaken'
<1> USE DEF TypeInv
<1> DEFINE k == position["dex_arb"] + 1
           u == sent[k]
<1>1. "dex_arb" \in Receivers /\ HasUpdate("dex_arb") /\ Take("dex_arb") /\ sent' = sent
  BY DEF ProcessUpdate, Receivers, feedVars
<1>2. /\ k \in 1..Len(sent) /\ u \in Updates /\ Upcoming("dex_arb") = u
      /\ received["dex_arb"] \subseteq 1..(k - 1)
      /\ received'["dex_arb"] = received["dex_arb"] \cup {k}
  BY <1>1, Ring DEF Upcoming, Take, TypeOK
<1>3. graph' = IF Priced(u.account) THEN [graph EXCEPT ![u.account] = u] ELSE graph
  BY <1>2, Zenon DEF ProcessUpdate, GraphAfter
<1> SUFFICES ASSUME NEW p \in Pools, Vaults[p] = {}
             PROVE  IF PricedFrom(p)' = {} THEN graph'[p] = NoAccount
                    ELSE \E j \in PricedFrom(p)' :
                           graph'[p] = sent[j] /\ \A i \in PricedFrom(p)' : i <= j
  BY <1>1 DEF GraphIsLastTaken
<1>4. PricedFrom(p)' = IF p = u.account THEN PricedFrom(p) \cup {k} ELSE PricedFrom(p)
  BY <1>1, <1>2 DEF PricedFrom
<1>5. CASE p # u.account
  <2>1. graph'[p] = graph[p]
    BY <1>3, <1>5 DEF TypeOK
  <2> QED BY <1>4, <1>5, <2>1, Zenon DEF GraphIsLastTaken
<1>6. CASE p = u.account
  <2>1. graph'[p] = u
    BY <1>3, <1>6 DEF TypeOK, Priced
  <2>2. k \in PricedFrom(p)' /\ \A i \in PricedFrom(p)' : i <= k
    BY <1>2, <1>4, <1>6 DEF PricedFrom
  <2> QED BY <2>1, <2>2
<1> QED BY <1>5, <1>6

\* What leaves the graph and what it received alone keeps its invariant.
LEMMA GraphUntouched ==
  ASSUME TypeInv, GraphIsLastTaken,
         graph' = graph, received'["dex_arb"] = received["dex_arb"],
         \A i \in 1..Len(sent) : sent'[i] = sent[i]
  PROVE  GraphIsLastTaken'
<1>1. received["dex_arb"] \subseteq 1..Len(sent)
  BY DEF TypeInv, TypeOK, Receivers
<1>2. \A p \in Pools : PricedFrom(p)' = PricedFrom(p) /\ PricedFrom(p) \subseteq 1..Len(sent)
  BY <1>1 DEF PricedFrom
<1> QED BY <1>2 DEF GraphIsLastTaken

\* The graph holds the last update taken of each pool.
LEMMA GraphLast == Spec => []GraphIsLastTaken
<1>1. Init => GraphIsLastTaken
  BY DEF Init, GraphIsLastTaken, PricedFrom, Receivers
<1>2. TypeInv /\ GraphIsLastTaken /\ [Next]_vars => GraphIsLastTaken'
  <2> SUFFICES ASSUME TypeInv, GraphIsLastTaken, [Next]_vars
               PROVE  GraphIsLastTaken'
    OBVIOUS
  <2>1. CASE ProcessUpdate
    BY <2>1, GraphStep
  <2>2. CASE Broadcast
    <3>1. \A i \in 1..Len(sent) : sent'[i] = sent[i]
      BY <2>2 DEF Broadcast, TypeInv, TypeOK
    <3> QED BY <2>2, <3>1, GraphUntouched DEF Broadcast, receiverVars, strategyVars
  <2>3. CASE CacheUpdate
    <3>1. received'["dex_arb"] = received["dex_arb"]
      BY <2>3 DEF CacheUpdate, Take, Receivers, TypeInv, TypeOK
    <3> QED BY <2>3, <3>1, GraphUntouched DEF CacheUpdate, feedVars, strategyVars
  <2>4. CASE CacheLagged \/ CacheStops \/ StrategyLagged \/ StrategyStops
    BY <2>4, GraphUntouched
    DEF CacheLagged, CacheStops, StrategyLagged, StrategyStops, Skip, feedVars,
        receiverVars, strategyVars
  <2>5. CASE Reconnect \/ TakeMessage \/ FeedStops \/ Shutdown \/ UNCHANGED vars
    BY <2>5, GraphUntouched
    DEF Reconnect, TakeMessage, FeedStops, Shutdown, vars, feedVars, receiverVars, strategyVars
  <2> QED BY <2>1, <2>2, <2>3, <2>4, <2>5 DEF Next
<1> QED BY <1>1, <1>2, TypesHold, PTL DEF Spec

------------------------------------------------------------------------------
(* Replays *)

\* The writes whose latest delivery has been broadcast.
Done == IF feed = "handling" THEN cursor - 1 ELSE cursor

\* Write n was broadcast after the first k updates.
SentAfter(k, n) == \E l \in 1..Len(sent) : k < l /\ sent[l].n = n

ChainOrder ==
  /\ \A i \in 1..Len(writes) : writes[i].n = i
  /\ \A i, j \in 1..Len(writes) : i <= j => writes[i].slot <= writes[j].slot

SentFromChain ==
  \A k \in 1..Len(sent) : sent[k].n \in 1..Len(writes) /\ sent[k] = writes[sent[k].n]

\* Whatever a replay has broadcast again was followed by all the later writes up
\* to the point the stream has reached.
ReplaysCatchUp ==
  /\ \A n \in 1..Done : SentAfter(0, n)
  /\ \A k \in 1..Len(sent) : \A n \in 1..Done : sent[k].n < n => SentAfter(k, n)

ReplayInv == ChainOrder /\ SentFromChain /\ ReplaysCatchUp

\* The chain only appends, in slots that never decrease.
LEMMA DeliveryOrder ==
  ASSUME TypeInv, ChainOrder, TakeMessage
  PROVE  /\ ChainOrder' /\ Len(writes) <= Len(writes')
         /\ \A i \in 1..Len(writes) : writes'[i] = writes[i]
<1>1. writes' \in Deliveries /\ writes \in Seq(Updates)
  BY DEF TakeMessage, TypeInv, TypeOK
<1>2. CASE writes' = writes
  BY <1>1, <1>2 DEF ChainOrder
<1>3. CASE writes' # writes
  <2>1. PICK u \in NewWrites : writes' = Append(writes, u)
    BY <1>1, <1>3 DEF Deliveries
  <2>2. u \in Updates
    <3>1. cursor < MaxWrites /\ cursor = Len(writes)
      BY <1>1, <1>3 DEF TakeMessage, Deliveries, TypeInv, TypeOK
    <3>2. writes' \in Seq(Updates) /\ cursor + 1 \in 1..Len(writes')
      BY <1>1, <3>1, DeliveryTypes
    <3>3. writes'[cursor + 1] \in Updates
      BY <3>2
    <3> QED BY <1>1, <2>1, <3>1, <3>3
  <2>3. /\ Len(writes') = Len(writes) + 1 /\ Len(writes) \in Nat
        /\ \A i \in 1..Len(writes) : writes'[i] = writes[i]
        /\ writes'[Len(writes) + 1] = u
    BY <1>1, <2>1, <2>2
  <2>4. u.n = Len(writes) + 1 /\ u.slot \in {LastSlot, LastSlot + 1}
    BY DEF NewWrites
  <2>5. \A i \in 1..Len(writes) : writes[i].slot \in Nat
    BY <1>1, UpdateFields
  <2>6. ASSUME NEW i \in 1..Len(writes) PROVE writes[i].slot <= u.slot
    <3>1. Len(writes) \in 1..Len(writes) /\ writes # <<>>
      BY <2>3, <2>6, <1>1
    <3>2. LastSlot = writes[Len(writes)].slot
      BY <3>1 DEF LastSlot
    <3>3. writes[i].slot <= LastSlot
      BY <2>3, <3>1, <3>2 DEF ChainOrder
    <3> QED BY <2>4, <2>5, <3>1, <3>2, <3>3
  <2>7. \A i \in 1..Len(writes') : i \in 1..Len(writes) \/ i = Len(writes) + 1
    BY <2>3
  <2>8. \A i \in 1..Len(writes') : writes'[i].n = i
    BY <2>3, <2>4, <2>7 DEF ChainOrder
  <2>9. ASSUME NEW i \in 1..Len(writes'), NEW j \in 1..Len(writes'), i <= j
        PROVE  writes'[i].slot <= writes'[j].slot
    <3>1. CASE j \in 1..Len(writes)
      <4>1. i \in 1..Len(writes)
        BY <2>9, <3>1
      <4> QED BY <2>3, <2>9, <3>1, <4>1 DEF ChainOrder
    <3>2. CASE j = Len(writes) + 1 /\ i \in 1..Len(writes)
      BY <2>3, <2>6, <3>2
    <3>3. CASE j = Len(writes) + 1 /\ i = j
      BY <2>2, <2>3, <3>3, UpdateFields
    <3> QED BY <2>3, <2>7, <2>9, <3>1, <3>2, <3>3
  <2> QED BY <2>3, <2>8, <2>9 DEF ChainOrder
<1> QED BY <1>2, <1>3

\* After a broadcast, every write broadcast is followed by the later ones.
LEMMA BroadcastCatchesUp ==
  ASSUME TypeInv, ReplayInv, Broadcast
  PROVE  ReplayInv'
<1> DEFINE top == Len(sent) + 1
<1>1. /\ sent' = Append(sent, writes[cursor]) /\ writes' = writes /\ cursor' = cursor
      /\ feed = "handling" /\ feed' = "streaming"
  BY DEF Broadcast
<1>2. cursor \in 1..Len(writes) /\ writes[cursor] \in Updates /\ sent \in Seq(Updates)
      /\ writes[cursor].n = cursor /\ Len(writes) \in Nat
  BY <1>1 DEF TypeInv, TypeOK, ReplayInv, ChainOrder
<1>3. /\ Len(sent') = top /\ Len(sent) \in Nat /\ sent'[top] = writes[cursor]
      /\ \A k \in 1..Len(sent) : sent'[k] = sent[k] /\ k \in 1..Len(sent')
      /\ \A k \in 1..Len(sent') : k \in 1..Len(sent) \/ k = top
  BY <1>1, <1>2
<1>4. Done = cursor - 1 /\ Done' = cursor
  BY <1>1 DEF Done
<1>5. ASSUME NEW k, NEW n, SentAfter(k, n) PROVE SentAfter(k, n)'
  <2>1. PICK l \in 1..Len(sent) : k < l /\ sent[l].n = n
    BY <1>5 DEF SentAfter
  <2>2. l \in 1..Len(sent') /\ sent'[l].n = n
    BY <1>3, <2>1
  <2> QED BY <2>1, <2>2 DEF SentAfter
<1>6. ASSUME NEW k \in 0..Len(sent) PROVE SentAfter(k, cursor)'
  <2>1. top \in 1..Len(sent') /\ k < top /\ sent'[top].n = cursor
    BY <1>2, <1>3
  <2> QED BY <1>1, <2>1 DEF SentAfter
<1>7. \A n \in 1..Done' : n \in 1..Done \/ n = cursor
  BY <1>2, <1>4
<1>8. ChainOrder'
  BY <1>1 DEF ReplayInv, ChainOrder
<1>9. SentFromChain'
  <2>1. ASSUME NEW k \in 1..Len(sent')
        PROVE  sent'[k].n \in 1..Len(writes) /\ sent'[k] = writes[sent'[k].n]
    <3>1. CASE k \in 1..Len(sent)
      BY <1>3, <3>1 DEF ReplayInv, SentFromChain
    <3>2. CASE k = top
      BY <1>2, <1>3, <3>2
    <3> QED BY <1>3, <2>1, <3>1, <3>2
  <2> QED BY <1>1, <2>1 DEF SentFromChain
<1>10. ASSUME NEW n \in 1..Done' PROVE SentAfter(0, n)'
  <2>1. CASE n \in 1..Done
    BY <1>5, <2>1 DEF ReplayInv, ReplaysCatchUp
  <2>2. CASE n = cursor
    <3>1. 0 \in 0..Len(sent)
      BY <1>3
    <3>2. SentAfter(0, cursor)'
      BY <1>6, <3>1
    <3> QED BY <1>1, <2>2, <3>2
  <2> QED BY <1>7, <1>10, <2>1, <2>2
<1>11. ASSUME NEW k \in 1..Len(sent'), NEW n \in 1..Done', sent'[k].n < n
       PROVE  SentAfter(k, n)'
  <2>1. CASE k = top
    BY <1>2, <1>3, <1>4, <1>11, <2>1
  <2>2. CASE k \in 1..Len(sent) /\ n \in 1..Done
    BY <1>3, <1>5, <1>11, <2>2 DEF ReplayInv, ReplaysCatchUp
  <2>3. CASE k \in 1..Len(sent) /\ n = cursor
    <3>1. k \in 0..Len(sent)
      BY <1>3, <2>3
    <3>2. SentAfter(k, cursor)'
      BY <1>6, <3>1
    <3> QED BY <1>1, <2>3, <3>2
  <2> QED BY <1>3, <1>7, <1>11, <2>1, <2>2, <2>3
<1> QED BY <1>8, <1>9, <1>10, <1>11 DEF ReplayInv, ReplaysCatchUp

\* The facts about replay hold in every reachable state.
LEMMA ReplaysHold == Spec => []ReplayInv
<1>1. Init => ReplayInv
  BY DEF Init, ReplayInv, ChainOrder, SentFromChain, ReplaysCatchUp, Done, SentAfter
<1>2. TypeInv /\ ReplayInv /\ [Next]_vars => ReplayInv'
  <2> SUFFICES ASSUME TypeInv, ReplayInv, [Next]_vars PROVE ReplayInv'
    OBVIOUS
  <2>1. CASE Broadcast
    BY <2>1, BroadcastCatchesUp
  <2>2. CASE TakeMessage
    <3>1. /\ ChainOrder' /\ Len(writes) <= Len(writes') /\ Len(writes) \in Nat
          /\ \A i \in 1..Len(writes) : writes'[i] = writes[i]
      BY <2>2, DeliveryOrder DEF ReplayInv, TypeInv, TypeOK
    <3>2. Len(writes') \in Nat /\ sent' = sent
      BY <2>2, DeliveryTypes DEF TakeMessage
    <3>3. SentFromChain'
      BY <3>1, <3>2 DEF ReplayInv, SentFromChain
    <3>4. Done' = Done
      BY <2>2 DEF TakeMessage, Done, TypeInv, TypeOK
    <3> QED BY <3>1, <3>2, <3>3, <3>4 DEF ReplayInv, ReplaysCatchUp, SentAfter
  <2>3. CASE Reconnect
    <3>1. writes' = writes /\ sent' = sent /\ ChainOrder' /\ SentFromChain'
      BY <2>3 DEF Reconnect, ReplayInv, ChainOrder, SentFromChain
    <3>2. \A n \in 1..Done' : n \in 1..Done
      BY <2>3 DEF Reconnect, Done, TypeInv, TypeOK
    <3> QED BY <3>1, <3>2 DEF ReplayInv, ReplaysCatchUp, SentAfter
  <2>4. ASSUME writes' = writes, cursor' = cursor, sent' = sent,
               feed' = feed \/ (feed = "streaming" /\ feed' = "stopped")
        PROVE  ReplayInv'
    <3>1. Done' = Done
      BY <2>4 DEF Done
    <3> QED
      BY <2>4, <3>1 DEF ReplayInv, ChainOrder, SentFromChain, ReplaysCatchUp, SentAfter
  <2>5. CASE FeedStops
    BY <2>4, <2>5 DEF FeedStops
  <2>6. CASE Shutdown \/ CacheUpdate \/ CacheLagged \/ CacheStops
    BY <2>4, <2>6 DEF Shutdown, CacheUpdate, CacheLagged, CacheStops, feedVars
  <2>7. CASE ProcessUpdate \/ StrategyLagged \/ StrategyStops \/ UNCHANGED vars
    BY <2>4, <2>7 DEF ProcessUpdate, StrategyLagged, StrategyStops, vars, feedVars
  <2> QED BY <2>1, <2>2, <2>3, <2>5, <2>6, <2>7 DEF Next
<1> QED BY <1>1, <1>2, TypesHold, PTL DEF Spec

\* Among the updates of p taken, all of them, one that is either the last or of
\* the highest slot and last among equals is the last write to p.
LEMMA LastWriteSent ==
  ASSUME TypeInv, ReplayInv, Delivered,
         NEW p \in Pools, NEW i \in WritesTo(p), \A m \in WritesTo(p) : m <= i,
         NEW j \in 1..Len(sent), sent[j].account = p,
         \A l \in 1..Len(sent) : sent[l].account = p => l <= j \/ Outranks(j, l)
  PROVE  sent[j] = writes[i]
<1> DEFINE m == sent[j].n
<1>1. i \in 1..Len(writes) /\ writes[i].account = p /\ Len(writes) \in Nat /\ Len(sent) \in Nat
  BY DEF WritesTo, TypeInv, TypeOK
<1>2. m \in 1..Len(writes) /\ sent[j] = writes[m]
  BY DEF ReplayInv, SentFromChain
<1>3. m \in WritesTo(p) /\ m <= i
  BY <1>2 DEF WritesTo
<1>4. ASSUME m < i PROVE FALSE
  <2>1. i \in 1..Done
    BY <1>1 DEF Delivered, Done
  <2>2. SentAfter(j, i)
    BY <1>4, <2>1 DEF ReplayInv, ReplaysCatchUp
  <2>3. PICK l \in 1..Len(sent) : j < l /\ sent[l].n = i
    BY <2>2 DEF SentAfter
  <2>4. sent[l] = writes[i] /\ sent[l].account = p
    BY <1>1, <2>3 DEF ReplayInv, SentFromChain
  <2>5. sent[j].slot <= sent[l].slot
    BY <1>1, <1>2, <1>3, <2>4 DEF ReplayInv, ChainOrder
  <2>6. sent[j].slot \in Nat /\ sent[l].slot \in Nat
    BY UpdateFields DEF TypeInv, TypeOK
  <2>7. ~(l <= j) /\ ~Outranks(j, l)
    BY <2>3, <2>5, <2>6 DEF Outranks
  <2> QED BY <2>4, <2>7
<1> HIDE DEF m
<1>5. m = i
  BY <1>1, <1>2, <1>3, <1>4
<1> QED BY <1>2, <1>5

\* What these invariants say when all is delivered and taken.
LEMMA Agreement ==
  ASSUME TypeInv, ReplayInv, CacheIsLatestReceived, GraphIsLastTaken
  PROVE  QuiescentAgree
<1> SUFFICES ASSUME Delivered, \A r \in Receivers : CaughtUp(r),
                    NEW p \in Pools, NEW i \in WritesTo(p), \A m \in WritesTo(p) : m <= i
             PROVE  cache[p] = writes[i] /\ (Priced(p) => graph[p] = writes[i])
  BY DEF QuiescentAgree
<1>1. received["cache"] = 1..Len(sent) /\ received["dex_arb"] = 1..Len(sent)
  BY DEF CaughtUp, Receivers
<1>2. p \in Accounts
  BY DEF Accounts
<1>3. PICK first \in 1..Len(sent) : sent[first].account = p
  <2>1. i \in 1..Done /\ i \in 1..Len(writes) /\ writes[i].account = p
    BY DEF Delivered, Done, WritesTo
  <2>2. SentAfter(0, i)
    BY <2>1 DEF ReplayInv, ReplaysCatchUp
  <2>3. PICK l \in 1..Len(sent) : sent[l].n = i
    BY <2>2 DEF SentAfter
  <2> QED BY <2>1, <2>3 DEF ReplayInv, SentFromChain
<1>4. cache[p] = writes[i]
  <2>1. \A l \in 1..Len(sent) : sent[l].account = p => l \in ReceivedFor(p)
    BY <1>1 DEF ReceivedFor
  <2>2. ReceivedFor(p) # {}
    BY <1>3, <2>1
  <2>3. PICK j \in ReceivedFor(p) : cache[p] = sent[j] /\ \A l \in ReceivedFor(p) : Outranks(j, l)
    BY <1>2, <2>2 DEF CacheIsLatestReceived
  <2>4. j \in 1..Len(sent) /\ sent[j].account = p
    BY <1>1, <2>3 DEF ReceivedFor
  <2>5. \A l \in 1..Len(sent) : sent[l].account = p => l <= j \/ Outranks(j, l)
    BY <2>1, <2>3
  <2>6. sent[j] = writes[i]
    BY <2>4, <2>5, LastWriteSent
  <2> QED BY <2>3, <2>6
<1>5. ASSUME Priced(p) PROVE Vaults[p] = {}
  <2> SUFFICES ASSUME NEW v \in Vaults[p] PROVE FALSE
    OBVIOUS
  <2>1. v \in Accounts /\ v \notin Pools
    BY FeedAssumption DEF FeedAssumption, Accounts
  <2>2. ReceivedFor(v) = {}
    BY <1>1, <2>1, UpdateFields DEF ReceivedFor, TypeInv, TypeOK
  <2>3. cache[v] = NoAccount
    BY <2>1, <2>2 DEF CacheIsLatestReceived
  <2> QED BY <1>5, <2>3 DEF Priced
<1>6. ASSUME Vaults[p] = {} PROVE graph[p] = writes[i]
  <2>1. \A l \in 1..Len(sent) : sent[l].account = p => l \in PricedFrom(p)
    BY <1>1 DEF PricedFrom
  <2>2. PricedFrom(p) # {}
    BY <1>3, <2>1
  <2>3. PICK j \in PricedFrom(p) : graph[p] = sent[j] /\ \A l \in PricedFrom(p) : l <= j
    BY <1>6, <2>2 DEF GraphIsLastTaken
  <2>4. j \in 1..Len(sent) /\ sent[j].account = p
    BY <1>1, <2>3 DEF PricedFrom
  <2>5. \A l \in 1..Len(sent) : sent[l].account = p => l <= j \/ Outranks(j, l)
    BY <2>1, <2>3
  <2>6. sent[j] = writes[i]
    BY <2>4, <2>5, LastWriteSent
  <2> QED BY <2>3, <2>6
<1> QED BY <1>4, <1>5, <1>6

\* For any replays and any order in which the receivers take the updates: once the
\* stream has delivered everything and both have taken everything, the slot-gated
\* cache and the ungated graph hold the chain's last state of every pool.
THEOREM CacheAndGraphAgree == Spec => []QuiescentAgree
<1>1. TypeInv /\ ReplayInv /\ CacheIsLatestReceived /\ GraphIsLastTaken => QuiescentAgree
  BY Agreement
<1> QED BY <1>1, TypesHold, ReplaysHold, CacheLatest, GraphLast, PTL
==============================================================================
