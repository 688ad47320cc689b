------------------------- MODULE CircuitBreakerProofs -------------------------
(***************************************************************************)
(* Proofs about CircuitBreaker for every window, limit and set of results. *)
(***************************************************************************)
EXTENDS CircuitBreaker, SeqFoldsProofs

\* Trades are recorded in the order of their instants, none in the future.
Ordered ==
  /\ \A i \in 1..Len(history) : history[i].at <= now
  /\ \A i, j \in 1..Len(history) : i <= j => history[i].at <= history[j].at

\* The inductive invariant: the eviction argument needs the order of the trades.
IInv == TypeOK /\ Ordered /\ WindowInDeque /\ TrippedIffBreached

\* The fields of a recorded trade are numbers.
LEMMA TradeFields == \A trade \in Trades : trade.at \in Int /\ trade.pnl \in Int
<1> SUFFICES ASSUME NEW trade \in Trades PROVE trade.at \in Int /\ trade.pnl \in Int
  OBVIOUS
<1>1. trade.at \in 0..MaxNow /\ trade.pnl \in Results
  BY DEF Trades
<1>2. trade.at \in Int
  BY <1>1, BreakerAssumption
<1>3. trade.pnl \in Int
  BY <1>1, BreakerAssumption, Zenon DEF BreakerAssumption
<1> QED BY <1>2, <1>3

\* The eviction loop removes a prefix that is outside the window and stops at
\* the first trade inside it.
LEMMA EvictProperties ==
  ASSUME NEW s \in Seq(Trades), NEW t \in 0..MaxNow
  PROVE  /\ Evict(s, t) \in Seq(Trades)
         /\ Len(s) - Len(Evict(s, t)) \in Nat
         /\ \A i \in 1..Len(Evict(s, t)) :
              Evict(s, t)[i] = s[(Len(s) - Len(Evict(s, t))) + i]
         /\ \A i \in 1..(Len(s) - Len(Evict(s, t))) : ~Fresh(s[i], t)
         /\ Evict(s, t) # <<>> => Fresh(Evict(s, t)[1], t)
<1> DEFINE fresh == {i \in 1..Len(s) : Fresh(s[i], t)}
<1>0. Len(s) \in Nat
  BY LenProperties
<1>1. CASE fresh = {}
  <2>1. Evict(s, t) = <<>>
    BY <1>1 DEF Evict
  <2>2. Len(s) - Len(Evict(s, t)) = Len(s)
    BY <1>0, <2>1
  <2> QED BY <1>0, <1>1, <2>1, <2>2
<1>2. CASE fresh # {}
  <2> DEFINE m == CHOOSE i \in fresh : \A j \in fresh : i <= j
  <2>1. \E i \in fresh : \A j \in fresh : i <= j
    <3>1. fresh \subseteq Nat
      OBVIOUS
    <3> HIDE DEF fresh
    <3> QED BY <1>2, <3>1, LeastElement
  <2>2. m \in fresh /\ \A j \in fresh : m <= j
    <3> HIDE DEF fresh
    <3> QED BY <2>1
  <2>3. Evict(s, t) = SubSeq(s, m, Len(s))
    BY <1>2 DEF Evict
  <2> HIDE DEF m
  <2>4. m \in 1..Len(s) /\ Fresh(s[m], t) /\ \A i \in 1..(m - 1) : ~Fresh(s[i], t)
    BY <1>0, <2>2
  <2>5. \A i \in m..Len(s) : s[i] \in Trades
    BY <1>0, <2>4, ElementOfSeq
  <2>6. /\ Evict(s, t) \in Seq(Trades)
        /\ Len(Evict(s, t)) = Len(s) - m + 1
        /\ \A i \in 1..(Len(s) - m + 1) : Evict(s, t)[i] = s[m + i - 1]
    BY <1>0, <2>3, <2>4, <2>5, SubSeqProperties
  <2>7. Len(s) - Len(Evict(s, t)) = m - 1
    BY <1>0, <2>4, <2>6
  <2>8. Evict(s, t)[1] = s[m]
    BY <1>0, <2>4, <2>6
  <2>9. \A i \in 1..Len(Evict(s, t)) : Evict(s, t)[i] = s[(m - 1) + i]
    BY <1>0, <2>4, <2>6
  <2> QED BY <1>0, <2>4, <2>6, <2>7, <2>8, <2>9
<1> QED BY <1>1, <1>2

SortedUpTo(h, t) ==
  /\ \A i \in 1..Len(h) : h[i].at <= t
  /\ \A i, j \in 1..Len(h) : i <= j => h[i].at <= h[j].at

\* q is h without its first trades, up to the first one inside the window at t.
IsWindowOf(q, h, t) ==
  /\ Len(h) - Len(q) \in Nat
  /\ \A i \in 1..Len(q) : q[i] = h[(Len(h) - Len(q)) + i]
  /\ \A i \in 1..(Len(h) - Len(q)) : ~Fresh(h[i], t)
  /\ q # <<>> => Fresh(q[1], t)

\* The plain sum over the window of a sorted history is its masked sum: the sum
\* record_trade takes over the deque is the P&L of the whole history's window.
LEMMA WindowSum ==
  ASSUME NEW h \in Seq(Trades), NEW q \in Seq(Trades), NEW t \in 0..MaxNow,
         SortedUpTo(h, t), IsWindowOf(q, h, t)
  PROVE  SumSeq([i \in 1..Len(q) |-> q[i].pnl]) = WindowPnl(h, t)
<1> DEFINE k == Len(h) - Len(q)
           v == [i \in 1..Len(h) |-> IF Fresh(h[i], t) THEN h[i].pnl ELSE 0]
           w == [i \in 1..Len(q) |-> q[i].pnl]
<1>1. Len(h) \in Nat /\ Len(q) \in Nat /\ k \in Nat
  BY LenProperties DEF IsWindowOf
<1>2. \A i \in 1..Len(h) : h[i].at \in Int /\ h[i].pnl \in Int
  <2>1. \A i \in 1..Len(h) : h[i] \in Trades
    BY <1>1, ElementOfSeq
  <2> QED BY <2>1, TradeFields
<1>3. \A i \in 1..Len(q) : k + i \in 1..Len(h) /\ q[i] = h[k + i]
  BY <1>1 DEF IsWindowOf
<1>4. v \in Seq(Int) /\ Len(v) = Len(h)
  BY <1>1, <1>2
<1>5. w \in Seq(Int) /\ Len(w) = Len(q)
  BY <1>1, <1>2, <1>3
<1>6. \A i \in 1..k : v[i] = 0
  BY <1>1 DEF IsWindowOf
<1>7. \A i \in 1..Len(q) : w[i] = v[k + i]
  <2> SUFFICES ASSUME NEW i \in 1..Len(q) PROVE w[i] = v[k + i]
    OBVIOUS
  <2>1. 1 \in 1..Len(q) /\ Fresh(q[1], t)
    <3>1. q # <<>>
      BY <1>1, EmptySeq
    <3> QED BY <1>1, <3>1 DEF IsWindowOf
  <2>2. t - h[k + 1].at <= Window
    BY <1>3, <2>1 DEF Fresh
  <2>3. h[k + 1].at <= h[k + i].at
    <3>1. k + 1 \in 1..Len(h) /\ k + i \in 1..Len(h) /\ k + 1 <= k + i
      BY <1>1, <1>3, <2>1
    <3> HIDE DEF k
    <3> QED BY <3>1 DEF SortedUpTo
  <2>4. t \in Int /\ Window \in Int
    BY BreakerAssumption
  <2>5. h[k + 1].at \in Int /\ h[k + i].at \in Int
    BY <1>2, <1>3, <2>1
  <2>6. Fresh(h[k + i], t)
    BY <2>2, <2>3, <2>4, <2>5 DEF Fresh
  <2> QED BY <1>3, <2>6
<1>8. SumSeq(v) = SumSeq(w)
  <2>1. Len(v) = k + Len(w)
    BY <1>1, <1>4, <1>5
  <2> HIDE DEF v, w, k
  <2> QED BY <1>1, <1>4, <1>5, <1>6, <1>7, <2>1, SumSeqDropZeros
<1> QED BY <1>8 DEF WindowPnl

\* A new breaker satisfies the invariant.
LEMMA InitInvariant == Init => IInv
<1> SUFFICES ASSUME Init PROVE IInv
  OBVIOUS
<1>1. trades = <<>> /\ history = <<>> /\ Len(history) = 0 /\ Len(trades) = 0
  BY DEF Init
<1>2. TypeOK
  <2>1. now \in 0..MaxNow /\ tripped_at \in 0..now \cup {NoInstant}
    BY BreakerAssumption DEF Init
  <2>2. trades \in Seq(Trades) /\ history \in Seq(Trades)
    BY EmptySeq DEF Init
  <2>3. tripped \in BOOLEAN /\ (tripped <=> tripped_at # NoInstant)
    BY Zenon DEF Init
  <2> QED BY <2>1, <2>2, <2>3 DEF TypeOK
<1>3. Ordered /\ WindowInDeque
  BY <1>1 DEF Ordered, WindowInDeque, Evicted
<1>4. TrippedIffBreached
  BY <1>1 DEF Init, TrippedIffBreached
<1> QED BY <1>2, <1>3, <1>4 DEF IInv

\* Facts about a step of RecordTrade that every part of the invariant uses: the
\* history grows by the trade, and the new deque is its latest part that ends
\* with the window.
LEMMA RecordTradeStep ==
  ASSUME IInv, NEW pnl \in Results, RecordTrade(pnl)
  PROVE  /\ now \in 0..MaxNow /\ now' = now
         /\ history \in Seq(Trades) /\ history' \in Seq(Trades)
         /\ Len(history) \in Nat /\ Len(history') = Len(history) + 1
         /\ \A i \in 1..Len(history) : history'[i] = history[i]
         /\ history'[Len(history')].at = now
         /\ trades' \in Seq(Trades)
         /\ Len(trades') \in Nat
         /\ Evicted' \in Nat
         /\ \A i \in 1..Len(trades') : trades'[i] = history'[Evicted' + i]
         /\ \A i \in 1..Evicted' : ~Fresh(history'[i], now)
         /\ trades' # <<>> => Fresh(trades'[1], now)
<1> DEFINE trade == [at |-> now, pnl |-> pnl]
           s     == Append(trades, trade)
           kept  == Evict(s, now)
           d     == Len(history) - Len(trades)
           e     == Len(s) - Len(kept)
<1>1. /\ now \in 0..MaxNow /\ trades \in Seq(Trades) /\ history \in Seq(Trades)
      /\ trade \in Trades /\ Len(history) \in Nat /\ Len(trades) \in Nat
  BY LenProperties DEF IInv, TypeOK, Trades
<1>2. now' = now /\ history' = Append(history, trade) /\ trades' = kept
  BY DEF RecordTrade
<1>3. /\ history' \in Seq(Trades)
      /\ Len(history') = Len(history) + 1
      /\ \A i \in 1..Len(history) : history'[i] = history[i]
      /\ history'[Len(history')] = trade
  <2> HIDE DEF trade
  <2> QED BY <1>1, <1>2, AppendProperties
<1>4. /\ s \in Seq(Trades)
      /\ Len(s) = Len(trades) + 1
      /\ \A i \in 1..Len(trades) : s[i] = trades[i]
      /\ s[Len(s)] = trade
  <2> HIDE DEF trade
  <2> QED BY <1>1, AppendProperties
<1>5. /\ d \in Nat
      /\ \A i \in 1..Len(trades) : trades[i] = history[d + i]
      /\ \A i \in 1..d : ~Fresh(history[i], now)
  BY <1>1 DEF IInv, WindowInDeque, Evicted, Fresh
<1>6. \A i \in 1..Len(s) : s[i] = history'[d + i]
  <2> HIDE DEF s, trade
  <2> SUFFICES ASSUME NEW i \in 1..Len(s) PROVE s[i] = history'[d + i]
    OBVIOUS
  <2>1. CASE i = Len(s)
    BY <1>1, <1>3, <1>4, <1>5, <2>1
  <2>2. CASE i # Len(s)
    <3>1. i \in 1..Len(trades) /\ d + i \in 1..Len(history)
      BY <1>1, <1>4, <1>5, <2>2
    <3> QED BY <1>3, <1>4, <1>5, <3>1
  <2> QED BY <2>1, <2>2
<1>7. /\ kept \in Seq(Trades)
      /\ e \in Nat
      /\ \A i \in 1..Len(kept) : kept[i] = s[e + i]
      /\ \A i \in 1..e : ~Fresh(s[i], now)
      /\ kept # <<>> => Fresh(kept[1], now)
  <2> HIDE DEF s
  <2> QED BY <1>1, <1>4, EvictProperties
<1>8. Len(kept) \in Nat
  BY <1>7, LenProperties
<1> HIDE DEF s, kept, trade
<1>9. Evicted' = d + e /\ d + e \in Nat
  BY <1>1, <1>2, <1>3, <1>4, <1>5, <1>7, <1>8 DEF Evicted
<1>10. \A i \in 1..Len(kept) : kept[i] = history'[(d + e) + i]
  BY <1>1, <1>4, <1>5, <1>6, <1>7, <1>8
<1>11. \A i \in 1..(d + e) : ~Fresh(history'[i], now)
  <2> SUFFICES ASSUME NEW i \in 1..(d + e) PROVE ~Fresh(history'[i], now)
    OBVIOUS
  <2>1. CASE i <= d
    <3>1. i \in 1..d /\ i \in 1..Len(history)
      BY <1>1, <1>5, <2>1
    <3> QED BY <1>3, <1>5, <3>1
  <2>2. CASE ~(i <= d)
    <3>1. i - d \in 1..e /\ i - d \in 1..Len(s) /\ d + (i - d) = i
      BY <1>1, <1>4, <1>5, <1>7, <1>8, <2>2
    <3> QED BY <1>6, <1>7, <3>1
  <2> QED BY <2>1, <2>2
<1>12. history'[Len(history')].at = now
  BY <1>3 DEF trade
<1> QED BY <1>1, <1>2, <1>3, <1>7, <1>8, <1>9, <1>10, <1>11, <1>12

\* Recording a trade keeps the order of the history and the eviction argument.
LEMMA RecordTradeWindow ==
  ASSUME IInv, NEW pnl \in Results, RecordTrade(pnl)
  PROVE  /\ Ordered' /\ WindowInDeque'
         /\ SortedUpTo(history', now)
         /\ IsWindowOf(trades', history', now)
<1>0. /\ now' = now
      /\ Len(history) \in Nat /\ Len(history') = Len(history) + 1
      /\ \A i \in 1..Len(history) : history'[i] = history[i]
      /\ history'[Len(history')].at = now
      /\ now \in Int
  BY RecordTradeStep
<1>1. SortedUpTo(history', now)
  <2>1. \A i \in 1..Len(history) : history[i].at <= now /\ history[i].at \in Int
    <3>1. history \in Seq(Trades)
      BY RecordTradeStep
    <3>2. \A i \in 1..Len(history) : history[i] \in Trades
      BY <3>1, ElementOfSeq
    <3> QED BY <3>2, TradeFields DEF IInv, Ordered
  <2>2. \A i, j \in 1..Len(history) : i <= j => history[i].at <= history[j].at
    BY DEF IInv, Ordered
  <2>3. \A i \in 1..Len(history') : i \in 1..Len(history) \/ i = Len(history')
    BY <1>0
  <2>4. \A i \in 1..Len(history') : history'[i].at <= now
    BY <1>0, <2>1, <2>3
  <2>5. \A i, j \in 1..Len(history') : i <= j => history'[i].at <= history'[j].at
    BY <1>0, <2>1, <2>2, <2>3
  <2> QED BY <2>4, <2>5 DEF SortedUpTo
<1>2. Ordered'
  BY <1>0, <1>1 DEF SortedUpTo, Ordered
<1>3. IsWindowOf(trades', history', now)
  BY RecordTradeStep DEF IsWindowOf, Evicted
<1>4. WindowInDeque'
  BY <1>0, RecordTradeStep DEF WindowInDeque, Fresh
<1> QED BY <1>1, <1>2, <1>3, <1>4

\* BreachAt for a history and a trade of it, without the variables.
Breach(h, n) ==
  SumSeq([i \in 1..n |-> IF h[n].at - h[i].at <= Window
                         THEN h[i].pnl ELSE 0]) < -MaxLoss

\* A trade that was already recorded breaches its window or not for good.
LEMMA BreachOfPrefix ==
  ASSUME NEW g, NEW h, NEW n \in Nat, n > 0, \A i \in 1..n : g[i] = h[i]
  PROVE  Breach(g, n) <=> Breach(h, n)
<1>1. n \in 1..n
  OBVIOUS
<1>2. [i \in 1..n |-> IF g[n].at - g[i].at <= Window THEN g[i].pnl ELSE 0]
        = [i \in 1..n |-> IF h[n].at - h[i].at <= Window THEN h[i].pnl ELSE 0]
  BY <1>1
<1> QED BY <1>2 DEF Breach

\* `record_trade` trips exactly if the sum over the new window is a breach.
LEMMA RecordTradeTrips ==
  ASSUME IInv, NEW pnl \in Results, RecordTrade(pnl)
  PROVE  TrippedIffBreached'
<1> DEFINE h    == history'
           n    == Len(h)
           over == SumSeq([i \in 1..Len(trades') |-> trades'[i].pnl]) < -MaxLoss
<1>1. /\ Len(history) \in Nat /\ n = Len(history) + 1
      /\ \A i \in 1..Len(history) : h[i] = history[i]
      /\ h[n].at = now
  BY RecordTradeStep
<1>2. Breach(h, n) <=> over
  <2>1. now \in 0..MaxNow /\ h \in Seq(Trades) /\ trades' \in Seq(Trades)
    BY RecordTradeStep
  <2>2. SortedUpTo(h, now) /\ IsWindowOf(trades', h, now)
    BY RecordTradeWindow
  <2>3. SumSeq([i \in 1..Len(trades') |-> trades'[i].pnl]) = WindowPnl(h, now)
    BY <2>1, <2>2, WindowSum
  <2>4. [i \in 1..n |-> IF h[n].at - h[i].at <= Window THEN h[i].pnl ELSE 0]
          = [i \in 1..n |-> IF Fresh(h[i], now) THEN h[i].pnl ELSE 0]
    BY <1>1 DEF Fresh
  <2> QED BY <2>3, <2>4 DEF Breach, WindowPnl
<1>3. \A m \in 1..Len(history) : Breach(h, m) <=> BreachAt(m)
  <2> SUFFICES ASSUME NEW m \in 1..Len(history) PROVE Breach(h, m) <=> Breach(history, m)
    BY DEF Breach, BreachAt
  <2>1. m \in Nat /\ m > 0 /\ \A i \in 1..m : h[i] = history[i]
    BY <1>1
  <2> QED BY <2>1, BreachOfPrefix
<1>4. (tripped' <=> tripped \/ over) /\ tripped' \in BOOLEAN
  BY Zenon DEF RecordTrade, IInv, TypeOK
<1>5. tripped_at' = IF over /\ ~tripped THEN now ELSE tripped_at
  BY DEF RecordTrade
<1>6. (\A m \in 1..n : m \in 1..Len(history) \/ m = n) /\ n \in 1..n
      /\ 1..(n - 1) = 1..Len(history) /\ 1..Len(history) \subseteq 1..n
  BY <1>1
<1>7. /\ tripped <=> \E m \in 1..Len(history) : BreachAt(m)
      /\ tripped => \E m \in 1..Len(history) :
                      /\ BreachAt(m)
                      /\ tripped_at = history[m].at
                      /\ \A l \in 1..(m - 1) : ~BreachAt(l)
  BY DEF IInv, TrippedIffBreached
<1> HIDE DEF h, n, over
<1>8. tripped' <=> \E m \in 1..n : Breach(h, m)
  BY <1>2, <1>3, <1>4, <1>6, <1>7, Zenon
<1>9. ASSUME tripped'
      PROVE  \E m \in 1..n : /\ Breach(h, m)
                             /\ tripped_at' = h[m].at
                             /\ \A l \in 1..(m - 1) : ~Breach(h, l)
  <2>1. CASE tripped
    <3>1. PICK m \in 1..Len(history) : /\ BreachAt(m)
                                       /\ tripped_at = history[m].at
                                       /\ \A l \in 1..(m - 1) : ~BreachAt(l)
      BY <1>7, <2>1
    <3>2. \A l \in 1..(m - 1) : l \in 1..Len(history)
      BY <1>1
    <3>3. tripped_at' = tripped_at
      BY <1>5, <2>1
    <3>4. m \in 1..n /\ h[m] = history[m]
      BY <1>1, <1>6
    <3> QED BY <1>3, <3>1, <3>2, <3>3, <3>4, Zenon
  <2>2. CASE ~tripped
    <3>1. over /\ tripped_at' = now
      BY <1>4, <1>5, <1>9, <2>2
    <3>2. \A l \in 1..(n - 1) : ~Breach(h, l)
      BY <1>3, <1>6, <1>7, <2>2, Zenon
    <3> QED BY <1>1, <1>2, <1>6, <3>1, <3>2, Zenon
  <2> QED BY <2>1, <2>2
<1>10. \A m : BreachAt(m)' <=> Breach(h, m)
  BY DEF BreachAt, Breach, h
<1>11. (\E m \in 1..Len(history) : BreachAt(m))' <=> \E m \in 1..n : Breach(h, m)
  BY <1>10, Zenon DEF n, h
<1> QED BY <1>8, <1>9, <1>10, <1>11, Zenon DEF TrippedIffBreached, n, h

\* `record_trade` keeps the types.
LEMMA RecordTradeTypes ==
  ASSUME IInv, NEW pnl \in Results, RecordTrade(pnl)
  PROVE  TypeOK'
<1>1. now' \in 0..MaxNow /\ trades' \in Seq(Trades) /\ history' \in Seq(Trades)
  BY RecordTradeStep
<1> DEFINE trips == tripped' /\ ~tripped
<1>2. /\ tripped' \in BOOLEAN
      /\ trips \/ (tripped' <=> tripped)
      /\ tripped_at' = IF trips THEN now ELSE tripped_at
  BY Zenon DEF RecordTrade, IInv, TypeOK
<1>3. now' = now /\ now \in Nat /\ now # NoInstant /\ tripped_at \in 0..now \cup {NoInstant}
  BY RecordTradeStep DEF IInv, TypeOK, NoInstant
<1>4. tripped_at' \in 0..now' \cup {NoInstant}
  BY <1>2, <1>3
<1>5. tripped' <=> tripped_at' # NoInstant
  BY <1>2, <1>3, Zenon DEF IInv, TypeOK
<1> QED BY <1>1, <1>2, <1>4, <1>5 DEF TypeOK

\* `reset` keeps the invariant.
LEMMA ResetInvariant == ASSUME IInv, Reset PROVE IInv'
<1>1. /\ trades' = <<>> /\ history' = <<>>
      /\ Len(history') = 0 /\ Len(trades') = 0 /\ now' = now
  BY DEF Reset
<1>2. TypeOK'
  <2>1. now' \in 0..MaxNow
    BY <1>1 DEF IInv, TypeOK
  <2>2. trades' \in Seq(Trades) /\ history' \in Seq(Trades)
    BY <1>1, EmptySeq
  <2>3. /\ tripped_at' \in 0..now' \cup {NoInstant} /\ tripped' \in BOOLEAN
        /\ tripped' <=> tripped_at' # NoInstant
    BY Zenon DEF Reset
  <2> QED BY <2>1, <2>2, <2>3 DEF TypeOK
<1>3. Ordered' /\ WindowInDeque'
  BY <1>1 DEF Ordered, WindowInDeque, Evicted
<1>4. ~tripped' /\ 1..Len(history') = {}
  <2>1. 1..Len(history') = {}
    BY <1>1
  <2> QED BY <2>1, Zenon DEF Reset
<1>5. TrippedIffBreached'
  BY <1>4, Zenon DEF TrippedIffBreached
<1> QED BY <1>2, <1>3, <1>5 DEF IInv

\* Time only pushes trades further out of the window.
LEMMA TickInvariant == ASSUME IInv, Tick PROVE IInv'
<1>1. /\ now \in 0..MaxNow /\ now < MaxNow /\ now' = now + 1
      /\ trades' = trades /\ history' = history
      /\ tripped' = tripped /\ tripped_at' = tripped_at
  BY DEF Tick, breakerVars, IInv, TypeOK
<1>2. /\ Len(history) \in Nat /\ Len(trades) \in Nat
      /\ \A i \in 1..Len(history) : history[i].at \in Int
  <2>1. history \in Seq(Trades) /\ trades \in Seq(Trades)
    BY DEF IInv, TypeOK
  <2>2. \A i \in 1..Len(history) : history[i] \in Trades
    BY <2>1, ElementOfSeq
  <2> QED BY <2>1, <2>2, TradeFields, LenProperties
<1>3. TypeOK'
  <2>1. now' \in 0..MaxNow
    BY <1>1, BreakerAssumption
  <2>2. tripped_at' \in 0..now' \cup {NoInstant}
    <3>1. tripped_at \in 0..now \cup {NoInstant}
      BY DEF IInv, TypeOK
    <3> QED BY <1>1, <3>1
  <2>3. /\ trades' \in Seq(Trades) /\ history' \in Seq(Trades)
        /\ tripped' \in BOOLEAN /\ (tripped' <=> tripped_at' # NoInstant)
    BY <1>1, Zenon DEF IInv, TypeOK
  <2> QED BY <2>1, <2>2, <2>3 DEF TypeOK
<1>4. Ordered'
  BY <1>1, <1>2 DEF IInv, Ordered
<1>5. WindowInDeque'
  <2>1. /\ Evicted >= 0 /\ Evicted \in Int /\ Evicted <= Len(history)
        /\ \A i \in 1..Len(trades) : trades[i] = history[Evicted + i]
        /\ \A i \in 1..Evicted : ~(now - history[i].at <= Window)
    BY <1>2 DEF IInv, WindowInDeque, Evicted
  <2>2. \A i \in 1..Evicted : history[i].at \in Int
    BY <1>2, <2>1
  <2>3. \A i \in 1..Evicted : ~(now' - history[i].at <= Window)
    BY <1>1, <2>1, <2>2, BreakerAssumption
  <2>4. Evicted' = Evicted
    BY <1>1 DEF Evicted
  <2> QED BY <1>1, <2>1, <2>3, <2>4 DEF WindowInDeque
<1>6. TrippedIffBreached'
  BY <1>1 DEF IInv, TrippedIffBreached, BreachAt
<1> QED BY <1>3, <1>4, <1>5, <1>6 DEF IInv

\* Every step keeps the invariant.
LEMMA NextInvariant == IInv /\ [Next]_vars => IInv'
<1> SUFFICES ASSUME IInv, [Next]_vars PROVE IInv'
  OBVIOUS
<1>1. ASSUME NEW pnl \in Results, RecordTrade(pnl) PROVE IInv'
  BY <1>1, RecordTradeTypes, RecordTradeWindow, RecordTradeTrips DEF IInv
<1>2. CASE Reset
  BY <1>2, ResetInvariant
<1>3. CASE Tick
  BY <1>3, TickInvariant
<1>4. CASE UNCHANGED vars
  BY <1>4, Zenon DEF vars, breakerVars, IInv, TypeOK, Ordered, WindowInDeque,
              Evicted, TrippedIffBreached, BreachAt
<1> QED BY <1>1, <1>2, <1>3, <1>4 DEF Next

\* The invariant holds in every reachable state of the breaker.
THEOREM InductiveInvariant == Spec => []IInv
BY InitInvariant, NextInvariant, PTL DEF Spec

\* The breaker's variables keep their types.
THEOREM BreakerTypes == Spec => []TypeOK
<1>1. IInv => TypeOK
  BY DEF IInv
<1> QED BY <1>1, InductiveInvariant, PTL

\* What the age limit of rolling_pnl selects of the deque sums up to what the window
\* selects of the history: the evicted trades count for nothing.
LEMMA RollingExact == IInv => NothingInWindowDropped
<1> SUFFICES ASSUME IInv PROVE NothingInWindowDropped
  OBVIOUS
<1> DEFINE k == Len(history) - Len(trades)
           v == [i \in 1..Len(history) |-> IF now - history[i].at <= Window
                                          THEN history[i].pnl ELSE 0]
           w == [i \in 1..Len(trades) |-> IF Fresh(trades[i], now) THEN trades[i].pnl ELSE 0]
<1>1. history \in Seq(Trades) /\ trades \in Seq(Trades) /\ WindowInDeque
  BY DEF IInv, TypeOK
<1>2. Len(history) \in Nat /\ Len(trades) \in Nat
  BY <1>1, LenProperties
<1>3. /\ k \in Nat
      /\ \A i \in 1..Len(trades) : trades[i] = history[k + i]
      /\ \A i \in 1..k : ~(now - history[i].at <= Window)
  BY <1>1, <1>2 DEF WindowInDeque, Evicted
<1>4. /\ \A i \in 1..Len(history) : history[i].pnl \in Int
      /\ \A i \in 1..Len(trades) : trades[i].pnl \in Int
  <2>1. \A i \in 1..Len(history) : history[i] \in Trades
    BY <1>1, <1>2, ElementOfSeq
  <2>2. \A i \in 1..Len(trades) : trades[i] \in Trades
    BY <1>1, <1>2, ElementOfSeq
  <2> QED BY <2>1, <2>2, TradeFields
<1>5. v \in Seq(Int) /\ Len(v) = Len(history)
  BY <1>2, <1>4
<1>6. w \in Seq(Int) /\ Len(w) = Len(trades)
  BY <1>2, <1>4
<1>7. \A i \in 1..k : v[i] = 0
  BY <1>2, <1>3
<1>8. \A i \in 1..Len(trades) : w[i] = v[k + i]
  <2> SUFFICES ASSUME NEW i \in 1..Len(trades) PROVE w[i] = v[k + i]
    OBVIOUS
  <2>1. k + i \in 1..Len(history) /\ trades[i] = history[k + i]
    BY <1>2, <1>3
  <2> QED BY <2>1 DEF Fresh
<1>9. SumSeq(v) = SumSeq(w)
  <2>1. Len(v) = k + Len(w)
    BY <1>2, <1>5, <1>6
  <2> HIDE DEF v, w, k
  <2> QED BY <1>2, <1>3, <1>5, <1>6, <1>7, <1>8, <2>1, SumSeqDropZeros
<1> QED BY <1>1, <1>9 DEF NothingInWindowDropped, rolling_pnl, WindowPnl

\* record_trade's incremental eviction never drops a trade that is still in the
\* window, and rolling_pnl is the window's P&L, however calls and the passing of time
\* interleave.
THEOREM EvictionSound == Spec => []NothingInWindowDropped
<1> QED BY RollingExact, InductiveInvariant, PTL

\* The breaker trips exactly on the first trade since the last reset whose own
\* window lost more than max_loss_lamports, and stays tripped until reset.
THEOREM TripExact == Spec => []TrippedIffBreached
<1>1. IInv => TrippedIffBreached
  BY DEF IInv
<1> QED BY <1>1, InductiveInvariant, PTL
==============================================================================
