---------------------------- MODULE CircuitBreaker ----------------------------
(***************************************************************************)
(* The loss limiter of crates/risk/src/circuit_breaker.rs.                 *)
(*                                                                         *)
(* CircuitBreakerInner sits behind one Mutex and every method reads the    *)
(* clock while it holds the lock, so each method is one atomic action and  *)
(* trades are pushed in the order of their instants.                       *)
(***************************************************************************)
EXTENDS Integers, Sequences, SeqFolds

CONSTANTS
  Window,      \* window_secs, in ticks of the model's clock
  MaxLoss,     \* max_loss_lamports
  Results,     \* the trade results, in lamports, callers may record
  MaxNow,      \* bound: the last instant of the model's clock
  MaxTrades    \* bound: trades recorded between two resets

ASSUME BreakerAssumption ==
  /\ Window \in Nat
  /\ MaxLoss \in Int
  /\ Results \subseteq Int
  /\ MaxNow \in Nat
  /\ MaxTrades \in Nat

NoInstant == -1   \* tripped_at = None

VARIABLES
  now,          \* Instant::now()
  trades,       \* the deque of (timestamp, profit or loss)
  tripped,
  tripped_at,
  history       \* history variable: every trade recorded since the last reset

breakerVars == <<trades, tripped, tripped_at, history>>
vars == <<now, breakerVars>>

Trades == [at : 0..MaxNow, pnl : Results]

Init ==
  /\ now = 0
  /\ trades = <<>>
  /\ tripped = FALSE
  /\ tripped_at = NoInstant
  /\ history = <<>>

Fresh_AgeLimitExcluded(trade, t) == t - trade.at < Window

Fresh(trade, t) == t - trade.at <= Window

\* The eviction loop: pop the front while it is older than the window.
Evict(s, t) ==
  LET fresh == {i \in 1..Len(s) : Fresh(s[i], t)}
  IN  IF fresh = {} THEN <<>>
      ELSE SubSeq(s, CHOOSE i \in fresh : \A j \in fresh : i <= j, Len(s))

RecordTrade_Unlatched(pnl) ==
  LET trade == [at |-> now, pnl |-> pnl]
      kept  == Evict(Append(trades, trade), now)
      over  == SumSeq([i \in 1..Len(kept) |-> kept[i].pnl]) < -MaxLoss
  IN  /\ Len(history) < MaxTrades
      /\ trades' = kept
      /\ tripped' = over
      /\ tripped_at' = IF over THEN now ELSE NoInstant
      /\ history' = Append(history, trade)
      /\ UNCHANGED now

RecordTrade(pnl) ==
  LET trade == [at |-> now, pnl |-> pnl]
      kept  == Evict(Append(trades, trade), now)
      trips == /\ SumSeq([i \in 1..Len(kept) |-> kept[i].pnl]) < -MaxLoss
               /\ ~tripped
  IN  /\ Len(history) < MaxTrades
      /\ trades' = kept
      /\ tripped' = (tripped \/ trips)
      /\ tripped_at' = IF trips THEN now ELSE tripped_at
      /\ history' = Append(history, trade)
      /\ UNCHANGED now

is_allowed == ~tripped

Reset_KeepsInstant ==
  /\ tripped' = FALSE
  /\ trades' = <<>>
  /\ history' = <<>>
  /\ UNCHANGED <<now, tripped_at>>

\* Manual reset; it forgets the trades too.
Reset ==
  /\ tripped' = FALSE
  /\ tripped_at' = NoInstant
  /\ trades' = <<>>
  /\ history' = <<>>
  /\ UNCHANGED now

\* The profit or loss of the trades of s no older than the window at t.
WindowPnl(s, t) ==
  SumSeq([i \in 1..Len(s) |-> IF Fresh(s[i], t) THEN s[i].pnl ELSE 0])

rolling_pnl == WindowPnl(trades, now)

Tick == now < MaxNow /\ now' = now + 1 /\ UNCHANGED breakerVars

Next ==
  \/ \E pnl \in Results : RecordTrade(pnl)
  \/ Reset
  \/ Tick

Spec == Init /\ [][Next]_vars

------------------------------------------------------------------------------
(* Properties *)

\* Every variable keeps its type, and the instant of a trip is known exactly
\* while the breaker is tripped.
TypeOK ==
  /\ now \in 0..MaxNow
  /\ trades \in Seq(Trades)
  /\ history \in Seq(Trades)
  /\ tripped \in BOOLEAN
  /\ tripped_at \in 0..now \cup {NoInstant}
  /\ tripped <=> tripped_at # NoInstant

\* The trades evicted so far: the prefix of the history missing from the deque.
Evicted == Len(history) - Len(trades)

\* The deque is the latest part of the history, and what is missing is outside the
\* window.
WindowInDeque ==
  /\ Evicted >= 0
  /\ \A i \in 1..Len(trades) : trades[i] = history[Evicted + i]
  /\ \A i \in 1..Evicted : ~(now - history[i].at <= Window)

\* Whatever the incremental eviction of record_trade has dropped is already outside
\* the window, and rolling_pnl, which filters the deque by an age limit of its own,
\* is the P&L of the window over the whole history: neither method misses a trade
\* that still counts or counts one that does not.
NothingInWindowDropped ==
  /\ WindowInDeque
  /\ rolling_pnl = SumSeq([i \in 1..Len(history) |-> IF now - history[i].at <= Window
                                                     THEN history[i].pnl ELSE 0])

\* The n-th trade of the history left the P&L of its window below -MaxLoss.
\* The window is written out: the sum does not go through Evict or the deque.
BreachAt(n) ==
  SumSeq([i \in 1..n |-> IF history[n].at - history[i].at <= Window
                         THEN history[i].pnl ELSE 0]) < -MaxLoss

\* The breaker is tripped exactly when some trade since the last reset breached
\* the limit in its own window (later profits do not re-arm it, and nothing
\* else trips it), and tripped_at is the instant of the first such trade.
TrippedIffBreached ==
  /\ tripped <=> \E n \in 1..Len(history) : BreachAt(n)
  /\ tripped => \E n \in 1..Len(history) :
                  /\ BreachAt(n)
                  /\ tripped_at = history[n].at
                  /\ \A m \in 1..(n - 1) : ~BreachAt(m)
==============================================================================
