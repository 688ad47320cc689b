-------------------------------- MODULE MevBot --------------------------------
(***************************************************************************)
(* The trading pipeline crates/mev-bot/src/main.rs wires together: the two *)
(* strategy tasks, the bounded opportunity channel, the executor task with *)
(* its bundle tracker, the circuit breaker, the counters and the shutdown  *)
(* signal.  Tasks run in parallel on tokio's threads: an action is the     *)
(* code from one touch of something they share (a channel, a counter, the  *)
(* breaker's mutex) or one await to the next.                              *)
(***************************************************************************)
EXTENDS RiskLimits, Sequences, FiniteSets, SeqFolds

CONSTANTS
  Strategies,     \* the strategy tasks
  Opportunities,  \* what a strategy may find
  ChannelCap,     \* capacity of the opportunity channel
  MaxUpdates,     \* bound: account updates each strategy receives
  MaxBatch,       \* opportunities one update may yield, per strategy
  MaxBundles,     \* bound: bundles submitted
  Window, MaxLoss,          \* of the circuit breaker
  MaxPending, Timeout,      \* of the bundle tracker
  Ids, NoId,                \* bundle ids of the block engine
  MaxNow                    \* bound: the last instant of the model's clock

\* What stands for no opportunity.
None == [strategy |-> "none"]

ASSUME BotAssumption ==
  /\ ChannelCap \in Nat \ {0}
  /\ MaxBatch \in [Strategies -> Nat]
  /\ MaxUpdates \in Nat /\ MaxBundles \in Nat /\ MaxNow \in Nat
  /\ \A opp \in Opportunities :
       opp.profit \in Int /\ opp.amount_in \in Nat /\ opp.blacklisted \in BOOLEAN
  /\ None \notin Opportunities
  /\ Window \in Nat /\ MaxLoss \in Int
  /\ MaxPending \in Nat \ {0} /\ Timeout \in Nat
  /\ NoId \notin Ids

VARIABLES
  phase,      \* where each strategy task is: select, batch, sending, stopped
  batch,      \* the opportunities of the current update not yet dealt with
  updates,    \* updates each strategy has received
  feed,       \* is the data feed task still sending updates?
  channel,    \* the opportunity channel: strategies -> executor
  exec,       \* where the executor is: select, submitting, polling, booking, stopped
  current,    \* the opportunity being submitted, or None
  applied,    \* the outcomes already booked
  pnl,        \* PnlTracker
  failures,   \* the counter mev_bundles_failed_total
  dry_run,    \* config.runtime.dry_run
  shutdown,   \* the watch channel's value
  \* the bundle tracker and the block engine
  now, pending, asked, outcomes, tracked, chain,
  \* the circuit breaker
  trades, tripped, tripped_at, history

strategyVars == <<phase, batch, updates>>
executorVars == <<exec, current, applied>>
booksVars == <<pnl, failures>>
trackerVars == <<now, pending, asked, outcomes, tracked, chain>>
breakerVars == <<trades, tripped, tripped_at, history>>
configVars == <<feed, dry_run, shutdown>>
vars == <<strategyVars, channel, executorVars, booksVars, configVars, trackerVars, breakerVars>>

\* What the tracker keeps of a submitted opportunity.
TradeOf(opp) == [profit |-> opp.profit, tip |-> calculate_tip(opp.profit)]

Tracker == INSTANCE BundleTracker WITH
             Trades <- {TradeOf(opp) : opp \in Opportunities},
             MaxTracked <- MaxBundles

Breaker == INSTANCE CircuitBreaker WITH
             Results <- {opp.profit : opp \in Opportunities} \cup {0},
             MaxTrades <- MaxBundles

Init ==
  /\ phase = [s \in Strategies |-> "select"]
  /\ batch = [s \in Strategies |-> <<>>]
  /\ updates = [s \in Strategies |-> 0]
  /\ feed = TRUE
  /\ channel = <<>>
  /\ exec = "select"
  /\ current = None
  /\ applied = 0
  /\ pnl = [opportunities |-> 0, submitted |-> 0, landed |-> 0, profit |-> 0, tips |-> 0]
  /\ failures = 0
  /\ dry_run \in BOOLEAN
  /\ shutdown = FALSE
  /\ Tracker!Init
  /\ Breaker!Init

------------------------------------------------------------------------------
(* A strategy task *)

\* What one update may yield: the search or the obligation check, abstracted.
Finds(s) == UNION {[1..n -> {opp \in Opportunities : opp.strategy = s}] : n \in 0..MaxBatch[s]}

\* recv() returns an update, one still buffered after the feed has ended perhaps.
\* The breaker is asked once, before the update is processed; while it is
\* tripped the update is skipped.
Receive(s) ==
  /\ phase[s] = "select"
  /\ updates[s] < MaxUpdates
  /\ updates' = [updates EXCEPT ![s] = @ + 1]
  /\ \E found \in Finds(s) :
       /\ found # <<>> => Breaker!is_allowed
       /\ batch' = [batch EXCEPT ![s] = found]
       /\ phase' = [phase EXCEPT ![s] = IF found = <<>> THEN "select" ELSE "batch"]
  /\ UNCHANGED <<channel, executorVars, booksVars, configVars, trackerVars, breakerVars>>

NextInBatch_Break(s) ==
  /\ batch' = [batch EXCEPT ![s] = Tail(@)]
  /\ phase' = [phase EXCEPT ![s] = "select"]

\* The for loop over the opportunities of one update goes on, or ends.
NextInBatch(s) ==
  /\ batch' = [batch EXCEPT ![s] = Tail(@)]
  /\ phase' = [phase EXCEPT ![s] = IF Len(batch[s]) = 1 THEN "select" ELSE "batch"]

Approved_PositionUnchecked(opp) == ~opp.blacklisted /\ opp.profit >= MinProfit
Approved(opp) == ~opp.blacklisted /\ check(opp)

\* Count the next opportunity of the batch, then check the blacklist and the
\* risk limits; an approved one is about to be sent.
Consider(s) ==
  /\ phase[s] = "batch"
  /\ pnl' = [pnl EXCEPT !.opportunities = @ + 1]
  /\ IF Approved(Head(batch[s]))
     THEN phase' = [phase EXCEPT ![s] = "sending"] /\ UNCHANGED batch
     ELSE NextInBatch(s)
  /\ UNCHANGED <<updates, channel, executorVars, failures, configVars, trackerVars, breakerVars>>

\* send().await completes when the channel has room; until then the task waits
\* here and looks at neither the feed nor the shutdown signal.
Send(s) ==
  /\ phase[s] = "sending"
  /\ exec # "stopped"
  /\ Len(channel) < ChannelCap
  /\ channel' = Append(channel, Head(batch[s]))
  /\ NextInBatch(s)
  /\ UNCHANGED <<updates, executorVars, booksVars, configVars, trackerVars, breakerVars>>

ReceiverGone_Never == FALSE
\* The executor task owned opp_rx: when it stops, sends fail.
ReceiverGone == exec = "stopped"

SendFails(s) ==
  /\ phase[s] = "sending"
  /\ ReceiverGone
  /\ NextInBatch(s)
  /\ UNCHANGED <<updates, channel, executorVars, booksVars, configVars, trackerVars, breakerVars>>

StopStrategy_FeedOnly(s) ==
  /\ phase[s] = "select"
  /\ ~feed
  /\ phase' = [phase EXCEPT ![s] = "stopped"]
  /\ UNCHANGED <<batch, updates, channel, executorVars, booksVars, configVars, trackerVars, breakerVars>>

\* The select! loop is left on shutdown, or when the feed has gone and the
\* broadcast channel is closed.
StopStrategy(s) ==
  /\ phase[s] = "select"
  /\ shutdown \/ ~feed
  /\ phase' = [phase EXCEPT ![s] = "stopped"]
  /\ UNCHANGED <<batch, updates, channel, executorVars, booksVars, configVars, trackerVars, breakerVars>>

------------------------------------------------------------------------------
(* The executor task *)

\* No blockhash, or the transaction cannot be built: the opportunity is dropped.
Abandon ==
  /\ exec = "select"
  /\ channel # <<>>
  /\ channel' = Tail(channel)
  /\ UNCHANGED <<strategyVars, executorVars, booksVars, configVars, trackerVars, breakerVars>>

\* The bundle is built and counted, then execute(bundle) is awaited.
TakeOpportunity ==
  /\ exec = "select"
  /\ channel # <<>>
  /\ channel' = Tail(channel)
  /\ current' = Head(channel)
  /\ exec' = "submitting"
  /\ pnl' = [pnl EXCEPT !.submitted = @ + 1]
  /\ UNCHANGED <<strategyVars, applied, failures, configVars, trackerVars, breakerVars>>

\* The block engine accepted the bundle: track it.
SubmitOk(id) ==
  /\ exec = "submitting" /\ ~dry_run
  /\ Tracker!Track(id, TradeOf(current))
  /\ exec' = "select" /\ current' = None
  /\ UNCHANGED <<strategyVars, channel, applied, booksVars, configVars, breakerVars>>

SubmitFails_Uncounted ==
  /\ exec = "submitting" /\ ~dry_run
  /\ exec' = "select" /\ current' = None
  /\ UNCHANGED <<strategyVars, channel, applied, booksVars, configVars, trackerVars, breakerVars>>

SubmitFails ==
  /\ exec = "submitting" /\ ~dry_run
  /\ failures' = failures + 1
  /\ exec' = "select" /\ current' = None
  /\ UNCHANGED <<strategyVars, channel, applied, pnl, configVars, trackerVars, breakerVars>>

\* execute() in dry-run mode logs the bundle and submits nothing.
SubmitDryRun ==
  /\ exec = "submitting" /\ dry_run
  /\ exec' = "select" /\ current' = None
  /\ UNCHANGED <<strategyVars, channel, applied, booksVars, configVars, trackerVars, breakerVars>>

\* poll_interval ticks; nothing is asked while nothing is pending.
Poll ==
  /\ exec = "select"
  /\ Tracker!StartPoll
  /\ exec' = "polling"
  /\ UNCHANGED <<strategyVars, channel, current, applied, booksVars, configVars, breakerVars>>

PollFails ==
  /\ exec = "polling"
  /\ Tracker!PollError
  /\ exec' = "select"
  /\ UNCHANGED <<strategyVars, channel, current, applied, booksVars, configVars, breakerVars>>

PollReturns ==
  /\ exec = "polling"
  /\ \E listed \in SUBSET Ids : Tracker!PollReply(listed)
  /\ exec' = IF outcomes' = outcomes THEN "select" ELSE "booking"
  /\ UNCHANGED <<strategyVars, channel, current, applied, booksVars, configVars, breakerVars>>

Book_FailuresNotRecorded ==
  LET outcome == outcomes[applied + 1]
  IN  /\ exec = "booking"
      /\ IF outcome.kind = "Landed"
         THEN /\ pnl' = [pnl EXCEPT !.landed = @ + 1, !.profit = @ + outcome.trade.profit,
                                    !.tips = @ + outcome.trade.tip]
              /\ UNCHANGED failures
              /\ Breaker!RecordTrade(outcome.trade.profit)
         ELSE /\ failures' = failures + 1
              /\ UNCHANGED <<pnl, now, breakerVars>>
      /\ applied' = applied + 1
      /\ exec' = IF applied + 1 = Len(outcomes) THEN "select" ELSE "booking"
      /\ UNCHANGED <<strategyVars, channel, current, configVars, pending, asked, outcomes, tracked, chain>>

Book_FailureCostsTip ==
  LET outcome == outcomes[applied + 1]
      landed  == outcome.kind = "Landed"
  IN  /\ exec = "booking"
      /\ IF landed
         THEN /\ pnl' = [pnl EXCEPT !.landed = @ + 1, !.profit = @ + outcome.trade.profit,
                                    !.tips = @ + outcome.trade.tip]
              /\ UNCHANGED failures
         ELSE failures' = failures + 1 /\ UNCHANGED pnl
      /\ Breaker!RecordTrade(IF landed THEN outcome.trade.profit ELSE -outcome.trade.tip)
      /\ applied' = applied + 1
      /\ exec' = IF applied + 1 = Len(outcomes) THEN "select" ELSE "booking"
      /\ UNCHANGED <<strategyVars, channel, current, configVars, pending, asked, outcomes, tracked, chain>>

\* The loop over the outcomes poll returned: the counters and the breaker take
\* one each.  A failed bundle is recorded as a trade of zero.
Book ==
  LET outcome == outcomes[applied + 1]
      landed  == outcome.kind = "Landed"
  IN  /\ exec = "booking"
      /\ IF landed
         THEN /\ pnl' = [pnl EXCEPT !.landed = @ + 1, !.profit = @ + outcome.trade.profit,
                                    !.tips = @ + outcome.trade.tip]
              /\ UNCHANGED failures
         ELSE failures' = failures + 1 /\ UNCHANGED pnl
      /\ Breaker!RecordTrade(IF landed THEN outcome.trade.profit ELSE 0)
      /\ applied' = applied + 1
      /\ exec' = IF applied + 1 = Len(outcomes) THEN "select" ELSE "booking"
      /\ UNCHANGED <<strategyVars, channel, current, configVars, pending, asked, outcomes, tracked, chain>>

\* The channel goes with the task, and what was queued in it.
StopExecutor ==
  /\ exec = "select"
  /\ shutdown
  /\ exec' = "stopped"
  /\ channel' = <<>>
  /\ UNCHANGED <<strategyVars, current, applied, booksVars, configVars, trackerVars, breakerVars>>

------------------------------------------------------------------------------
(* The surroundings *)

\* ctrl_c: main sends the shutdown signal.
Shutdown ==
  /\ ~shutdown
  /\ shutdown' = TRUE
  /\ UNCHANGED <<strategyVars, channel, executorVars, booksVars, feed, dry_run, trackerVars, breakerVars>>

\* The data feed task ends, with the stream or on shutdown, and drops update_tx.
FeedEnds ==
  /\ feed
  /\ feed' = FALSE
  /\ UNCHANGED <<strategyVars, channel, executorVars, booksVars, dry_run, shutdown, trackerVars, breakerVars>>

ChainProgress ==
  /\ \E id \in Ids : Tracker!Progress(id)
  /\ UNCHANGED <<strategyVars, channel, executorVars, booksVars, configVars, breakerVars>>

Tick ==
  /\ Tracker!Tick
  /\ UNCHANGED <<strategyVars, channel, executorVars, booksVars, configVars, breakerVars>>

Strategy(s) == Receive(s) \/ Consider(s) \/ Send(s) \/ SendFails(s) \/ StopStrategy(s)

Submitted == (\E id \in Ids \cup {NoId} : SubmitOk(id)) \/ SubmitFails \/ SubmitDryRun

Executor ==
  \/ Abandon \/ TakeOpportunity \/ Submitted
  \/ Poll \/ PollFails \/ PollReturns \/ Book
  \/ StopExecutor

Next ==
  \/ \E s \in Strategies : Strategy(s)
  \/ Executor
  \/ Shutdown \/ FeedEnds \/ ChainProgress \/ Tick

Spec == Init /\ [][Next]_vars

\* select! polls its branches in random order, so a branch that is ready again
\* and again is taken in the end: strong fairness.  Every other await ends
\* (requests are answered or fail), and a running task goes on.
Fairness ==
  /\ \A s \in Strategies :
       /\ WF_vars(Consider(s)) /\ SF_vars(Send(s)) /\ WF_vars(SendFails(s))
       /\ SF_vars(StopStrategy(s))
  /\ SF_vars(TakeOpportunity \/ Abandon)
  /\ SF_vars(StopExecutor)
  /\ WF_vars(Submitted) /\ WF_vars(PollFails \/ PollReturns) /\ WF_vars(Book)

FairSpec == Spec /\ Fairness

------------------------------------------------------------------------------
(* Properties *)

\* The bot's own variables keep their types, and so do those of the tracker.
TypeOK ==
  /\ phase \in [Strategies -> {"select", "batch", "sending", "stopped"}]
  /\ \A s \in Strategies : batch[s] \in Finds(s) /\ (batch[s] = <<>> <=> phase[s] \notin {"batch", "sending"})
  /\ updates \in [Strategies -> 0..MaxUpdates]
  /\ Len(channel) <= ChannelCap
  /\ exec \in {"select", "submitting", "polling", "booking", "stopped"}
  /\ exec = "polling" <=> asked # Tracker!NotAsked
  /\ exec = "submitting" <=> current # None
  /\ applied \in 0..Len(outcomes)
  /\ Tracker!TypeOK

\* Whatever reaches the executor, from either strategy task, has passed the
\* blacklist and both risk limits, and the tip of every submitted bundle leaves
\* its expected profit non-negative and respects max_tip_lamports.
OnlyVettedTraded ==
  /\ \A opp \in {channel[i] : i \in 1..Len(channel)} \cup ({current} \ {None}) :
       ~opp.blacklisted /\ opp.profit >= MinProfit /\ opp.amount_in <= MaxPosition
  /\ \A i \in 1..Len(pending) :
       pending[i].trade.tip <= MaxTip /\ pending[i].trade.tip <= pending[i].trade.profit

\* The counters a dashboard shows add up: every bundle counted as submitted is
\* being submitted, was counted as landed or failed, or is still to be booked
\* (pending, returned by poll, or evicted).  A dry run counts bundles as
\* submitted and never as anything else.
CountersBalance ==
  IF dry_run THEN pnl.landed + failures + tracked = 0
  ELSE pnl.submitted = pnl.landed + failures + (tracked - applied)
                         + (IF exec = "submitting" THEN 1 ELSE 0)

\* The breaker is told every outcome once, in order, with the profit the P&L
\* counter books for it; outside the booking loop neither is behind the tracker.
BreakerFollowsBooks ==
  /\ Len(history) = applied
  /\ \A i \in 1..applied :
       history[i].pnl = IF outcomes[i].kind = "Landed" THEN outcomes[i].trade.profit ELSE 0
  /\ pnl.profit = SumSeq([i \in 1..applied |-> history[i].pnl])
  /\ exec # "booking" => applied = Len(outcomes)

\* The breaker of the running bot never trips: it is told expected profits of
\* vetted opportunities and zeros, never a loss.
NeverTrips == ~tripped /\ \A i \in 1..Len(history) : history[i].pnl >= 0

\* A strategy waiting for room in the channel does not wait for ever, whether
\* the executor goes on or stops.
SendersResume == \A s \in Strategies : phase[s] = "sending" ~> phase[s] # "sending"

\* After ctrl_c every task leaves its loop, whatever it was waiting for.
ShutdownStopsTasks ==
  shutdown ~> exec = "stopped" /\ \A s \in Strategies : phase[s] = "stopped"

\* What a landed bundle did to the wallet: its transaction holds the tip
\* transfer and the swap instructions of the path, and both strategies leave
\* those empty.
WalletChange(outcome) == IF outcome.kind = "Landed" THEN -outcome.trade.tip ELSE 0

\* What the README promises ("Auto-pause all strategies if rolling loss exceeds
\* threshold"): once the wallet has lost more than max_loss within the window,
\* and every loss is booked, trading is not allowed.
PausedAfterLoss ==
  SumSeq([i \in 1..applied |-> IF now - history[i].at <= Window
                               THEN WalletChange(outcomes[i]) ELSE 0]) < -MaxLoss
    => ~Breaker!is_allowed
==============================================================================
