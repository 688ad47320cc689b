----------------------------- MODULE MevBotProofs -----------------------------
(***************************************************************************)
(* Proofs about MevBot.  Its steps are steps of the tracker and of the     *)
(* breaker, or leave them alone, so what is proved of the two holds of the *)
(* bot; the rest is an invariant of the bot's own variables.               *)
(***************************************************************************)
EXTENDS MevBot, SeqFoldsProofs

TrackerProofs == INSTANCE BundleTrackerProofs WITH
                   Trades <- {TradeOf(opp) : opp \in Opportunities},
                   MaxTracked <- MaxBundles

BreakerProofs == INSTANCE CircuitBreakerProofs WITH
                   Results <- {opp.profit : opp \in Opportunities} \cup {0},
                   MaxTrades <- MaxBundles

\* The bot's `track` is the tracker's, whichever instance names it.
LEMMA SameTrack ==
  ASSUME NEW id, NEW trade, Tracker!Track(id, trade)
  PROVE  TrackerProofs!Track(id, trade)
BY DEF Tracker!Track, TrackerProofs!Track, Tracker!MakeRoom, TrackerProofs!MakeRoom,
       Tracker!Accepted, TrackerProofs!Accepted, Tracker!NotAsked, TrackerProofs!NotAsked

\* The bot's answered poll is the tracker's.
LEMMA SamePollReply ==
  ASSUME NEW listed, Tracker!PollReply(listed)
  PROVE  TrackerProofs!PollReply(listed)
BY DEF Tracker!PollReply, TrackerProofs!PollReply, Tracker!StillPending, TrackerProofs!StillPending,
       Tracker!Settled, TrackerProofs!Settled, Tracker!Unsettled, TrackerProofs!Unsettled,
       Tracker!Outcome, TrackerProofs!Outcome, Tracker!TimedOut, TrackerProofs!TimedOut,
       Tracker!StatusOf, TrackerProofs!StatusOf, Tracker!NotAsked, TrackerProofs!NotAsked,
       Tracker!Retain, TrackerProofs!Retain, Tracker!PrefixRetains, TrackerProofs!PrefixRetains

\* The bot's `record_trade` is the breaker's.
LEMMA SameRecordTrade ==
  ASSUME NEW p, Breaker!RecordTrade(p)
  PROVE  BreakerProofs!RecordTrade(p)
BY DEF Breaker!RecordTrade, BreakerProofs!RecordTrade, Breaker!Evict, BreakerProofs!Evict,
       Breaker!Fresh, BreakerProofs!Fresh, Breaker!SumSeq, BreakerProofs!SumSeq,
       Breaker!PrefixSums, BreakerProofs!PrefixSums

------------------------------------------------------------------------------
(* The parts of the invariant *)

Passed == {opp \in Opportunities : Approved(opp)}
Found(s) == {opp \in Opportunities : opp.strategy = s}

\* The strategy tasks: a batch is dealt with from its head, and the head of a
\* batch that waits in send has been approved.
StrategyInv ==
  /\ phase \in [Strategies -> {"select", "batch", "sending", "stopped"}]
  /\ batch \in [Strategies -> Seq(Opportunities)]
  /\ updates \in [Strategies -> 0..MaxUpdates]
  /\ \A s \in Strategies :
       /\ batch[s] \in Finds(s)
       /\ batch[s] = <<>> <=> phase[s] \notin {"batch", "sending"}
       /\ phase[s] = "sending" => batch[s][1] \in Passed

\* What is queued and what is being submitted has been approved.
QueueInv ==
  /\ channel \in Seq(Passed)
  /\ Len(channel) <= ChannelCap
  /\ exec \in {"select", "submitting", "polling", "booking", "stopped"}
  /\ IF exec = "submitting" THEN current \in Passed ELSE current = None

\* The tracker holds approved trades only, and the executor's place agrees with
\* the tracker's.
TrackerInv ==
  /\ TrackerProofs!IInv
  /\ exec = "polling" <=> asked # Tracker!NotAsked
  /\ \A i \in 1..Len(pending) : \E opp \in Passed : pending[i].trade = TradeOf(opp)
  /\ \A i \in 1..Len(outcomes) : \E opp \in Passed : outcomes[i].trade = TradeOf(opp)

\* The counters and the breaker keep up with the outcomes.
Books ==
  /\ pnl \in [opportunities : Nat, submitted : Nat, landed : Nat, profit : Int, tips : Int]
  /\ failures \in Nat
  /\ applied \in 0..Len(outcomes)
  /\ exec = "booking" <=> applied < Len(outcomes)
  /\ dry_run \in BOOLEAN
  /\ CountersBalance
  /\ BreakerFollowsBooks

BooksInv == BreakerProofs!IInv /\ Books

IInv == StrategyInv /\ QueueInv /\ TrackerInv /\ BooksInv

\* The assumptions of the components hold.
LEMMA ComponentAssumptions ==
  /\ TrackerProofs!TrackerAssumption
  /\ BreakerProofs!BreakerAssumption
<1>1. TrackerProofs!TrackerAssumption
  BY BotAssumption DEF TrackerProofs!TrackerAssumption
<1>2. BreakerProofs!BreakerAssumption
  <2>1. {opp.profit : opp \in Opportunities} \cup {0} \subseteq Int
    BY BotAssumption
  <2> QED BY <2>1, BotAssumption DEF BreakerProofs!BreakerAssumption
<1> QED BY <1>1, <1>2

------------------------------------------------------------------------------
(* The components *)

\* What an opportunity that passed the limits is known to satisfy.
LEMMA PassedFields ==
  ASSUME NEW opp \in Passed
  PROVE  /\ opp \in Opportunities /\ opp # None
         /\ opp.profit \in Int /\ opp.amount_in \in Nat
         /\ opp.profit >= MinProfit /\ opp.amount_in <= MaxPosition
         /\ ~opp.blacklisted
         /\ TradeOf(opp) \in {TradeOf(o) : o \in Opportunities}
         /\ opp.profit \in {o.profit : o \in Opportunities} \cup {0}
<1>1. opp \in Opportunities /\ Approved(opp)
  BY DEF Passed
<1>2. opp.profit \in Int /\ opp.amount_in \in Nat /\ opp # None
  BY <1>1, BotAssumption
<1>3. opp.profit >= MinProfit /\ opp.amount_in <= MaxPosition
  BY <1>1, Zenon DEF Approved, check
<1>4. ~opp.blacklisted
  BY <1>1, Zenon DEF Approved
<1>5. TradeOf(opp) \in {TradeOf(o) : o \in Opportunities}
  BY <1>1
<1>6. opp.profit \in {o.profit : o \in Opportunities} \cup {0}
  BY <1>1
<1> QED BY <1>1, <1>2, <1>3, <1>4, <1>5, <1>6

\* The breaker's result for an outcome.
Booked(o) == IF o.kind = "Landed" THEN o.trade.profit ELSE 0

\* What is booked of an outcome is a profit of some opportunity, or zero.
LEMMA BookedIsResult ==
  ASSUME TrackerInv, NEW i \in 1..Len(outcomes)
  PROVE  /\ Booked(outcomes[i]) \in {o.profit : o \in Opportunities} \cup {0}
         /\ Booked(outcomes[i]) \in Int
         /\ outcomes[i].trade.profit \in Int
<1>1. PICK opp \in Passed : outcomes[i].trade = TradeOf(opp)
  BY DEF TrackerInv
<1>2. TradeOf(opp).profit = opp.profit
  BY DEF TradeOf
<1>3. /\ opp.profit \in {o.profit : o \in Opportunities} \cup {0}
      /\ opp.profit \in Int
  BY PassedFields
<1> QED BY <1>1, <1>2, <1>3 DEF Booked

\* A step of the bot is a step of the tracker or leaves it alone.
LEMMA TrackerStep ==
  ASSUME QueueInv, [Next]_vars
  PROVE  [TrackerProofs!Next]_(TrackerProofs!vars)
<1>1. ASSUME NEW id \in Ids \cup {NoId}, SubmitOk(id) PROVE TrackerProofs!Next
  <2>1. current \in Passed /\ Tracker!Track(id, TradeOf(current))
    BY <1>1 DEF SubmitOk, QueueInv
  <2>2. TrackerProofs!Track(id, TradeOf(current))
    BY <2>1, SameTrack
  <2>3. TradeOf(current) \in {TradeOf(opp) : opp \in Opportunities}
    BY <2>1, PassedFields
  <2> QED BY <2>2, <2>3 DEF TrackerProofs!Next
<1>2. CASE Poll
  BY <1>2 DEF Poll, Tracker!StartPoll, TrackerProofs!StartPoll, TrackerProofs!Next,
              Tracker!NotAsked, TrackerProofs!NotAsked
<1>3. CASE PollFails
  BY <1>3 DEF PollFails, Tracker!PollError, TrackerProofs!PollError, TrackerProofs!Next,
              Tracker!NotAsked, TrackerProofs!NotAsked
<1>4. CASE PollReturns
  <2>1. PICK listed \in SUBSET Ids : Tracker!PollReply(listed)
    BY <1>4 DEF PollReturns
  <2>2. TrackerProofs!PollReply(listed)
    BY <2>1, SamePollReply
  <2> QED BY <2>2 DEF TrackerProofs!Next
<1>5. CASE ChainProgress
  <2>1. PICK id \in Ids : Tracker!Progress(id)
    BY <1>5 DEF ChainProgress
  <2>2. TrackerProofs!Progress(id)
    BY <2>1 DEF Tracker!Progress, TrackerProofs!Progress
  <2> QED BY <2>2 DEF TrackerProofs!Next
<1>6. CASE Tick
  BY <1>6 DEF Tick, Tracker!Tick, TrackerProofs!Tick, TrackerProofs!Next,
              Tracker!trackerVars, TrackerProofs!trackerVars
<1>7. CASE UNCHANGED trackerVars
  BY <1>7 DEF trackerVars, TrackerProofs!vars, TrackerProofs!trackerVars
<1>8. ASSUME NEW s \in Strategies, Strategy(s) PROVE UNCHANGED trackerVars
  BY <1>8 DEF Strategy, Receive, Consider, Send, SendFails, StopStrategy
<1>9. CASE Book
  BY <1>7, <1>9 DEF Book, Breaker!RecordTrade, trackerVars
<1>10. CASE Abandon \/ TakeOpportunity \/ SubmitFails \/ SubmitDryRun \/ StopExecutor
  BY <1>7, <1>10 DEF Abandon, TakeOpportunity, SubmitFails, SubmitDryRun, StopExecutor
<1>11. CASE Shutdown \/ FeedEnds
  BY <1>7, <1>11 DEF Shutdown, FeedEnds
<1>12. CASE UNCHANGED vars
  BY <1>7, <1>12 DEF vars
<1> QED
  BY <1>1, <1>2, <1>3, <1>4, <1>5, <1>6, <1>7, <1>8, <1>9, <1>10, <1>11, <1>12
  DEF Next, Executor, Submitted

\* A step of the bot is a step of the breaker or leaves it alone.
LEMMA BreakerStep ==
  ASSUME TrackerInv, BooksInv, [Next]_vars
  PROVE  [BreakerProofs!Next]_(BreakerProofs!vars)
<1>1. CASE Book
  <2>1. applied + 1 \in 1..Len(outcomes)
    <3>1. Len(outcomes) \in Nat
      BY TrackerProofs!Elements, ComponentAssumptions DEF TrackerInv, TrackerProofs!IInv
    <3> QED BY <1>1, <3>1 DEF Book, BooksInv, Books
  <2>2. Breaker!RecordTrade(Booked(outcomes[applied + 1]))
    BY <1>1 DEF Book, Booked
  <2>3. BreakerProofs!RecordTrade(Booked(outcomes[applied + 1]))
    BY <2>2, SameRecordTrade
  <2> QED BY <2>1, <2>3, BookedIsResult DEF BreakerProofs!Next
<1>2. CASE Tick
  BY <1>2 DEF Tick, Tracker!Tick, BreakerProofs!Tick, BreakerProofs!Next,
              breakerVars, BreakerProofs!breakerVars
<1>3. CASE UNCHANGED <<now, breakerVars>>
  BY <1>3 DEF breakerVars, BreakerProofs!vars, BreakerProofs!breakerVars
<1>4. ASSUME NEW s \in Strategies, Strategy(s) PROVE UNCHANGED <<now, breakerVars>>
  BY <1>4 DEF Strategy, Receive, Consider, Send, SendFails, StopStrategy, trackerVars
<1>5. ASSUME NEW id \in Ids \cup {NoId}, SubmitOk(id) PROVE UNCHANGED <<now, breakerVars>>
  BY <1>5 DEF SubmitOk, Tracker!Track
<1>6. CASE Poll \/ PollFails
  BY <1>3, <1>6 DEF Poll, PollFails, Tracker!StartPoll, Tracker!PollError
<1>7. CASE PollReturns
  BY <1>3, <1>7 DEF PollReturns, Tracker!PollReply
<1>8. CASE ChainProgress
  BY <1>3, <1>8 DEF ChainProgress, Tracker!Progress
<1>9. CASE Abandon \/ TakeOpportunity \/ SubmitFails \/ SubmitDryRun \/ StopExecutor
  BY <1>3, <1>9 DEF Abandon, TakeOpportunity, SubmitFails, SubmitDryRun, StopExecutor, trackerVars
<1>10. CASE Shutdown \/ FeedEnds
  BY <1>3, <1>10 DEF Shutdown, FeedEnds, trackerVars
<1>11. CASE UNCHANGED vars
  BY <1>3, <1>11 DEF vars, trackerVars
<1> QED
  BY <1>1, <1>2, <1>3, <1>4, <1>5, <1>6, <1>7, <1>8, <1>9, <1>10, <1>11
  DEF Next, Executor, Submitted

------------------------------------------------------------------------------
(* The strategy tasks *)

\* What one update may yield: a sequence of opportunities, of bounded length.
LEMMA FindsIsBounded ==
  ASSUME NEW s \in Strategies, NEW b
  PROVE  b \in Finds(s) <=> b \in Seq(Found(s)) /\ Len(b) <= MaxBatch[s]
<1>0. MaxBatch[s] \in Nat
  BY BotAssumption
<1>1. b \in Finds(s) <=> \E n \in 0..MaxBatch[s] : b \in [1..n -> Found(s)]
  BY DEF Finds, Found
<1>2. ASSUME NEW n \in 0..MaxBatch[s], b \in [1..n -> Found(s)]
      PROVE  b \in Seq(Found(s)) /\ Len(b) <= MaxBatch[s]
  <2>1. n \in Nat /\ n <= MaxBatch[s]
    BY <1>0
  <2>2. b \in Seq(Found(s)) /\ Len(b) = n
    BY <1>2, <2>1
  <2> QED BY <2>1, <2>2
<1>3. ASSUME b \in Seq(Found(s)), Len(b) <= MaxBatch[s]
      PROVE  \E n \in 0..MaxBatch[s] : b \in [1..n -> Found(s)]
  <2>1. Len(b) \in Nat /\ b \in [1..Len(b) -> Found(s)]
    BY <1>3, LenProperties
  <2>2. Len(b) \in 0..MaxBatch[s]
    BY <1>0, <1>3, <2>1
  <2> WITNESS Len(b) \in 0..MaxBatch[s]
  <2> QED BY <2>1
<1> QED BY <1>1, <1>2, <1>3

\* The head and the tail of a batch of opportunities.
LEMMA BatchElements ==
  ASSUME NEW s \in Strategies, NEW b \in Finds(s), b # <<>>
  PROVE  /\ Len(b) \in Nat \ {0}
         /\ Head(b) = b[1] /\ b[1] \in Opportunities
         /\ Tail(b) \in Finds(s)
         /\ Tail(b) \in Seq(Opportunities)
         /\ Tail(b) = <<>> <=> Len(b) = 1
<1>1. b \in Seq(Found(s)) /\ Len(b) <= MaxBatch[s] /\ MaxBatch[s] \in Nat
  BY FindsIsBounded, BotAssumption
<1>2. Len(b) \in Nat \ {0} /\ Head(b) = b[1] /\ b[1] \in Found(s)
  <2>1. Len(b) \in Nat \ {0}
    BY <1>1, EmptySeq
  <2> QED BY <1>1, <2>1, ElementOfSeq
<1>3. Tail(b) \in Seq(Found(s)) /\ Len(Tail(b)) = Len(b) - 1
  BY <1>1, HeadTailProperties
<1>4. Found(s) \subseteq Opportunities
  BY DEF Found
<1>5. Tail(b) \in Seq(Opportunities)
  BY <1>3, <1>4, SeqMonotonic
<1>6. Tail(b) \in Finds(s)
  <2>1. Len(Tail(b)) <= MaxBatch[s]
    BY <1>1, <1>2, <1>3
  <2> QED BY <1>3, <2>1, FindsIsBounded
<1>7. Tail(b) = <<>> <=> Len(b) = 1
  BY <1>2, <1>3, EmptySeq
<1> QED BY <1>2, <1>4, <1>5, <1>6, <1>7

\* The loop goes on with the rest of the batch, or the task is back in select.
LEMMA NextInBatchStep ==
  ASSUME StrategyInv, NEW s \in Strategies, phase[s] \in {"batch", "sending"},
         NextInBatch(s), UNCHANGED updates
  PROVE  StrategyInv'
<1>1. batch[s] \in Finds(s) /\ batch[s] # <<>>
  BY DEF StrategyInv
<1>2. /\ Tail(batch[s]) \in Finds(s) /\ Tail(batch[s]) \in Seq(Opportunities)
      /\ Tail(batch[s]) = <<>> <=> Len(batch[s]) = 1
  BY <1>1, BatchElements
<1> DEFINE next == IF Len(batch[s]) = 1 THEN "select" ELSE "batch"
<1>3. /\ batch' = [batch EXCEPT ![s] = Tail(batch[s])]
      /\ phase' = [phase EXCEPT ![s] = next]
      /\ next \in {"select", "batch"} /\ (next = "select" <=> Tail(batch[s]) = <<>>)
  BY <1>2 DEF NextInBatch
<1> HIDE DEF next
<1>4. /\ phase' \in [Strategies -> {"select", "batch", "sending", "stopped"}]
      /\ batch' \in [Strategies -> Seq(Opportunities)]
      /\ updates' \in [Strategies -> 0..MaxUpdates]
  BY <1>2, <1>3 DEF StrategyInv
<1>5. ASSUME NEW r \in Strategies
      PROVE  /\ batch'[r] \in Finds(r)
             /\ batch'[r] = <<>> <=> phase'[r] \notin {"batch", "sending"}
             /\ phase'[r] = "sending" => batch'[r][1] \in Passed
  <2>1. CASE r = s
    <3>1. batch'[r] = Tail(batch[s]) /\ phase'[r] = next
      BY <1>3, <2>1 DEF StrategyInv
    <3> QED BY <1>2, <1>3, <2>1, <3>1
  <2>2. CASE r # s
    <3>1. batch'[r] = batch[r] /\ phase'[r] = phase[r]
      BY <1>3, <2>2 DEF StrategyInv
    <3> QED BY <3>1 DEF StrategyInv
  <2> QED BY <2>1, <2>2
<1> QED BY <1>4, <1>5 DEF StrategyInv, Finds, Passed

\* A step of a strategy keeps what its batch promises.
LEMMA StrategySteps ==
  ASSUME StrategyInv, NEW s \in Strategies, Strategy(s)
  PROVE  StrategyInv'
<1>0. /\ phase \in [Strategies -> {"select", "batch", "sending", "stopped"}]
      /\ batch \in [Strategies -> Seq(Opportunities)]
      /\ updates \in [Strategies -> 0..MaxUpdates]
      /\ \A r \in Strategies :
           /\ batch[r] \in Finds(r)
           /\ batch[r] = <<>> <=> phase[r] \notin {"batch", "sending"}
           /\ phase[r] = "sending" => batch[r][1] \in Passed
  BY DEF StrategyInv
<1>1. CASE Receive(s)
  <2>1. PICK found \in Finds(s) :
          /\ batch' = [batch EXCEPT ![s] = found]
          /\ phase' = [phase EXCEPT ![s] = IF found = <<>> THEN "select" ELSE "batch"]
    BY <1>1 DEF Receive
  <2>2. found \in Seq(Opportunities)
    <3>1. found \in Seq(Found(s)) /\ Found(s) \subseteq Opportunities
      BY FindsIsBounded DEF Found
    <3> QED BY <3>1, SeqMonotonic
  <2>3. updates' \in [Strategies -> 0..MaxUpdates]
    BY <1>0, <1>1, BotAssumption DEF Receive
  <2>4. ASSUME NEW r \in Strategies
        PROVE  /\ batch'[r] \in Finds(r)
               /\ batch'[r] = <<>> <=> phase'[r] \notin {"batch", "sending"}
               /\ phase'[r] = "sending" => batch'[r][1] \in Passed
    <3>1. CASE r = s
      BY <1>0, <2>1, <3>1
    <3>2. CASE r # s
      BY <1>0, <2>1, <3>2
    <3> QED BY <3>1, <3>2
  <2> QED BY <1>0, <2>1, <2>2, <2>3, <2>4 DEF StrategyInv, Finds, Passed
<1>2. CASE Consider(s)
  <2>1. phase[s] = "batch" /\ UNCHANGED updates
    BY <1>2 DEF Consider
  <2>2. CASE Approved(Head(batch[s]))
    <3>1. phase' = [phase EXCEPT ![s] = "sending"] /\ batch' = batch
      BY <1>2, <2>2 DEF Consider
    <3>2. batch[s] \in Finds(s) /\ batch[s] # <<>>
      BY <1>0, <2>1
    <3>3. batch[s][1] \in Passed
      BY <2>2, <3>2, BatchElements DEF Passed
    <3>4. ASSUME NEW r \in Strategies
          PROVE  /\ batch'[r] \in Finds(r)
                 /\ batch'[r] = <<>> <=> phase'[r] \notin {"batch", "sending"}
                 /\ phase'[r] = "sending" => batch'[r][1] \in Passed
      BY <1>0, <3>1, <3>2, <3>3
    <3> QED BY <1>0, <2>1, <3>1, <3>4 DEF StrategyInv, Finds, Passed
  <2>3. CASE ~Approved(Head(batch[s]))
    <3>1. NextInBatch(s)
      BY <1>2, <2>3 DEF Consider
    <3> QED BY <2>1, <3>1, NextInBatchStep
  <2> QED BY <2>2, <2>3
<1>3. CASE Send(s) \/ SendFails(s)
  <2>1. phase[s] = "sending" /\ NextInBatch(s) /\ UNCHANGED updates
    BY <1>3 DEF Send, SendFails
  <2> QED BY <2>1, NextInBatchStep
<1>4. CASE StopStrategy(s)
  <2>1. /\ phase[s] = "select"
        /\ phase' = [phase EXCEPT ![s] = "stopped"]
        /\ UNCHANGED <<batch, updates>>
    BY <1>4 DEF StopStrategy
  <2>2. ASSUME NEW r \in Strategies
        PROVE  /\ batch'[r] \in Finds(r)
               /\ batch'[r] = <<>> <=> phase'[r] \notin {"batch", "sending"}
               /\ phase'[r] = "sending" => batch'[r][1] \in Passed
    BY <1>0, <2>1
  <2> QED BY <1>0, <2>1, <2>2 DEF StrategyInv, Finds, Passed
<1> QED BY <1>1, <1>2, <1>3, <1>4 DEF Strategy

\* Every step keeps what the batches promise.
LEMMA StrategyPart ==
  ASSUME StrategyInv, [Next]_vars
  PROVE  StrategyInv'
<1>1. ASSUME NEW s \in Strategies, Strategy(s) PROVE StrategyInv'
  BY <1>1, StrategySteps
<1>2. CASE UNCHANGED strategyVars
  BY <1>2 DEF strategyVars, StrategyInv, Finds, Passed
<1>3. ASSUME NEW id \in Ids \cup {NoId}, SubmitOk(id) PROVE UNCHANGED strategyVars
  BY <1>3 DEF SubmitOk
<1>4. CASE Abandon \/ TakeOpportunity \/ SubmitFails \/ SubmitDryRun \/ Poll \/ PollFails
           \/ PollReturns \/ Book \/ StopExecutor
  BY <1>2, <1>4 DEF Abandon, TakeOpportunity, SubmitFails, SubmitDryRun, Poll, PollFails,
                    PollReturns, Book, StopExecutor
<1>5. CASE Shutdown \/ FeedEnds \/ ChainProgress \/ Tick \/ UNCHANGED vars
  BY <1>2, <1>5 DEF Shutdown, FeedEnds, ChainProgress, Tick, vars
<1> QED BY <1>1, <1>2, <1>3, <1>4, <1>5 DEF Next, Executor, Submitted

------------------------------------------------------------------------------
(* The channel and the executor's opportunity *)

\* Every step keeps the channel, and the opportunity taken from it, approved.
LEMMA QueuePart ==
  ASSUME StrategyInv, QueueInv, [Next]_vars
  PROVE  QueueInv'
<1>0. /\ channel \in Seq(Passed) /\ Len(channel) <= ChannelCap /\ Len(channel) \in Nat
      /\ ChannelCap \in Nat
      /\ exec \in {"select", "submitting", "polling", "booking", "stopped"}
      /\ IF exec = "submitting" THEN current \in Passed ELSE current = None
  BY LenProperties, BotAssumption DEF QueueInv
<1>1. ASSUME NEW s \in Strategies, Send(s) PROVE QueueInv'
  <2>1. /\ phase[s] = "sending" /\ batch[s] \in Finds(s) /\ batch[s] # <<>>
        /\ batch[s][1] \in Passed
    BY <1>1 DEF Send, StrategyInv
  <2>2. Head(batch[s]) \in Passed
    BY <2>1, BatchElements
  <2>3. /\ channel' = Append(channel, Head(batch[s])) /\ Len(channel) < ChannelCap
        /\ exec' = exec /\ current' = current
    BY <1>1 DEF Send, executorVars
  <2>4. channel' \in Seq(Passed) /\ Len(channel') = Len(channel) + 1
    BY <1>0, <2>2, <2>3, AppendProperties
  <2> QED BY <1>0, <2>3, <2>4 DEF QueueInv, Passed
<1>2. CASE channel # <<>> /\ channel' = Tail(channel)
           /\ \/ exec' = exec /\ current' = current
              \/ exec' = "submitting" /\ current' = Head(channel)
  <2>1. /\ Head(channel) \in Passed /\ Tail(channel) \in Seq(Passed)
        /\ Len(Tail(channel)) = Len(channel) - 1
    BY <1>0, <1>2, HeadTailProperties
  <2>2. Len(channel') <= ChannelCap
    BY <1>0, <1>2, <2>1
  <2> QED BY <1>0, <1>2, <2>1, <2>2 DEF QueueInv, Passed
<1>3. CASE Abandon \/ TakeOpportunity
  BY <1>2, <1>3 DEF Abandon, TakeOpportunity, executorVars
<1>4. CASE channel' = channel /\ exec' = exec /\ current' = current
  BY <1>0, <1>4 DEF QueueInv, Passed
<1>5. CASE channel' = channel /\ exec' = "select" /\ current' = None
  BY <1>0, <1>5 DEF QueueInv, Passed
<1>6. ASSUME NEW id \in Ids \cup {NoId}, SubmitOk(id) PROVE QueueInv'
  BY <1>5, <1>6 DEF SubmitOk
<1>7. CASE SubmitFails \/ SubmitDryRun
  BY <1>5, <1>7 DEF SubmitFails, SubmitDryRun
<1>8. CASE /\ channel' = channel /\ current' = current /\ exec # "submitting"
           /\ exec' \in {"select", "polling", "booking"}
  BY <1>0, <1>8 DEF QueueInv, Passed
<1>9. CASE Poll \/ PollFails \/ PollReturns \/ Book
  <2>1. /\ channel' = channel /\ current' = current
        /\ exec \in {"select", "polling", "booking"}
        /\ exec' \in {"select", "polling", "booking"}
    BY <1>9 DEF Poll, PollFails, PollReturns, Book
  <2> QED BY <1>8, <2>1
<1>10. CASE StopExecutor
  <2>1. channel' = <<>> /\ exec' = "stopped" /\ current' = None
    BY <1>0, <1>10 DEF StopExecutor
  <2>2. channel' \in Seq(Passed) /\ Len(channel') = 0
    BY <2>1, EmptySeq
  <2> QED BY <1>0, <2>1, <2>2 DEF QueueInv, Passed
<1>11. ASSUME NEW s \in Strategies, Strategy(s), ~Send(s) PROVE QueueInv'
  BY <1>4, <1>11 DEF Strategy, Receive, Consider, SendFails, StopStrategy, executorVars
<1>12. CASE Shutdown \/ FeedEnds \/ ChainProgress \/ Tick \/ UNCHANGED vars
  BY <1>4, <1>12 DEF Shutdown, FeedEnds, ChainProgress, Tick, executorVars, vars
<1> QED
  BY <1>1, <1>3, <1>6, <1>7, <1>9, <1>10, <1>11, <1>12 DEF Next, Executor, Submitted

------------------------------------------------------------------------------
(* The tracker's trades *)

AllPassed(s) == \A i \in 1..Len(s) : \E opp \in Passed : s[i].trade = TradeOf(opp)

\* The bundle submitted was built from an approved opportunity.
LEMMA TrackTrades ==
  ASSUME QueueInv, TrackerInv, NEW id \in Ids \cup {NoId}, SubmitOk(id)
  PROVE  AllPassed(pending')
<1>1. current \in Passed /\ Tracker!Track(id, TradeOf(current))
  BY DEF SubmitOk, QueueInv
<1>2. TrackerProofs!Track(id, TradeOf(current))
  BY <1>1, SameTrack
<1>3. TradeOf(current) \in {TradeOf(opp) : opp \in Opportunities}
  BY <1>1, PassedFields
<1>4. TrackerProofs!TypeOK /\ Len(pending) \in Nat
  BY ComponentAssumptions, TrackerProofs!Elements DEF TrackerInv, TrackerProofs!IInv
<1>5. PICK d \in {0, 1} :
        /\ Len(pending') = (Len(pending) - d) + 1
        /\ \A i \in 1..(Len(pending) - d) : pending'[i] = pending[i + d]
        /\ pending'[Len(pending')]
             = [n |-> tracked + 1, id |-> id, trade |-> TradeOf(current), at |-> now]
        /\ d = 1 <=> Len(pending) >= MaxPending
  BY <1>2, <1>3, <1>4, ComponentAssumptions, TrackerProofs!TrackStep
<1>6. ASSUME NEW i \in 1..Len(pending') PROVE \E opp \in Passed : pending'[i].trade = TradeOf(opp)
  <2>1. CASE i = Len(pending')
    <3>1. pending'[i].trade = TradeOf(current)
      BY <1>5, <2>1
    <3> QED BY <1>1, <3>1
  <2>2. CASE i # Len(pending')
    <3>1. i \in 1..(Len(pending) - d) /\ i + d \in 1..Len(pending)
      BY <1>4, <1>5, <2>2
    <3> QED BY <1>5, <3>1 DEF TrackerInv
  <2> QED BY <2>1, <2>2
<1> QED BY <1>6 DEF AllPassed

\* What stays pending was pending, and so was what gets an outcome.
LEMMA PollTrades ==
  ASSUME TrackerInv, NEW listed \in SUBSET Ids, Tracker!PollReply(listed)
  PROVE  /\ AllPassed(pending') /\ AllPassed(outcomes')
         /\ Len(outcomes) \in Nat /\ Len(outcomes') \in Nat
         /\ Len(outcomes) <= Len(outcomes')
         /\ \A i \in 1..Len(outcomes) : outcomes'[i] = outcomes[i]
         /\ outcomes' # outcomes => Len(outcomes) < Len(outcomes')
<1>1. TrackerProofs!PollReply(listed)
  BY SamePollReply
<1>2. TrackerProofs!TypeOK
  BY DEF TrackerInv, TrackerProofs!IInv
<1>3. PICK done, e, f :
        /\ TrackerProofs!Splits(pending, pending', done, e, f)
        /\ outcomes' \in Seq(TrackerProofs!Outcomes)
        /\ Len(outcomes) \in Nat
        /\ Len(outcomes') = Len(outcomes) + Len(done)
        /\ \A i \in 1..Len(outcomes) : outcomes'[i] = outcomes[i]
        /\ \A i \in 1..Len(done) :
             outcomes'[Len(outcomes) + i] = TrackerProofs!Outcome(done[i], listed)
  BY <1>1, <1>2, ComponentAssumptions, TrackerProofs!PollStep
<1>4. /\ Len(pending) \in Nat /\ Len(pending') \in Nat /\ Len(done) \in Nat
      /\ \A i \in 1..Len(pending') : e[i] \in 1..Len(pending) /\ pending'[i] = pending[e[i]]
      /\ \A i \in 1..Len(done) : f[i] \in 1..Len(pending) /\ done[i] = pending[f[i]]
  BY <1>3 DEF TrackerProofs!Splits
<1>5. AllPassed(pending) /\ AllPassed(outcomes)
  BY DEF TrackerInv, AllPassed
<1>6. AllPassed(pending')
  BY <1>4, <1>5, SMTT(20) DEF AllPassed
<1>7. ASSUME NEW i \in 1..Len(outcomes')
      PROVE  \E opp \in Passed : outcomes'[i].trade = TradeOf(opp)
  <2>1. CASE i \in 1..Len(outcomes)
    BY <1>3, <1>5, <2>1 DEF AllPassed
  <2>2. CASE i \notin 1..Len(outcomes)
    <3>1. i - Len(outcomes) \in 1..Len(done) /\ Len(outcomes) + (i - Len(outcomes)) = i
      BY <1>3, <1>4, <2>2
    <3>2. outcomes'[i] = TrackerProofs!Outcome(done[i - Len(outcomes)], listed)
      BY <1>3, <3>1
    <3>3. outcomes'[i].trade = done[i - Len(outcomes)].trade
      BY <3>2 DEF TrackerProofs!Outcome
    <3> QED BY <1>4, <1>5, <3>1, <3>3, SMTT(20) DEF AllPassed
  <2> QED BY <2>1, <2>2
<1>8. outcomes' # outcomes => Len(done) > 0
  <2>1. outcomes \in Seq(TrackerProofs!Outcomes)
    BY <1>2 DEF TrackerProofs!TypeOK
  <2> SUFFICES ASSUME ~(Len(done) > 0) PROVE outcomes' = outcomes
    OBVIOUS
  <2>2. Len(outcomes') = Len(outcomes)
    BY <1>3, <1>4
  <2> QED BY <1>3, <2>1, <2>2, SeqEqual
<1> QED BY <1>3, <1>4, <1>6, <1>7, <1>8 DEF AllPassed

\* Every step keeps the tracker's invariant, and its trades approved.
LEMMA TrackerPart ==
  ASSUME QueueInv, TrackerInv, BooksInv, [Next]_vars
  PROVE  TrackerInv'
<1>0. /\ exec = "polling" <=> asked # Tracker!NotAsked
      /\ AllPassed(pending) /\ AllPassed(outcomes)
  BY DEF TrackerInv, AllPassed
<1>1. TrackerProofs!IInv'
  BY TrackerStep, TrackerProofs!NextInvariant, ComponentAssumptions DEF TrackerInv
<1>2. exec' = "polling" <=> asked' # Tracker!NotAsked
  <2>1. CASE Poll
    <3>1. now # Tracker!NotAsked
      BY ComponentAssumptions, TrackerProofs!Elements
         DEF TrackerInv, TrackerProofs!IInv, Tracker!NotAsked
    <3> QED BY <2>1, <3>1 DEF Poll, Tracker!StartPoll
  <2>2. CASE exec' \in {"select", "booking"} /\ asked' = Tracker!NotAsked
    BY <2>2
  <2>3. CASE PollFails \/ PollReturns
    BY <2>2, <2>3 DEF PollFails, PollReturns, Tracker!PollError, Tracker!PollReply
  <2>4. CASE asked' = asked /\ exec # "polling" /\ exec' # "polling"
    BY <1>0, <2>4
  <2>5. ASSUME NEW id \in Ids \cup {NoId}, SubmitOk(id)
        PROVE  asked' = asked /\ exec # "polling" /\ exec' # "polling"
    BY <2>5 DEF SubmitOk, Tracker!Track
  <2>6. CASE TakeOpportunity \/ SubmitFails \/ SubmitDryRun \/ StopExecutor \/ Book
    <3>1. asked' = asked
      BY <2>6 DEF TakeOpportunity, SubmitFails, SubmitDryRun, StopExecutor, Book, trackerVars
    <3>2. exec # "polling" /\ exec' # "polling"
      BY <2>6 DEF TakeOpportunity, SubmitFails, SubmitDryRun, StopExecutor, Book
    <3> QED BY <2>4, <3>1, <3>2
  <2>7. CASE UNCHANGED <<asked, exec>>
    BY <1>0, <2>7
  <2>8. ASSUME NEW s \in Strategies, Strategy(s) PROVE UNCHANGED <<asked, exec>>
    BY <2>8 DEF Strategy, Receive, Consider, Send, SendFails, StopStrategy, trackerVars, executorVars
  <2>9. CASE Abandon \/ Shutdown \/ FeedEnds \/ UNCHANGED vars
    BY <2>7, <2>9 DEF Abandon, Shutdown, FeedEnds, vars, trackerVars, executorVars
  <2>10. CASE ChainProgress \/ Tick
    BY <2>7, <2>10 DEF ChainProgress, Tick, executorVars, Tracker!Progress, Tracker!Tick,
                      Tracker!trackerVars
  <2> QED
    BY <2>1, <2>3, <2>4, <2>5, <2>6, <2>7, <2>8, <2>9, <2>10 DEF Next, Executor, Submitted
<1>3. AllPassed(pending') /\ AllPassed(outcomes')
  <2>1. ASSUME NEW id \in Ids \cup {NoId}, SubmitOk(id)
        PROVE  AllPassed(pending') /\ AllPassed(outcomes')
    <3>1. outcomes' = outcomes
      BY <2>1 DEF SubmitOk, Tracker!Track
    <3> QED BY <1>0, <2>1, <3>1, TrackTrades
  <2>2. CASE PollReturns
    BY <2>2, PollTrades DEF PollReturns
  <2>3. CASE UNCHANGED <<pending, outcomes>>
    <3>1. pending' = pending /\ outcomes' = outcomes
      BY <2>3
    <3>2. AllPassed(pending')
      BY <1>0, <3>1 DEF AllPassed
    <3>3. AllPassed(outcomes')
      BY <1>0, <3>1 DEF AllPassed
    <3> QED BY <3>2, <3>3
  <2>4. ASSUME NEW s \in Strategies, Strategy(s) PROVE UNCHANGED <<pending, outcomes>>
    BY <2>4 DEF Strategy, Receive, Consider, Send, SendFails, StopStrategy, trackerVars
  <2>5. CASE Abandon \/ TakeOpportunity \/ SubmitFails \/ SubmitDryRun \/ StopExecutor \/ Book
    BY <2>3, <2>5 DEF Abandon, TakeOpportunity, SubmitFails, SubmitDryRun, StopExecutor, Book,
                      trackerVars
  <2>6. CASE Poll \/ PollFails
    BY <2>3, <2>6 DEF Poll, PollFails, Tracker!StartPoll, Tracker!PollError
  <2>7. CASE Shutdown \/ FeedEnds \/ UNCHANGED vars
    BY <2>3, <2>7 DEF Shutdown, FeedEnds, vars, trackerVars
  <2>8. CASE ChainProgress \/ Tick
    BY <2>3, <2>8 DEF ChainProgress, Tick, Tracker!Progress, Tracker!Tick, Tracker!trackerVars
  <2> QED BY <2>1, <2>2, <2>3, <2>4, <2>5, <2>6, <2>7, <2>8 DEF Next, Executor, Submitted
<1> QED BY <1>1, <1>2, <1>3 DEF TrackerInv, AllPassed, Passed, Tracker!NotAsked

------------------------------------------------------------------------------
(* The books *)

\* The counters are numbers.
LEMMA BooksTypes ==
  ASSUME TrackerInv, BooksInv
  PROVE  /\ pnl \in [opportunities : Nat, submitted : Nat, landed : Nat, profit : Int, tips : Int]
         /\ pnl.opportunities \in Nat /\ pnl.submitted \in Nat /\ pnl.landed \in Nat
         /\ pnl.profit \in Int /\ pnl.tips \in Int
         /\ failures \in Nat /\ tracked \in Nat
         /\ Len(outcomes) \in Nat /\ applied \in Nat /\ applied <= Len(outcomes)
         /\ exec = "booking" <=> applied < Len(outcomes)
         /\ dry_run \in BOOLEAN
         /\ tracked = 0 => Len(outcomes) = 0
<1>1. /\ Len(outcomes) \in Nat /\ tracked \in Nat
      /\ \A i \in 1..Len(outcomes) : outcomes[i].n \in Nat /\ outcomes[i].n > 0
  BY ComponentAssumptions, TrackerProofs!Elements DEF TrackerInv, TrackerProofs!IInv
<1>2. \A i \in 1..Len(outcomes) : outcomes[i].n <= tracked
  BY DEF TrackerInv, TrackerProofs!IInv, TrackerProofs!Numbered
<1>3. tracked = 0 => Len(outcomes) = 0
  <2> SUFFICES ASSUME tracked = 0, Len(outcomes) # 0 PROVE FALSE
    OBVIOUS
  <2>1. 1 \in 1..Len(outcomes)
    BY <1>1
  <2> QED BY <1>1, <1>2, <2>1
<1>4. pnl \in [opportunities : Nat, submitted : Nat, landed : Nat, profit : Int, tips : Int]
  BY DEF BooksInv, Books
<1>5. /\ failures \in Nat /\ applied \in 0..Len(outcomes) /\ dry_run \in BOOLEAN
      /\ exec = "booking" <=> applied < Len(outcomes)
  BY DEF BooksInv, Books
<1> QED BY <1>1, <1>3, <1>4, <1>5

\* A step that books nothing: the counters may change, and what decides where
\* the executor is.
LEMMA BooksQuiet ==
  ASSUME TrackerInv, BooksInv,
         pnl' \in [opportunities : Nat, submitted : Nat, landed : Nat, profit : Int, tips : Int],
         pnl'.landed = pnl.landed, pnl'.profit = pnl.profit,
         failures' \in Nat,
         CountersBalance',
         UNCHANGED <<applied, history, dry_run>>,
         Len(outcomes') \in Nat, Len(outcomes) <= Len(outcomes'),
         \A i \in 1..Len(outcomes) : outcomes'[i] = outcomes[i],
         exec' = "booking" <=> applied < Len(outcomes')
  PROVE  Books'
<1>1. /\ applied \in Nat /\ Len(outcomes) \in Nat /\ applied <= Len(outcomes)
      /\ dry_run \in BOOLEAN
  BY BooksTypes
<1>2. applied' = applied /\ history' = history /\ dry_run' = dry_run
  OBVIOUS
<1>3. applied' \in 0..Len(outcomes')
  BY <1>1, <1>2
<1>4. BreakerFollowsBooks'
  <2>1. BreakerFollowsBooks
    BY DEF BooksInv, Books
  <2>2. \A i \in 1..applied : outcomes'[i] = outcomes[i]
    BY <1>1
  <2>3. \A i \in 1..applied' :
          history'[i].pnl = IF outcomes'[i].kind = "Landed" THEN outcomes'[i].trade.profit ELSE 0
    BY <1>2, <2>1, <2>2 DEF BreakerFollowsBooks
  <2>4. pnl'.profit = SumSeq([i \in 1..applied' |-> history'[i].pnl])
    BY <1>2, <2>1 DEF BreakerFollowsBooks
  <2>5. exec' # "booking" => applied' = Len(outcomes')
    BY <1>1, <1>2
  <2> QED BY <1>2, <2>1, <2>3, <2>4, <2>5 DEF BreakerFollowsBooks
<1> QED BY <1>1, <1>2, <1>3, <1>4 DEF Books

\* What one outcome more does to the balance of the counters.
LEMMA OneSettled ==
  ASSUME NEW submitted \in Int, NEW landed \in Int, NEW failed \in Int,
         NEW landedThen \in Int, NEW failedThen \in Int, NEW all \in Int, NEW booked \in Int,
         landedThen + failedThen = (landed + failed) + 1,
         submitted = landed + failed + (all - booked)
  PROVE  submitted = landedThen + failedThen + (all - (booked + 1))
OBVIOUS

\* Booking one outcome keeps the counters, the P&L and the breaker in agreement.
LEMMA BookStep ==
  ASSUME TrackerInv, BooksInv, Book
  PROVE  Books'
<1> DEFINE n == applied + 1
           x == Booked(outcomes[n])
           landed == outcomes[n].kind = "Landed"
<1>0. /\ pnl \in [opportunities : Nat, submitted : Nat, landed : Nat, profit : Int, tips : Int]
      /\ pnl.landed \in Nat /\ pnl.submitted \in Nat /\ pnl.profit \in Int /\ pnl.tips \in Int
      /\ failures \in Nat /\ tracked \in Nat
      /\ Len(outcomes) \in Nat /\ applied \in Nat /\ applied < Len(outcomes)
      /\ dry_run \in BOOLEAN
      /\ tracked = 0 => Len(outcomes) = 0
      /\ exec = "booking"
  BY BooksTypes DEF Book
<1>1. n \in 1..Len(outcomes) /\ n \in Nat
  BY <1>0
<1>2. x \in Int /\ outcomes[n].trade.profit \in Int /\ outcomes[n].trade.tip \in Int
  <2>1. PICK opp \in Passed : outcomes[n].trade = TradeOf(opp)
    BY <1>1 DEF TrackerInv
  <2>2. calculate_tip(opp.profit) \in Int
    BY PassedFields, RiskAssumption DEF calculate_tip, Larger, Smaller
  <2>3. outcomes[n].trade.tip \in Int
    BY <2>1, <2>2 DEF TradeOf
  <2> QED BY <1>1, <2>3, BookedIsResult
<1>3. /\ outcomes' = outcomes /\ tracked' = tracked /\ dry_run' = dry_run
      /\ applied' = n /\ exec' = IF n = Len(outcomes) THEN "select" ELSE "booking"
  BY DEF Book, configVars
<1>4. /\ landed => /\ failures' = failures
                   /\ pnl' = [pnl EXCEPT !.landed = pnl.landed + 1,
                                         !.profit = pnl.profit + outcomes[n].trade.profit,
                                         !.tips = pnl.tips + outcomes[n].trade.tip]
      /\ ~landed => failures' = failures + 1 /\ pnl' = pnl
  BY DEF Book
<1>5. history' = Append(history, [at |-> now, pnl |-> x])
  BY DEF Book, Breaker!RecordTrade, Booked
<1>6. BreakerFollowsBooks
  BY DEF BooksInv, Books
<1>7. /\ pnl' \in [opportunities : Nat, submitted : Nat, landed : Nat, profit : Int, tips : Int]
      /\ pnl'.submitted = pnl.submitted
      /\ pnl'.profit = pnl.profit + x
      /\ failures' \in Nat
      /\ pnl'.landed + failures' = (pnl.landed + failures) + 1
  <2>1. CASE landed
    <3>1. x = outcomes[n].trade.profit
      BY <2>1 DEF Booked
    <3>2. /\ failures' = failures
          /\ pnl' = [pnl EXCEPT !.landed = pnl.landed + 1, !.profit = pnl.profit + x,
                                !.tips = pnl.tips + outcomes[n].trade.tip]
      BY <1>4, <2>1, <3>1
    <3> HIDE DEF x
    <3>3. pnl.landed + 1 \in Nat /\ pnl.profit + x \in Int
          /\ pnl.tips + outcomes[n].trade.tip \in Int
      BY <1>0, <1>2, SMTT(20)
    <3>4. pnl' \in [opportunities : Nat, submitted : Nat, landed : Nat, profit : Int, tips : Int]
      BY <1>0, <3>2, <3>3
    <3>5. /\ pnl'.submitted = pnl.submitted /\ pnl'.profit = pnl.profit + x
          /\ pnl'.landed = pnl.landed + 1
      BY <1>0, <3>2
    <3> QED BY <1>0, <3>2, <3>4, <3>5
  <2>2. CASE ~landed
    <3>1. x = 0
      BY <2>2 DEF Booked
    <3> HIDE DEF x
    <3> QED BY <1>0, <1>4, <2>2, <3>1, SMTT(20)
  <2> QED BY <2>1, <2>2
<1> HIDE DEF x, landed
<1>8. /\ Len(history') = n
      /\ \A i \in 1..applied : history'[i] = history[i]
      /\ history'[n].pnl = x
  <2>1. history \in Seq(BreakerProofs!Trades) /\ Len(history) = applied
    BY <1>6 DEF BreakerFollowsBooks, BooksInv, BreakerProofs!IInv, BreakerProofs!TypeOK
  <2>2. history \in Seq(BreakerProofs!Trades \cup {[at |-> now, pnl |-> x]})
    BY <2>1, SeqMonotonic
  <2>3. /\ Len(history') = Len(history) + 1
        /\ \A i \in 1..Len(history) : history'[i] = history[i]
        /\ history'[Len(history) + 1] = [at |-> now, pnl |-> x]
    BY <1>5, <2>2, AppendProperties
  <2> QED BY <2>1, <2>3
<1>9. \A i \in 1..applied : history[i].pnl = Booked(outcomes[i]) /\ history[i].pnl \in Int
  <2>1. \A i \in 1..applied : i \in 1..Len(outcomes)
    BY <1>0
  <2> QED BY <1>6, <2>1, BookedIsResult DEF BreakerFollowsBooks, Booked
<1>10. BreakerFollowsBooks'
  <2> DEFINE v == [i \in 1..applied |-> history[i].pnl]
             w == [i \in 1..n |-> history'[i].pnl]
  <2>1. \A i \in 1..n : /\ i \in 1..applied \/ i = n
                       /\ history'[i].pnl = Booked(outcomes[i])
                       /\ history'[i].pnl \in Int
    <3> SUFFICES ASSUME NEW i \in 1..n
                 PROVE  /\ i \in 1..applied \/ i = n
                        /\ history'[i].pnl = Booked(outcomes[i])
                        /\ history'[i].pnl \in Int
      OBVIOUS
    <3>1. i \in 1..applied \/ i = n
      BY <1>0
    <3> QED BY <1>2, <1>8, <1>9, <3>1 DEF x
  <2>2. v \in Seq(Int) /\ w \in Seq(Int) /\ Len(v) = applied /\ Len(w) = applied + 1
    BY <1>0, <1>1, <1>9, <2>1
  <2>3. \A i \in 1..applied : w[i] = v[i]
    BY <1>0, <1>8
  <2>4. w[applied + 1] = x
    BY <1>1, <1>8
  <2>5. SumSeq(w) = SumSeq(v) + x
    <3> HIDE DEF v, w, n
    <3> QED BY <2>2, <2>3, <2>4, SumSeqOneMore
  <2>6. pnl'.profit = SumSeq(w)
    BY <1>6, <1>7, <2>5 DEF BreakerFollowsBooks
  <2>7. exec' # "booking" => n = Len(outcomes)
    BY <1>3
  <2> QED BY <1>3, <1>8, <2>1, <2>6, <2>7 DEF BreakerFollowsBooks, Booked
<1>11. CountersBalance'
  <2>1. ~dry_run
    BY <1>0 DEF BooksInv, Books, CountersBalance
  <2>2. pnl.submitted = pnl.landed + failures + (tracked - applied)
    BY <1>0, <2>1 DEF BooksInv, Books, CountersBalance
  <2>3. pnl'.landed \in Nat
    BY <1>7
  <2>4. pnl'.submitted = pnl'.landed + failures' + (tracked - n)
    <3>1. /\ pnl.submitted \in Int /\ pnl.landed \in Int /\ pnl'.landed \in Int
          /\ failures \in Int /\ failures' \in Int /\ tracked \in Int /\ applied \in Int
      BY <1>0, <1>7, <2>3
    <3>2. pnl.submitted = pnl'.landed + failures' + (tracked - (applied + 1))
      BY <1>7, <2>2, <3>1, OneSettled
    <3> QED BY <1>7, <3>2
  <2>5. exec' # "submitting"
    BY <1>3
  <2> HIDE DEF n
  <2> QED BY <1>0, <1>1, <1>3, <1>7, <2>1, <2>3, <2>4, <2>5 DEF CountersBalance
<1>12. applied' \in 0..Len(outcomes') /\ (exec' = "booking" <=> applied' < Len(outcomes'))
  BY <1>0, <1>1, <1>3
<1> QED BY <1>0, <1>3, <1>7, <1>10, <1>11, <1>12 DEF Books

\* Every step keeps the counters, the P&L and the breaker in agreement.
LEMMA BooksPart ==
  ASSUME TrackerInv, BooksInv, [Next]_vars
  PROVE  Books'
<1>0. /\ pnl \in [opportunities : Nat, submitted : Nat, landed : Nat, profit : Int, tips : Int]
      /\ pnl.opportunities \in Nat /\ pnl.submitted \in Nat /\ pnl.landed \in Nat
      /\ failures \in Nat /\ tracked \in Nat
      /\ Len(outcomes) \in Nat /\ applied \in Nat /\ applied <= Len(outcomes)
      /\ exec = "booking" <=> applied < Len(outcomes)
      /\ dry_run \in BOOLEAN
      /\ CountersBalance
  BY BooksTypes DEF BooksInv, Books
<1> DEFINE pnlFields(p) ==
      /\ p \in [opportunities : Nat, submitted : Nat, landed : Nat, profit : Int, tips : Int]
      /\ p.landed = pnl.landed /\ p.profit = pnl.profit /\ p.submitted \in Nat
\* Nothing the books depend on changes but a counter they do not relate, or
\* where the executor is outside submitting and booking.
<1>1. CASE /\ pnlFields(pnl') /\ pnl'.submitted = pnl.submitted
           /\ UNCHANGED <<failures, applied, history, dry_run, outcomes, tracked>>
           /\ \/ exec' = exec
              \/ /\ exec \notin {"submitting", "booking"}
                 /\ exec' \notin {"submitting", "booking"}
  <2>1. CountersBalance'
    BY <1>0, <1>1 DEF CountersBalance
  <2>2. exec' = "booking" <=> applied < Len(outcomes')
    BY <1>0, <1>1
  <2> QED BY <1>0, <1>1, <2>1, <2>2, BooksQuiet
<1>2. CASE UNCHANGED <<exec, applied, pnl, failures, dry_run, outcomes, tracked, history>>
  BY <1>0, <1>1, <1>2
<1>3. ASSUME NEW s \in Strategies, Strategy(s) PROVE Books'
  <2>1. CASE Consider(s)
    <3>1. /\ UNCHANGED <<failures, applied, history, dry_run, outcomes, tracked>> /\ exec' = exec
          /\ pnl' = [pnl EXCEPT !.opportunities = pnl.opportunities + 1]
      BY <2>1 DEF Consider, executorVars, configVars, trackerVars, breakerVars
    <3>2. pnlFields(pnl') /\ pnl'.submitted = pnl.submitted
      BY <1>0, <3>1
    <3> QED BY <1>1, <3>1, <3>2
  <2>2. CASE ~Consider(s)
    BY <1>2, <1>3, <2>2 DEF Strategy, Receive, Send, SendFails, StopStrategy, executorVars,
                            booksVars, configVars, trackerVars, breakerVars
  <2> QED BY <2>1, <2>2
<1>4. CASE TakeOpportunity
  <2>1. /\ UNCHANGED <<failures, applied, history, dry_run, outcomes, tracked>>
        /\ exec = "select" /\ exec' = "submitting"
        /\ pnl' = [pnl EXCEPT !.submitted = pnl.submitted + 1]
    BY <1>4 DEF TakeOpportunity, configVars, trackerVars, breakerVars
  <2>2. pnlFields(pnl') /\ pnl'.submitted = pnl.submitted + 1
    BY <1>0, <2>1
  <2>3. CountersBalance'
    BY <1>0, <2>1, <2>2, SMTT(20) DEF CountersBalance
  <2>4. exec' = "booking" <=> applied < Len(outcomes')
    BY <1>0, <2>1
  <2> QED BY <1>0, <2>1, <2>2, <2>3, <2>4, BooksQuiet
<1>5. ASSUME NEW id \in Ids \cup {NoId}, SubmitOk(id) PROVE Books'
  <2>1. /\ UNCHANGED <<pnl, failures, applied, history, dry_run, outcomes>>
        /\ exec = "submitting" /\ exec' = "select" /\ tracked' = tracked + 1 /\ ~dry_run
    BY <1>5 DEF SubmitOk, Tracker!Track, booksVars, configVars, breakerVars
  <2>2. CountersBalance'
    BY <1>0, <2>1 DEF CountersBalance
  <2>3. exec' = "booking" <=> applied < Len(outcomes')
    BY <1>0, <2>1
  <2> QED BY <1>0, <2>1, <2>2, <2>3, BooksQuiet
<1>6. CASE SubmitFails
  <2>1. /\ UNCHANGED <<pnl, applied, history, dry_run, outcomes, tracked>>
        /\ exec = "submitting" /\ exec' = "select" /\ failures' = failures + 1 /\ ~dry_run
    BY <1>6 DEF SubmitFails, configVars, trackerVars, breakerVars
  <2>2. CountersBalance'
    BY <1>0, <2>1 DEF CountersBalance
  <2>3. (exec' = "booking" <=> applied < Len(outcomes')) /\ failures' \in Nat
    BY <1>0, <2>1
  <2> QED BY <1>0, <2>1, <2>2, <2>3, BooksQuiet
<1>7. CASE SubmitDryRun
  <2>1. /\ UNCHANGED <<pnl, failures, applied, history, dry_run, outcomes, tracked>>
        /\ exec = "submitting" /\ exec' = "select" /\ dry_run
    BY <1>7 DEF SubmitDryRun, booksVars, configVars, trackerVars, breakerVars
  <2>2. CountersBalance'
    BY <1>0, <2>1 DEF CountersBalance
  <2>3. exec' = "booking" <=> applied < Len(outcomes')
    BY <1>0, <2>1
  <2> QED BY <1>0, <2>1, <2>2, <2>3, BooksQuiet
<1>8. CASE Poll \/ PollFails \/ StopExecutor
  <2>1. /\ UNCHANGED <<pnl, failures, applied, history, dry_run, outcomes, tracked>>
        /\ exec \in {"select", "polling"} /\ exec' \in {"select", "polling", "stopped"}
    BY <1>8 DEF Poll, PollFails, StopExecutor, Tracker!StartPoll, Tracker!PollError, booksVars,
                configVars, trackerVars, breakerVars
  <2> QED BY <1>0, <1>1, <2>1
<1>9. CASE PollReturns
  <2>1. /\ UNCHANGED <<pnl, failures, applied, history, dry_run, tracked>>
        /\ exec = "polling" /\ exec' = IF outcomes' = outcomes THEN "select" ELSE "booking"
    BY <1>9 DEF PollReturns, Tracker!PollReply, booksVars, configVars, breakerVars
  <2>2. /\ Len(outcomes') \in Nat /\ Len(outcomes) <= Len(outcomes')
        /\ \A i \in 1..Len(outcomes) : outcomes'[i] = outcomes[i]
        /\ outcomes' # outcomes => Len(outcomes) < Len(outcomes')
    BY <1>9, PollTrades DEF PollReturns
  <2>3. CountersBalance'
    BY <1>0, <2>1 DEF CountersBalance
  <2>4. exec' = "booking" <=> applied < Len(outcomes')
    BY <1>0, <2>1, <2>2
  <2> QED BY <1>0, <2>1, <2>2, <2>3, <2>4, BooksQuiet
<1>10. CASE Book
  BY <1>10, BookStep
<1>11. CASE Abandon \/ Shutdown \/ FeedEnds \/ UNCHANGED vars
  BY <1>2, <1>11 DEF Abandon, Shutdown, FeedEnds, executorVars, booksVars, configVars,
                     trackerVars, breakerVars, vars
<1>12. CASE ChainProgress \/ Tick
  BY <1>2, <1>12 DEF ChainProgress, Tick, Tracker!Progress, Tracker!Tick, Tracker!trackerVars,
                     executorVars, booksVars, configVars, breakerVars
<1> QED
  BY <1>3, <1>4, <1>5, <1>6, <1>7, <1>8, <1>9, <1>10, <1>11, <1>12 DEF Next, Executor, Submitted

------------------------------------------------------------------------------
(* The invariant *)

\* Every step of the bot keeps the invariant.
LEMMA NextInvariant == IInv /\ [Next]_vars => IInv'
<1> SUFFICES ASSUME IInv, [Next]_vars PROVE IInv'
  OBVIOUS
<1>1. StrategyInv /\ QueueInv /\ TrackerInv /\ BooksInv
  BY DEF IInv
<1>2. StrategyInv'
  BY <1>1, StrategyPart
<1>3. QueueInv'
  BY <1>1, QueuePart
<1>4. TrackerInv'
  BY <1>1, TrackerPart
<1>5. BreakerProofs!IInv'
  BY <1>1, BreakerStep, BreakerProofs!NextInvariant, ComponentAssumptions DEF BooksInv
<1>6. Books'
  BY <1>1, BooksPart
<1> QED BY <1>2, <1>3, <1>4, <1>5, <1>6 DEF IInv, BooksInv

\* A bot that has just started satisfies the invariant.
LEMMA InitInvariant == Init => IInv
<1> SUFFICES ASSUME Init PROVE IInv
  OBVIOUS
<1>1. StrategyInv
  <2>1. \A s \in Strategies : <<>> \in Finds(s)
    <3> SUFFICES ASSUME NEW s \in Strategies PROVE <<>> \in Finds(s)
      OBVIOUS
    <3>1. <<>> \in Seq(Found(s)) /\ Len(<<>>) <= MaxBatch[s]
      BY EmptySeq, BotAssumption
    <3> QED BY <3>1, FindsIsBounded
  <2>2. <<>> \in Seq(Opportunities) /\ 0 \in 0..MaxUpdates
    BY EmptySeq, BotAssumption
  <2> QED BY <2>1, <2>2 DEF Init, StrategyInv
<1>2. QueueInv
  <2>1. channel \in Seq(Passed) /\ Len(channel) = 0
    BY EmptySeq DEF Init
  <2> QED BY <2>1, BotAssumption DEF Init, QueueInv
<1>3. Len(pending) = 0 /\ Len(outcomes) = 0 /\ asked = Tracker!NotAsked /\ tracked = 0
      /\ Len(history) = 0
  BY EmptySeq DEF Init, Tracker!Init, Breaker!Init
<1>4. TrackerInv
  <2>1. TrackerProofs!Init
    BY DEF Init, Tracker!Init, TrackerProofs!Init, Tracker!NotAsked, TrackerProofs!NotAsked
  <2>2. TrackerProofs!IInv
    BY <2>1, TrackerProofs!InitInvariant, ComponentAssumptions
  <2> QED BY <1>3, <2>2 DEF TrackerInv, Init
<1>5. BreakerProofs!IInv
  <2>1. BreakerProofs!Init
    BY DEF Init, Breaker!Init, BreakerProofs!Init, Breaker!NoInstant, BreakerProofs!NoInstant
  <2> QED BY <2>1, BreakerProofs!InitInvariant, ComponentAssumptions
<1>6. Books
  <2>1. /\ applied = 0 /\ failures = 0 /\ exec = "select" /\ dry_run \in BOOLEAN
        /\ pnl = [opportunities |-> 0, submitted |-> 0, landed |-> 0, profit |-> 0, tips |-> 0]
    BY DEF Init
  <2>2. CountersBalance
    BY <1>3, <2>1 DEF CountersBalance
  <2>3. BreakerFollowsBooks
    <3> DEFINE v == [i \in 1..applied |-> history[i].pnl]
    <3>1. v \in Seq(Int) /\ Len(v) = 0
      BY <2>1
    <3>2. SumSeq(v) = 0
      <4> HIDE DEF v
      <4> QED BY <3>1, PrefixSumsCorrect DEF SumSeq, IsPrefixSums
    <3> QED BY <1>3, <2>1, <3>2 DEF BreakerFollowsBooks
  <2> QED BY <1>3, <2>1, <2>2, <2>3 DEF Books
<1> QED BY <1>1, <1>2, <1>4, <1>5, <1>6 DEF IInv, BooksInv

\* The invariant holds in every reachable state of the bot.
THEOREM InductiveInvariant == Spec => []IInv
BY InitInvariant, NextInvariant, PTL DEF Spec

------------------------------------------------------------------------------
(* The properties *)

\* The bot's variables, and those of its tracker, keep their types.
THEOREM BotTypes == Spec => []TypeOK
<1>1. IInv => TypeOK
  <2> SUFFICES ASSUME IInv PROVE TypeOK
    OBVIOUS
  <2>1. Tracker!TypeOK
    BY DEF IInv, TrackerInv, TrackerProofs!IInv, TrackerProofs!TypeOK, Tracker!TypeOK,
           Tracker!PendingBundles, TrackerProofs!PendingBundles, Tracker!Outcomes,
           TrackerProofs!Outcomes, Tracker!Statuses, TrackerProofs!Statuses,
           Tracker!NotAsked, TrackerProofs!NotAsked
  <2>2. exec = "submitting" <=> current # None
    BY PassedFields DEF IInv, QueueInv
  <2> QED BY <2>1, <2>2 DEF IInv, StrategyInv, QueueInv, TrackerInv, BooksInv, Books, TypeOK
<1> QED BY <1>1, InductiveInvariant, PTL

\* A fraction of an amount, rounded down, is at most the amount.
LEMMA FractionBelowWhole ==
  ASSUME NEW p \in Nat, NEW n \in Nat, NEW d \in Nat \ {0}, n <= d
  PROVE  (p * n) \div d \in Int /\ (p * n) \div d <= p
<1> DEFINE q == (p * n) \div d
<1>1. p * n \in Nat /\ p * d \in Nat /\ p * n <= p * d
  OBVIOUS
<1>2. q \in Int /\ q * d <= p * n
  BY <1>1
<1> HIDE DEF q
<1>3. q * d <= p * d
  BY <1>1, <1>2
<1>4. q <= p
  BY <1>2, <1>3
<1> QED BY <1>2, <1>4 DEF q

\* Whatever is traded has passed the blacklist and both limits, and a tip is
\* never more than the expected profit, provided the minimum tip is within the
\* minimum profit and the tip is a proper fraction.
THEOREM VettedOnly ==
  ASSUME MinTip <= MinProfit, TipNum <= TipDen
  PROVE  Spec => []OnlyVettedTraded
<1>1. ASSUME NEW opp \in Passed
      PROVE  calculate_tip(opp.profit) <= MaxTip /\ calculate_tip(opp.profit) <= opp.profit
  <2> DEFINE share == (opp.profit * TipNum) \div TipDen
  <2>1. opp.profit \in Nat /\ opp.profit >= MinTip
    BY PassedFields, RiskAssumption
  <2>2. share \in Int /\ share <= opp.profit
    BY <2>1, RiskAssumption, FractionBelowWhole
  <2>3. calculate_tip(opp.profit) = IF opp.profit <= 0 THEN MinTip
                                    ELSE Smaller(Larger(share, MinTip), MaxTip)
    BY DEF calculate_tip
  <2> HIDE DEF share
  <2> QED BY <2>1, <2>2, <2>3, RiskAssumption DEF Larger, Smaller
<1>2. IInv => OnlyVettedTraded
  <2> SUFFICES ASSUME IInv PROVE OnlyVettedTraded
    OBVIOUS
  <2>1. \A opp \in {channel[i] : i \in 1..Len(channel)} \cup ({current} \ {None}) : opp \in Passed
    <3>1. \A i \in 1..Len(channel) : channel[i] \in Passed
      BY ElementOfSeq DEF IInv, QueueInv
    <3>2. current # None => current \in Passed
      BY DEF IInv, QueueInv
    <3> QED BY <3>1, <3>2
  <2>2. ASSUME NEW i \in 1..Len(pending)
        PROVE  pending[i].trade.tip <= MaxTip /\ pending[i].trade.tip <= pending[i].trade.profit
    <3>1. PICK opp \in Passed : pending[i].trade = TradeOf(opp)
      BY DEF IInv, TrackerInv
    <3>2. pending[i].trade.tip = calculate_tip(opp.profit) /\ pending[i].trade.profit = opp.profit
      BY <3>1 DEF TradeOf
    <3> QED BY <1>1, <3>2
  <2> QED BY <2>1, <2>2, PassedFields DEF OnlyVettedTraded
<1> QED BY <1>2, InductiveInvariant, PTL

\* Every bundle counted as submitted is in exactly one of the other counters,
\* or still on its way there.
THEOREM CountersAddUp == Spec => []CountersBalance
<1>1. IInv => CountersBalance
  BY DEF IInv, BooksInv, Books
<1> QED BY <1>1, InductiveInvariant, PTL

\* The breaker and the P&L counter see the same outcomes, each once.
THEOREM BooksAgree == Spec => []BreakerFollowsBooks
<1>1. IInv => BreakerFollowsBooks
  BY DEF IInv, BooksInv, Books
<1> QED BY <1>1, InductiveInvariant, PTL

\* Under any limits with a non-negative minimum profit the breaker of the
\* running bot cannot trip: nothing it is told is a loss.
THEOREM BreakerIdle ==
  ASSUME MinProfit >= 0, MaxLoss >= 0
  PROVE  Spec => []NeverTrips
<1>1. IInv => NeverTrips
  <2> SUFFICES ASSUME IInv PROVE NeverTrips
    OBVIOUS
  <2>1. TrackerInv /\ BreakerProofs!IInv /\ BreakerFollowsBooks
    BY DEF IInv, BooksInv, Books
  <2>2. /\ Len(history) = applied /\ applied \in Nat /\ applied <= Len(outcomes)
        /\ Len(outcomes) \in Nat
    BY <2>1, BooksTypes DEF IInv, BreakerFollowsBooks
  <2>3. \A i \in 1..Len(history) : history[i].pnl \in Int /\ history[i].pnl >= 0
    <3> SUFFICES ASSUME NEW i \in 1..applied
                 PROVE  history[i].pnl \in Int /\ history[i].pnl >= 0
      BY <2>2
    <3>1. i \in 1..Len(outcomes)
      BY <2>2
    <3>2. PICK opp \in Passed : outcomes[i].trade = TradeOf(opp)
      BY <2>1, <3>1 DEF TrackerInv
    <3>3. outcomes[i].trade.profit = opp.profit
      BY <3>2 DEF TradeOf
    <3>4. opp.profit \in Int /\ opp.profit >= 0
      BY PassedFields, RiskAssumption
    <3>5. history[i].pnl = IF outcomes[i].kind = "Landed" THEN opp.profit ELSE 0
      BY <2>1, <3>3 DEF BreakerFollowsBooks
    <3> QED BY <3>4, <3>5
  <2>4. ASSUME NEW n \in 1..Len(history) PROVE ~BreakerProofs!BreachAt(n)
    <3> DEFINE v == [i \in 1..n |-> IF history[n].at - history[i].at <= Window
                                    THEN history[i].pnl ELSE 0]
    <3>1. v \in Seq(Int) /\ \A i \in 1..Len(v) : v[i] >= 0
      BY <2>2, <2>3
    <3>2. SumSeq(v) \in Int /\ SumSeq(v) >= 0
      <4> HIDE DEF v
      <4> QED BY <3>1, SumSeqType, SumSeqNonNegative
    <3>3. BreakerProofs!SumSeq(v) = SumSeq(v)
      BY DEF SumSeq, PrefixSums, BreakerProofs!SumSeq, BreakerProofs!PrefixSums
    <3>4. ~(BreakerProofs!SumSeq(v) < -MaxLoss)
      <4> HIDE DEF v
      <4> QED BY <3>2, <3>3, BotAssumption
    <3> QED BY <3>4 DEF BreakerProofs!BreachAt
  <2>5. ~tripped
    BY <2>1, <2>4, Zenon DEF BreakerProofs!IInv, BreakerProofs!TrippedIffBreached
  <2> QED BY <2>3, <2>5 DEF NeverTrips
<1> QED BY <1>1, InductiveInvariant, PTL

\* The bot runs the tracker as its module specifies it, and the breaker too:
\* what is proved of the two modules holds in the bot.
THEOREM BotRunsTracker == Spec => TrackerProofs!Spec
<1>1. Init => TrackerProofs!Init
  BY DEF Init, Tracker!Init, TrackerProofs!Init, Tracker!NotAsked, TrackerProofs!NotAsked
<1>2. IInv /\ [Next]_vars => [TrackerProofs!Next]_(TrackerProofs!vars)
  BY TrackerStep DEF IInv
<1> QED BY <1>1, <1>2, InductiveInvariant, PTL DEF Spec, TrackerProofs!Spec

\* Every behaviour of the bot, seen through the breaker's variables, is one of the breaker.
THEOREM BotRunsBreaker == Spec => BreakerProofs!Spec
<1>1. Init => BreakerProofs!Init
  BY DEF Init, Breaker!Init, BreakerProofs!Init, Breaker!NoInstant, BreakerProofs!NoInstant
<1>2. IInv /\ [Next]_vars => [BreakerProofs!Next]_(BreakerProofs!vars)
  BY BreakerStep DEF IInv
<1> QED BY <1>1, <1>2, InductiveInvariant, PTL DEF Spec, BreakerProofs!Spec

\* So the bot keeps the abstract ledger of BundleLedger: every bundle it submits gets
\* at most one verdict, for good, whatever the strategies, the poll timer, the block
\* engine and the shutdown signal do in between (executor task, main.rs; track and
\* poll, status_tracker.rs).
THEOREM BotKeepsLedger == Spec => TrackerProofs!ImplementsLedger
<1>1. TrackerProofs!Spec => TrackerProofs!ImplementsLedger
  BY ComponentAssumptions, TrackerProofs!TrackerImplementsLedger
<1> QED BY <1>1, BotRunsTracker, PTL

------------------------------------------------------------------------------
(* What the components promise, in the bot *)

\* What is booked as profit: each amount is the expected profit of a vetted opportunity
\* under a bundle id the chain confirmed, and every booking is of another call of track.
\* Two calls may share an id (SubmitOk hands ids out again); both are booked then.
ProfitIsConfirmed ==
  /\ pnl.profit = SumSeq([i \in 1..applied |-> history[i].pnl])
  /\ \A i \in 1..applied :
       history[i].pnl # 0 =>
         /\ outcomes[i].id \in Ids /\ chain[outcomes[i].id] = "confirmed"
         /\ \E opp \in Passed : history[i].pnl = opp.profit
  /\ \A i, j \in 1..applied : outcomes[i].n = outcomes[j].n => i = j

\* The P&L counter is the sum of what was booked, and nothing is booked as profit that
\* is not tracked under a confirmed id, or twice for one call of track, across all tasks.
\* It is not a sum over the bundles on the chain: one bundle submitted twice under one
\* id is booked for both calls (the executor's loop over outcomes, main.rs; poll,
\* status_tracker.rs).
THEOREM BooksAreConfirmed == Spec => []ProfitIsConfirmed
<1>1. IInv => ProfitIsConfirmed
  <2> SUFFICES ASSUME IInv PROVE ProfitIsConfirmed
    OBVIOUS
  <2>1. /\ BreakerFollowsBooks /\ applied \in 0..Len(outcomes)
        /\ TrackerProofs!OneOutcomeEach /\ TrackerProofs!LandedIsConfirmed
        /\ TrackerInv
    BY DEF IInv, TrackerInv, TrackerProofs!IInv, BooksInv, Books
  <2>2. Len(outcomes) \in Nat
    BY TrackerProofs!Elements, ComponentAssumptions DEF IInv, TrackerInv, TrackerProofs!IInv
  <2>3. ASSUME NEW i \in 1..applied PROVE i \in 1..Len(outcomes)
    BY <2>1, <2>2
  <2>4. ASSUME NEW i \in 1..applied, history[i].pnl # 0
        PROVE  /\ outcomes[i].id \in Ids /\ chain[outcomes[i].id] = "confirmed"
               /\ \E opp \in Passed : history[i].pnl = opp.profit
    <3>1. outcomes[i].kind = "Landed" /\ history[i].pnl = outcomes[i].trade.profit
      BY <2>1, <2>4 DEF BreakerFollowsBooks
    <3>2. outcomes[i].id \in Ids /\ chain[outcomes[i].id] = "confirmed"
      BY <2>1, <2>3, <3>1 DEF TrackerProofs!LandedIsConfirmed
    <3>3. PICK opp \in Passed : outcomes[i].trade = TradeOf(opp)
      BY <2>1, <2>3 DEF TrackerInv
    <3>4. history[i].pnl = opp.profit
      BY <3>1, <3>3 DEF TradeOf
    <3> QED BY <3>2, <3>4
  <2>5. \A i, j \in 1..applied : outcomes[i].n = outcomes[j].n => i = j
    BY <2>1, <2>3 DEF TrackerProofs!OneOutcomeEach
  <2> QED BY <2>1, <2>4, <2>5 DEF ProfitIsConfirmed, BreakerFollowsBooks
<1> QED BY <1>1, InductiveInvariant, PTL

\* The tracker's promises, in the bot: the deque in order and bounded, and nothing lost
\* but under load.
THEOREM BotLosesOnlyUnderLoad == Spec => [](TrackerProofs!OldestFirst /\ TrackerProofs!LostOnlyUnderLoad)
<1>1. IInv => TrackerProofs!OldestFirst /\ TrackerProofs!LostOnlyUnderLoad
  BY DEF IInv, TrackerInv, TrackerProofs!IInv
<1> QED BY <1>1, InductiveInvariant, PTL

\* Every failure the bot books has a cause: the chain has failed the bundle, or it had
\* timed out when the poll asked. Other tasks never touch what the tracker judges from
\* (the executor's loop over outcomes, main.rs; poll, status_tracker.rs).
THEOREM BotFailuresJustified == Spec => TrackerProofs!FailuresHaveCause
<1>1. TrackerProofs!Spec => TrackerProofs!FailuresHaveCause
  BY ComponentAssumptions, TrackerProofs!FailuresJustified
<1> QED BY <1>1, BotRunsTracker, PTL

\* The breaker in the bot is exact about what the bot books: it is tripped if and only
\* if some window of booked outcomes lost more than the limit, drops no trade that
\* still counts, and its rolling P&L is that of the window.
THEOREM BotBreakerExact ==
  Spec => [](BreakerProofs!NothingInWindowDropped /\ BreakerProofs!TrippedIffBreached)
<1>1. IInv => BreakerProofs!NothingInWindowDropped /\ BreakerProofs!TrippedIffBreached
  <2>1. BreakerProofs!IInv => BreakerProofs!NothingInWindowDropped
    BY ComponentAssumptions, BreakerProofs!RollingExact
  <2> QED BY <2>1 DEF IInv, BooksInv, BreakerProofs!IInv
<1> QED BY <1>1, InductiveInvariant, PTL
==============================================================
