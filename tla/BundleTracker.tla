----------------------------- MODULE BundleTracker -----------------------------
(***************************************************************************)
(* BundleStatusTracker of crates/executor/src/status_tracker.rs, with the  *)
(* block engine it polls.                                                  *)
(*                                                                         *)
(* track and poll take &mut self, so the executor task never runs two of   *)
(* them at once; poll awaits the block engine's answer in the middle, and  *)
(* while it waits time passes and bundles make progress on the chain.      *)
(***************************************************************************)
EXTENDS Integers, Sequences, SeqFolds

CONSTANTS
  MaxPending,  \* max_pending
  Timeout,     \* timeout, in ticks of the model's clock
  Ids,         \* bundle ids the block engine hands out
  NoId,        \* the id "unknown": sendBundle answered without a string id
  Trades,      \* what the tracker keeps for the caller: strategy, profit, tip
  MaxNow,      \* bound: the last instant of the model's clock
  MaxTracked   \* bound: bundles tracked

ASSUME TrackerAssumption ==
  /\ MaxPending \in Nat \ {0}
  /\ Timeout \in Nat
  /\ NoId \notin Ids
  /\ MaxNow \in Nat
  /\ MaxTracked \in Nat

NotAsked == -1   \* no poll is waiting for an answer

VARIABLES
  now,       \* Instant::now()
  pending,   \* the deque of PendingBundle; n numbers the calls of track
  asked,     \* the instant the poll in flight has read before its await
  outcomes,  \* every BundleOutcome poll has returned, in order
  tracked,   \* the calls of track so far
  chain      \* external: what the block engine knows of each bundle id

trackerVars == <<pending, asked, outcomes, tracked, chain>>
vars == <<now, trackerVars>>

PendingBundles == [n : 1..MaxTracked, id : Ids \cup {NoId}, trade : Trades, at : 0..MaxNow]

\* "unsent" is the status of an id nobody holds yet.  An accepted bundle has no
\* status or one poll does not act on; "confirmed" stands for finalized too and
\* "failed" for rejected, and both are final.
Statuses == {"unsent", "accepted", "confirmed", "failed"}

Init ==
  /\ now = 0
  /\ pending = <<>>
  /\ asked = NotAsked
  /\ outcomes = <<>>
  /\ tracked = 0
  /\ chain = [id \in Ids |-> "unsent"]

\* The block engine accepted the bundle under an id, perhaps one it has given
\* out before: identical transactions make identical bundles.
Accepted(id) == [i \in Ids |-> IF i = id /\ chain[i] = "unsent" THEN "accepted" ELSE chain[i]]

MakeRoom_OneEarly ==
  IF pending # <<>> /\ Len(pending) >= MaxPending - 1 THEN Tail(pending) ELSE pending

MakeRoom ==
  IF pending # <<>> /\ Len(pending) >= MaxPending THEN Tail(pending) ELSE pending

Track(id, trade) ==
  /\ asked = NotAsked
  /\ tracked < MaxTracked
  /\ now + Timeout < MaxNow   \* bound: the clock can still reach the timeout
  /\ pending' = Append(MakeRoom, [n |-> tracked + 1, id |-> id, trade |-> trade, at |-> now])
  /\ tracked' = tracked + 1
  /\ chain' = Accepted(id)
  /\ UNCHANGED <<now, asked, outcomes>>

\* poll up to its await.
StartPoll ==
  /\ asked = NotAsked
  /\ pending # <<>>
  /\ asked' = now
  /\ UNCHANGED <<now, pending, outcomes, tracked, chain>>

PollError_DrainedEarly ==
  /\ asked # NotAsked
  /\ asked' = NotAsked
  /\ pending' = <<>>
  /\ UNCHANGED <<now, outcomes, tracked, chain>>

\* The request failed: the pending bundles stay for the next poll.
PollError ==
  /\ asked # NotAsked
  /\ asked' = NotAsked
  /\ UNCHANGED <<now, pending, outcomes, tracked, chain>>

TimedOut_Never(b) == FALSE
TimedOut(b) == asked - b.at > Timeout

\* The status the answer holds for a bundle: it lists the ids in `listed`.
StatusOf_AnyEntry(b, listed) ==
  IF listed = {} THEN "accepted" ELSE chain[CHOOSE id \in listed : TRUE]

StatusOf(b, listed) ==
  IF b.id \in listed THEN chain[b.id] ELSE "accepted"

Outcome_TimeoutStaysPending(b, listed) ==
  [n |-> b.n, id |-> b.id, trade |-> b.trade,
   kind |-> CASE StatusOf(b, listed) = "confirmed" -> "Landed"
              [] StatusOf(b, listed) = "failed" -> "Failed"
              [] OTHER -> "Pending"]

Outcome(b, listed) ==
  [n |-> b.n, id |-> b.id, trade |-> b.trade,
   kind |-> IF ~TimedOut(b) /\ StatusOf(b, listed) = "confirmed"
            THEN "Landed" ELSE "Failed"]

Settled(listed) ==
  {b \in {pending[i] : i \in 1..Len(pending)} :
     TimedOut(b) \/ StatusOf(b, listed) \in {"confirmed", "failed"}}

Unsettled(listed) == {pending[i] : i \in 1..Len(pending)} \ Settled(listed)

StillPending_FallThrough(listed) ==
  Retain(pending, {b \in {pending[i] : i \in 1..Len(pending)} :
                     StatusOf(b, listed) \notin {"confirmed", "failed"}})

StillPending_PushFront(listed) ==
  LET kept == Retain(pending, Unsettled(listed))
  IN  [i \in 1..Len(kept) |-> kept[Len(kept) + 1 - i]]

StillPending(listed) == Retain(pending, Unsettled(listed))

\* poll from the answer on: the timeout is tested first, with the instant read
\* before the await.
PollReply(listed) ==
  /\ asked # NotAsked
  /\ LET done == Retain(pending, Settled(listed))
     IN  outcomes' = outcomes \o [i \in 1..Len(done) |-> Outcome(done[i], listed)]
  /\ pending' = StillPending(listed)
  /\ asked' = NotAsked
  /\ UNCHANGED <<now, tracked, chain>>

\* External: an accepted bundle lands or fails, or nothing is ever heard of it.
Progress(id) ==
  /\ chain[id] = "accepted"
  /\ \E s \in {"confirmed", "failed"} : chain' = [chain EXCEPT ![id] = s]
  /\ UNCHANGED <<now, pending, asked, outcomes, tracked>>

Tick == now < MaxNow /\ now' = now + 1 /\ UNCHANGED trackerVars

Next ==
  \/ \E id \in Ids \cup {NoId}, trade \in Trades : Track(id, trade)
  \/ StartPoll
  \/ PollError
  \/ \E listed \in SUBSET Ids : PollReply(listed)
  \/ \E id \in Ids : Progress(id)
  \/ Tick

Spec == Init /\ [][Next]_vars

\* The caller polls on a timer, and every request ends; the block engine does
\* not fail every one of them for ever.
Fairness ==
  /\ WF_vars(Tick)
  /\ WF_vars(StartPoll)
  /\ SF_vars(\E listed \in SUBSET Ids : PollReply(listed))
  /\ WF_vars(PollError \/ \E listed \in SUBSET Ids : PollReply(listed))

FairSpec == Spec /\ Fairness

------------------------------------------------------------------------------
(* Properties *)

Outcomes == [n : 1..MaxTracked, id : Ids \cup {NoId}, trade : Trades,
             kind : {"Landed", "Failed"}]

\* Every variable keeps its type; a poll in flight has read the clock.
TypeOK ==
  /\ now \in 0..MaxNow
  /\ pending \in Seq(PendingBundles)
  /\ asked \in 0..now \cup {NotAsked}
  /\ outcomes \in Seq(Outcomes)
  /\ tracked \in 0..MaxTracked
  /\ chain \in [Ids -> Statuses]

\* The deque holds at most max_pending bundles, oldest first, through every
\* eviction and every rebuild by poll: what track evicts is the oldest.
OldestFirst ==
  /\ Len(pending) <= MaxPending
  /\ \A i, j \in 1..Len(pending) :
       i < j => pending[i].n < pending[j].n /\ pending[i].at <= pending[j].at

IsPending(n) == \E i \in 1..Len(pending) : pending[i].n = n
HasOutcome(n) == \E i \in 1..Len(outcomes) : outcomes[i].n = n

\* No bundle is reported twice, and none is reported while it is still being
\* polled: the caller books every outcome once.
OneOutcomeEach ==
  /\ \A i, j \in 1..Len(outcomes) : outcomes[i].n = outcomes[j].n => i = j
  /\ \A i \in 1..Len(outcomes) : ~IsPending(outcomes[i].n)

\* A bundle is reported landed only if the chain confirmed that very bundle.
LandedIsConfirmed ==
  \A i \in 1..Len(outcomes) :
    outcomes[i].kind = "Landed" =>
      /\ outcomes[i].id \in Ids
      /\ chain[outcomes[i].id] = "confirmed"

\* A bundle vanishes without an outcome only when max_pending younger ones have
\* been tracked: no poll, failed poll or timeout loses one.
LostOnlyUnderLoad ==
  \A n \in 1..tracked :
    ~IsPending(n) /\ ~HasOutcome(n) => n + MaxPending <= tracked

\* Every tracked bundle leaves the deque: it is settled, times out or is evicted,
\* even if the block engine never mentions it.
EveryBundleSettles == \A n \in 1..MaxTracked : IsPending(n) ~> ~IsPending(n)

\* What the comment on BundleOutcome::Failed says ("Bundle failed (dropped,
\* expired, or reverted)"): no bundle the chain has confirmed is reported failed.
FailedIsNotConfirmed ==
  [][\A i \in Len(outcomes) + 1..Len(outcomes') :
       outcomes'[i].kind = "Failed" /\ outcomes'[i].id \in Ids
         => chain[outcomes'[i].id] # "confirmed"]_vars

\* The fate of the n-th bundle, for the abstract ledger.
Fate(n) ==
  IF n > tracked THEN "new"
  ELSE IF IsPending(n) THEN "awaiting"
  ELSE IF ~HasOutcome(n) THEN "forgotten"
  ELSE IF \E i \in 1..Len(outcomes) : outcomes[i].n = n /\ outcomes[i].kind = "Landed"
       THEN "landed" ELSE "failed"

fate == [n \in 1..MaxTracked |-> Fate(n)]

Ledger == INSTANCE BundleLedger WITH Capacity <- MaxPending, MaxBundles <- MaxTracked

\* The tracker keeps the ledger's promise: one verdict per bundle, for good, and
\* only the oldest bundle of a full tracker is forgotten.
ImplementsLedger == Ledger!Spec
==============================================================================
