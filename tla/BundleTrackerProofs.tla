-------------------------- MODULE BundleTrackerProofs --------------------------
(***************************************************************************)
(* Proofs about BundleTracker: its types, the order of the deque, the      *)
(* bookkeeping of outcomes, and what may be lost.                          *)
(***************************************************************************)
EXTENDS BundleTracker, SeqFoldsProofs, FiniteSetTheorems

\* What relates the numbers and instants of bundles to the counters they were
\* taken from; the other parts need it to be inductive.
Numbered ==
  /\ \A i \in 1..Len(pending) : pending[i].n <= tracked /\ pending[i].at <= now
  /\ \A i \in 1..Len(outcomes) : outcomes[i].n <= tracked

IInv ==
  /\ TypeOK
  /\ OldestFirst
  /\ Numbered
  /\ OneOutcomeEach
  /\ LandedIsConfirmed
  /\ LostOnlyUnderLoad

\* The fields of a pending bundle are numbers within the bounds.
LEMMA BundleFields ==
  ASSUME NEW b \in PendingBundles
  PROVE  /\ b.n \in Nat /\ b.n \in 1..MaxTracked
         /\ b.id \in Ids \cup {NoId}
         /\ b.trade \in Trades
         /\ b.at \in Nat /\ b.at \in 0..MaxNow
BY TrackerAssumption DEF PendingBundles

\* The elements of the two sequences, and their lengths.
LEMMA Elements ==
  ASSUME TypeOK
  PROVE  /\ Len(pending) \in Nat
         /\ \A i \in 1..Len(pending) :
              /\ pending[i] \in PendingBundles
              /\ pending[i].n \in Nat /\ pending[i].n > 0 /\ pending[i].at \in Nat
         /\ Len(outcomes) \in Nat
         /\ \A i \in 1..Len(outcomes) :
              outcomes[i] \in Outcomes /\ outcomes[i].n \in Nat /\ outcomes[i].n > 0
         /\ tracked \in Nat /\ now \in Nat
<1>1. pending \in Seq(PendingBundles) /\ outcomes \in Seq(Outcomes)
  BY DEF TypeOK
<1>2. Len(pending) \in Nat /\ Len(outcomes) \in Nat
  BY <1>1, LenProperties
<1>3. \A i \in 1..Len(pending) : pending[i] \in PendingBundles
  BY <1>1, ElementOfSeq
<1>4. \A b \in PendingBundles : b.n \in Nat /\ b.n > 0 /\ b.at \in Nat
  BY TrackerAssumption DEF PendingBundles
<1>5. \A i \in 1..Len(outcomes) : outcomes[i] \in Outcomes
  BY <1>1, ElementOfSeq
<1>6. \A o \in Outcomes : o.n \in Nat /\ o.n > 0
  BY TrackerAssumption DEF Outcomes
<1>7. tracked \in Nat /\ now \in Nat
  BY TrackerAssumption DEF TypeOK
<1> QED BY <1>2, <1>3, <1>4, <1>5, <1>6, <1>7

\* A new tracker satisfies the invariant.
LEMMA InitInvariant == Init => IInv
<1> SUFFICES ASSUME Init PROVE IInv
  OBVIOUS
<1>1. /\ pending = <<>> /\ outcomes = <<>> /\ tracked = 0 /\ now = 0 /\ asked = NotAsked
      /\ Len(pending) = 0 /\ Len(outcomes) = 0
  BY DEF Init
<1>2. TypeOK
  <2>1. pending \in Seq(PendingBundles) /\ outcomes \in Seq(Outcomes)
    BY <1>1, EmptySeq
  <2>2. chain \in [Ids -> Statuses]
    BY DEF Init, Statuses
  <2> QED BY <1>1, <2>1, <2>2, TrackerAssumption DEF TypeOK
<1>3. OldestFirst /\ Numbered /\ OneOutcomeEach /\ LandedIsConfirmed /\ LostOnlyUnderLoad
  BY <1>1, TrackerAssumption
     DEF OldestFirst, Numbered, OneOutcomeEach, LandedIsConfirmed, LostOnlyUnderLoad
<1> QED BY <1>2, <1>3 DEF IInv

------------------------------------------------------------------------------
(* track *)

\* d bundles are evicted from the front, one if the deque is full; the new
\* bundle goes to the back.
LEMMA TrackStep ==
  ASSUME TypeOK, NEW id \in Ids \cup {NoId}, NEW trade \in Trades, Track(id, trade)
  PROVE  \E d \in {0, 1} :
           /\ d = 1 <=> Len(pending) >= MaxPending
           /\ Len(pending') = (Len(pending) - d) + 1
           /\ \A i \in 1..(Len(pending) - d) : pending'[i] = pending[i + d]
           /\ pending'[Len(pending')] = [n |-> tracked + 1, id |-> id, trade |-> trade, at |-> now]
           /\ pending' \in Seq(PendingBundles)
<1> DEFINE new == [n |-> tracked + 1, id |-> id, trade |-> trade, at |-> now]
           room == MakeRoom
<1>1. Len(pending) \in Nat /\ pending \in Seq(PendingBundles) /\ tracked \in Nat /\ now \in Nat
  BY Elements DEF TypeOK
<1>2. new \in PendingBundles
  <2>1. tracked + 1 \in 1..MaxTracked /\ now \in 0..MaxNow
    BY <1>1, TrackerAssumption DEF TypeOK, Track
  <2> QED BY <2>1 DEF PendingBundles
<1>3. pending' = Append(room, new)
  BY DEF Track
<1>4. PICK d \in {0, 1} :
        /\ d = 1 <=> Len(pending) >= MaxPending
        /\ room \in Seq(PendingBundles)
        /\ Len(room) = Len(pending) - d
        /\ \A i \in 1..Len(room) : room[i] = pending[i + d]
  <2>1. CASE Len(pending) >= MaxPending
    <3>1. pending # <<>>
      BY <2>1, TrackerAssumption
    <3>2. room = Tail(pending)
      BY <2>1, <3>1 DEF MakeRoom
    <3>3. /\ room \in Seq(PendingBundles)
          /\ Len(room) = Len(pending) - 1
          /\ \A i \in 1..Len(room) : room[i] = pending[i + 1]
      BY <1>1, <3>1, <3>2, HeadTailProperties
    <3> QED BY <2>1, <3>3
  <2>2. CASE ~(Len(pending) >= MaxPending)
    <3>1. room = pending
      BY <2>2 DEF MakeRoom
    <3>2. \A i \in 1..Len(room) : room[i] = pending[i + 0]
      BY <1>1, <3>1
    <3> QED BY <1>1, <2>2, <3>1, <3>2
  <2> QED BY <2>1, <2>2
<1> HIDE DEF new, room
<1>5. /\ pending' \in Seq(PendingBundles)
      /\ Len(pending') = Len(room) + 1
      /\ \A i \in 1..Len(room) : pending'[i] = room[i]
      /\ pending'[Len(room) + 1] = new
  BY <1>2, <1>3, <1>4, AppendProperties
<1>6. \A i \in 1..(Len(pending) - d) : pending'[i] = pending[i + d]
  BY <1>4, <1>5
<1> QED BY <1>4, <1>5, <1>6 DEF new

\* `track` keeps the types.
LEMMA TrackTypes ==
  ASSUME TypeOK, NEW id \in Ids \cup {NoId}, NEW trade \in Trades, Track(id, trade)
  PROVE  TypeOK'
<1>1. pending' \in Seq(PendingBundles)
  BY TrackStep
<1>2. tracked' \in 0..MaxTracked
  BY TrackerAssumption DEF TypeOK, Track
<1>3. chain' \in [Ids -> Statuses]
  BY DEF TypeOK, Track, Accepted, Statuses
<1>4. now' = now /\ asked' = asked /\ outcomes' = outcomes
  BY DEF Track
<1> QED BY <1>1, <1>2, <1>3, <1>4 DEF TypeOK

\* A deque in the order of the numbers that ends with at most t starts with at
\* most t - (its length - 1).
LEMMA OldestNumber ==
  ASSUME TypeOK, OldestFirst, Numbered, pending # <<>>
  PROVE  pending[1].n + Len(pending) <= tracked + 1
<1>0. /\ Len(pending) \in Nat /\ Len(pending) > 0 /\ tracked \in Nat
      /\ \A i \in 1..Len(pending) : pending[i].n \in Nat
  <2>1. Len(pending) > 0
    BY EmptySeq DEF TypeOK
  <2> QED BY <2>1, Elements
<1> DEFINE T == {k \in Nat : k < Len(pending) => pending[1].n + k <= pending[k + 1].n}
<1>1. 0 \in T
  BY <1>0
<1>2. ASSUME NEW k \in Nat, k \in T PROVE k + 1 \in T
  <2>1. k + 1 \in Nat
    OBVIOUS
  <2>2. SUFFICES ASSUME k + 1 < Len(pending)
                 PROVE  pending[1].n + (k + 1) <= pending[(k + 1) + 1].n
    BY <2>1, Zenon
  <2>3. pending[1].n + k <= pending[k + 1].n
    BY <1>0, <1>2, <2>2
  <2>4. k + 1 \in 1..Len(pending) /\ (k + 1) + 1 \in 1..Len(pending) /\ 1 \in 1..Len(pending)
        /\ k + 1 < (k + 1) + 1
    BY <1>0, <2>2
  <2>5. pending[k + 1].n < pending[(k + 1) + 1].n
    BY <2>4 DEF OldestFirst
  <2> QED BY <1>0, <2>3, <2>4, <2>5
<1>3. Len(pending) - 1 \in Nat
  BY <1>0
<1>4. Len(pending) - 1 \in T
  <2> HIDE DEF T
  <2> QED BY <1>1, <1>2, <1>3, SetInduction
<1>5. pending[1].n + (Len(pending) - 1) <= pending[Len(pending)].n
  <2>1. Len(pending) - 1 < Len(pending) /\ (Len(pending) - 1) + 1 = Len(pending)
    BY <1>0
  <2> QED BY <1>4, <2>1
<1>6. pending[Len(pending)].n <= tracked /\ Len(pending) \in 1..Len(pending)
      /\ 1 \in 1..Len(pending)
  BY <1>0 DEF Numbered
<1> QED BY <1>0, <1>5, <1>6

\* `track` keeps the invariant: what it evicts is old enough.
LEMMA TrackInvariant ==
  ASSUME IInv, NEW id \in Ids \cup {NoId}, NEW trade \in Trades, Track(id, trade)
  PROVE  IInv'
<1> USE DEF IInv
<1>1. PICK d \in {0, 1} :
        /\ d = 1 <=> Len(pending) >= MaxPending
        /\ Len(pending') = (Len(pending) - d) + 1
        /\ \A i \in 1..(Len(pending) - d) : pending'[i] = pending[i + d]
        /\ pending'[Len(pending')] = [n |-> tracked + 1, id |-> id, trade |-> trade, at |-> now]
        /\ pending' \in Seq(PendingBundles)
  BY TrackStep
<1>2. /\ Len(pending) \in Nat /\ tracked \in Nat /\ now \in Nat
      /\ \A i \in 1..Len(pending) : pending[i].n \in Nat /\ pending[i].at \in Nat
      /\ \A i \in 1..Len(outcomes) : outcomes[i].n \in Nat
      /\ Len(outcomes) \in Nat
      /\ MaxPending \in Nat /\ MaxPending > 0
  BY Elements, TrackerAssumption
<1>3. tracked' = tracked + 1 /\ outcomes' = outcomes /\ now' = now /\ chain' = Accepted(id)
  BY DEF Track
<1>4. TypeOK'
  BY TrackTypes
<1> DEFINE l == Len(pending) - d
<1>5. /\ Len(pending') = l + 1 /\ l \in Nat /\ l + 1 \in 1..(l + 1)
      /\ pending'[l + 1].n = tracked + 1 /\ pending'[l + 1].at = now
      /\ \A i \in 1..l : /\ i + d \in 1..Len(pending)
                         /\ pending'[i] = pending[i + d]
                         /\ pending'[i].n <= tracked /\ pending'[i].at <= now
      /\ \A i \in 1..(l + 1) : i \in 1..l \/ i = l + 1
  <2>1. l \in Nat
    BY <1>1, <1>2
  <2>2. \A i \in 1..l : i + d \in 1..Len(pending)
    BY <1>1, <1>2
  <2>3. \A i \in 1..Len(pending) : pending[i].n <= tracked /\ pending[i].at <= now
    BY DEF Numbered
  <2>4. pending'[l + 1].n = tracked + 1 /\ pending'[l + 1].at = now
    BY <1>1
  <2> QED BY <1>1, <2>1, <2>2, <2>3, <2>4
<1>6. OldestFirst'
  <2>1. Len(pending') <= MaxPending
    BY <1>1, <1>2, <1>5 DEF OldestFirst
  <2>2. ASSUME NEW i \in 1..(l + 1), NEW j \in 1..(l + 1), i < j
        PROVE  pending'[i].n < pending'[j].n /\ pending'[i].at <= pending'[j].at
    <3>1. i \in 1..l
      BY <1>5, <2>2
    <3>2. CASE j = l + 1
      <4>1. pending'[i].n \in Nat /\ pending'[i].n <= tracked /\ pending'[i].at <= now
        BY <1>2, <1>5, <3>1
      <4>2. pending'[j].n = tracked + 1 /\ pending'[j].at = now
        BY <1>5, <3>2
      <4> HIDE DEF l
      <4> QED BY <1>2, <4>1, <4>2
    <3>3. CASE j # l + 1
      <4>1. j \in 1..l /\ i + d < j + d
        BY <1>1, <1>5, <2>2, <3>3
      <4> QED BY <1>5, <3>1, <4>1 DEF OldestFirst
    <3> QED BY <3>2, <3>3
  <2> HIDE DEF l
  <2> QED BY <1>5, <2>1, <2>2 DEF OldestFirst
<1>7. Numbered'
  <2>1. \A i \in 1..(l + 1) : pending'[i].n <= tracked + 1 /\ pending'[i].at <= now
    <3> SUFFICES ASSUME NEW i \in 1..(l + 1)
                 PROVE  pending'[i].n <= tracked + 1 /\ pending'[i].at <= now
      OBVIOUS
    <3>1. CASE i = l + 1
      BY <1>2, <1>5, <3>1
    <3>2. CASE i \in 1..l
      <4>1. pending'[i].n \in Nat
        BY <1>2, <1>5, <3>2
      <4> QED BY <1>2, <1>5, <3>2, <4>1
    <3> QED BY <1>5, <3>1, <3>2
  <2>2. \A i \in 1..Len(outcomes) : outcomes[i].n <= tracked + 1
    BY <1>2 DEF Numbered
  <2> HIDE DEF l
  <2> QED BY <1>3, <1>5, <2>1, <2>2 DEF Numbered
<1>8. OneOutcomeEach'
  <2>1. ASSUME NEW i \in 1..Len(outcomes), NEW k \in 1..(l + 1), pending'[k].n = outcomes[i].n
        PROVE  FALSE
    <3>1. CASE k = l + 1
      <4>1. outcomes[i].n <= tracked /\ outcomes[i].n \in Nat
        BY <1>2 DEF Numbered
      <4> QED BY <1>2, <1>5, <2>1, <3>1, <4>1
    <3>2. CASE k \in 1..l
      BY <1>5, <2>1, <3>2, SMTT(30) DEF OneOutcomeEach, IsPending
    <3> QED BY <1>5, <3>1, <3>2
  <2> HIDE DEF l
  <2> QED BY <1>3, <1>5, <2>1 DEF OneOutcomeEach, IsPending
<1>9. LandedIsConfirmed'
  <2>1. \A x \in Ids : chain[x] = "confirmed" => chain'[x] = "confirmed"
    BY <1>3 DEF Accepted
  <2> QED BY <1>3, <2>1 DEF LandedIsConfirmed
<1>10. LostOnlyUnderLoad'
  <2> SUFFICES ASSUME NEW n \in 1..(tracked + 1),
                      \A k \in 1..(l + 1) : pending'[k].n # n,
                      ~HasOutcome(n)
               PROVE  n + MaxPending <= tracked + 1
    <3> HIDE DEF l
    <3> QED BY <1>3, <1>5 DEF LostOnlyUnderLoad, IsPending, HasOutcome
  <2>1. n \in 1..tracked
    BY <1>2, <1>5
  <2>2. CASE IsPending(n)
    <3>1. PICK k \in 1..Len(pending) : pending[k].n = n
      BY <2>2 DEF IsPending
    <3>2. ~(k - d \in 1..l)
      <4>1. ASSUME k - d \in 1..l PROVE FALSE
        <5>1. (k - d) + d = k /\ k - d \in 1..(l + 1)
          BY <1>1, <1>5, <4>1
        <5> QED BY <1>5, <3>1, <4>1, <5>1
      <4> QED BY <4>1
    <3>3. d = 1 /\ k = 1 /\ Len(pending) >= MaxPending
      BY <1>1, <1>2, <3>2
    <3>4. pending # <<>>
      BY <1>2, <3>3
    <3>5. pending[1].n + Len(pending) <= tracked + 1
      BY <3>4, OldestNumber
    <3> QED BY <1>2, <3>1, <3>3, <3>5
  <2>3. CASE ~IsPending(n)
    BY <1>2, <2>1, <2>3 DEF LostOnlyUnderLoad
  <2> QED BY <2>2, <2>3
<1> QED BY <1>4, <1>6, <1>7, <1>8, <1>9, <1>10

------------------------------------------------------------------------------
(* poll *)

\* The answer shares the deque out: the unsettled bundles stay, and the settled
\* ones get an outcome each, in the order of the deque.
LEMMA PollStep ==
  ASSUME TypeOK, NEW listed \in SUBSET Ids, PollReply(listed)
  PROVE  \E done, e, f :
           /\ Splits(pending, pending', done, e, f)
           /\ pending' \in Seq(PendingBundles)
           /\ outcomes' \in Seq(Outcomes)
           /\ Len(outcomes) \in Nat
           /\ Len(outcomes') = Len(outcomes) + Len(done)
           /\ \A i \in 1..Len(outcomes) : outcomes'[i] = outcomes[i]
           /\ \A i \in 1..Len(done) : outcomes'[Len(outcomes) + i] = Outcome(done[i], listed)
           /\ \A i \in 1..Len(done) : done[i] \in Settled(listed)
<1> DEFINE done == Retain(pending, Settled(listed))
           new == [i \in 1..Len(done) |-> Outcome(done[i], listed)]
<1>1. pending \in Seq(PendingBundles) /\ outcomes \in Seq(Outcomes) /\ Len(outcomes) \in Nat
  BY Elements DEF TypeOK
<1>2. pending' = Retain(pending, Unsettled(listed)) /\ outcomes' = outcomes \o new
  BY DEF PollReply, StillPending
<1>3. PICK e, f : Splits(pending, pending', done, e, f)
  <2>1. \A k \in 1..Len(pending) :
          pending[k] \in Unsettled(listed) <=> pending[k] \notin Settled(listed)
    BY DEF Unsettled
  <2> QED BY <1>1, <1>2, <2>1, RetainSplits
<1>4. /\ done \in Seq(PendingBundles) /\ Len(done) \in Nat
      /\ \A i \in 1..Len(done) : done[i] \in Settled(listed)
  BY <1>1, RetainElements
<1>5. pending' \in Seq(PendingBundles)
  BY <1>1, <1>2, RetainElements
<1> HIDE DEF done
<1>6. new \in Seq(Outcomes) /\ Len(new) = Len(done)
  <2>1. \A i \in 1..Len(done) : Outcome(done[i], listed) \in Outcomes
    <3> SUFFICES ASSUME NEW i \in 1..Len(done) PROVE Outcome(done[i], listed) \in Outcomes
      OBVIOUS
    <3>1. done[i] \in PendingBundles
      BY <1>4, ElementOfSeq
    <3>2. done[i].n \in 1..MaxTracked /\ done[i].id \in Ids \cup {NoId} /\ done[i].trade \in Trades
      BY <3>1, BundleFields
    <3> QED BY <3>2, Zenon DEF Outcome, Outcomes
  <2> HIDE DEF new
  <2>2. new = [i \in 1..Len(done) |-> Outcome(done[i], listed)]
    BY DEF new
  <2> QED BY <1>4, <2>1, <2>2
<1>7. \A i \in 1..Len(done) : new[i] = Outcome(done[i], listed)
  OBVIOUS
<1> HIDE DEF new
<1>8. /\ outcomes' \in Seq(Outcomes)
      /\ Len(outcomes') = Len(outcomes) + Len(new)
      /\ \A i \in 1..(Len(outcomes) + Len(new)) :
           outcomes'[i] = IF i <= Len(outcomes) THEN outcomes[i] ELSE new[i - Len(outcomes)]
  BY <1>1, <1>2, <1>6, ConcatProperties, ZenonT(30)
<1>9. \A i \in 1..Len(outcomes) : outcomes'[i] = outcomes[i]
  BY <1>1, <1>4, <1>6, <1>8
<1>10. \A i \in 1..Len(done) : outcomes'[Len(outcomes) + i] = Outcome(done[i], listed)
  <2> SUFFICES ASSUME NEW i \in 1..Len(done)
               PROVE  outcomes'[Len(outcomes) + i] = new[i]
    BY <1>7
  <2>1. /\ Len(outcomes) + i \in 1..(Len(outcomes) + Len(new))
        /\ ~(Len(outcomes) + i <= Len(outcomes))
        /\ (Len(outcomes) + i) - Len(outcomes) = i
    BY <1>1, <1>4, <1>6
  <2> QED BY <1>8, <2>1
<1>11. Len(outcomes') = Len(outcomes) + Len(done)
  BY <1>6, <1>8
<1> QED BY <1>1, <1>3, <1>4, <1>5, <1>8, <1>9, <1>10, <1>11

\* An answered `poll` keeps the invariant: deque and outcomes share the old deque out.
LEMMA PollInvariant ==
  ASSUME IInv, NEW listed \in SUBSET Ids, PollReply(listed)
  PROVE  IInv'
<1>0. /\ TypeOK /\ OldestFirst /\ Numbered /\ OneOutcomeEach
      /\ LandedIsConfirmed /\ LostOnlyUnderLoad
  BY DEF IInv
<1>1. PICK done, e, f :
        /\ Splits(pending, pending', done, e, f)
        /\ pending' \in Seq(PendingBundles)
        /\ outcomes' \in Seq(Outcomes)
        /\ Len(outcomes) \in Nat
        /\ Len(outcomes') = Len(outcomes) + Len(done)
        /\ \A i \in 1..Len(outcomes) : outcomes'[i] = outcomes[i]
        /\ \A i \in 1..Len(done) : outcomes'[Len(outcomes) + i] = Outcome(done[i], listed)
  BY <1>0, PollStep
<1>2. /\ Len(pending) \in Nat /\ Len(outcomes) \in Nat
      /\ Len(pending') \in Nat /\ Len(pending') <= Len(pending)
      /\ Len(done) \in Nat
      /\ \A i \in 1..Len(pending') :
           e[i] \in 1..Len(pending) /\ pending'[i] = pending[e[i]]
      /\ \A i, j \in 1..Len(pending') : i < j => e[i] < e[j]
      /\ \A i \in 1..Len(done) : f[i] \in 1..Len(pending) /\ done[i] = pending[f[i]]
      /\ \A i, j \in 1..Len(done) : i < j => f[i] < f[j]
      /\ \A k \in 1..Len(pending) :
           \/ \E i \in 1..Len(pending') : e[i] = k
           \/ \E i \in 1..Len(done) : f[i] = k
      /\ \A i \in 1..Len(pending') : \A j \in 1..Len(done) : e[i] # f[j]
  BY <1>1 DEF Splits
\* A new outcome is about a bundle that was pending until now.
<1>3. \A i \in 1..Len(outcomes') :
        \/ i \in 1..Len(outcomes) /\ outcomes'[i] = outcomes[i]
        \/ /\ i - Len(outcomes) \in 1..Len(done)
           /\ outcomes'[i] = Outcome(done[i - Len(outcomes)], listed)
           /\ outcomes'[i].n = pending[f[i - Len(outcomes)]].n
  <2> SUFFICES ASSUME NEW i \in 1..Len(outcomes'), ~(i <= Len(outcomes))
               PROVE  /\ i - Len(outcomes) \in 1..Len(done)
                      /\ outcomes'[i] = Outcome(done[i - Len(outcomes)], listed)
                      /\ outcomes'[i].n = pending[f[i - Len(outcomes)]].n
    BY <1>1, <1>2
  <2> DEFINE k == i - Len(outcomes)
  <2>1. k \in 1..Len(done) /\ Len(outcomes) + k = i
    BY <1>1, <1>2
  <2> HIDE DEF k
  <2>2. outcomes'[i] = Outcome(done[k], listed)
    BY <1>1, <2>1
  <2>3. outcomes'[i].n = pending[f[k]].n
    BY <1>2, <2>1, <2>2 DEF Outcome
  <2> QED BY <2>1, <2>2, <2>3 DEF k
<1>4. now' = now /\ tracked' = tracked /\ chain' = chain /\ asked' = NotAsked
  BY DEF PollReply
<1>5. \A i \in 1..Len(pending) : pending[i].n \in Nat /\ pending[i].n <= tracked /\ pending[i].at <= now
  BY <1>0, Elements DEF Numbered
\* Positions of the deque are determined by the bundle's number.
<1>6. \A k, m \in 1..Len(pending) : pending[k].n = pending[m].n => k = m
  <2> SUFFICES ASSUME NEW k \in 1..Len(pending), NEW m \in 1..Len(pending),
                      pending[k].n = pending[m].n, k # m
               PROVE  FALSE
    OBVIOUS
  <2>1. k < m \/ m < k
    BY <1>2
  <2> QED BY <1>0, <1>5, <2>1 DEF OldestFirst
<1>7. TypeOK'
  <2>1. pending' \in Seq(PendingBundles) /\ outcomes' \in Seq(Outcomes)
    BY <1>1
  <2> QED BY <1>0, <1>4, <2>1 DEF TypeOK
<1>8. OldestFirst'
  <2>1. Len(pending') <= MaxPending
    BY <1>0, <1>2, TrackerAssumption DEF OldestFirst
  <2>2. \A i, j \in 1..Len(pending') :
          i < j => pending'[i].n < pending'[j].n /\ pending'[i].at <= pending'[j].at
    <3> SUFFICES ASSUME NEW i \in 1..Len(pending'), NEW j \in 1..Len(pending'), i < j
                 PROVE  pending'[i].n < pending'[j].n /\ pending'[i].at <= pending'[j].at
      OBVIOUS
    <3>1. /\ e[i] \in 1..Len(pending) /\ e[j] \in 1..Len(pending) /\ e[i] < e[j]
          /\ pending'[i] = pending[e[i]] /\ pending'[j] = pending[e[j]]
      BY <1>2
    <3> QED BY <1>0, <3>1 DEF OldestFirst
  <2> QED BY <2>1, <2>2 DEF OldestFirst
<1>9. Numbered'
  <2>1. \A i \in 1..Len(pending') : pending'[i].n <= tracked /\ pending'[i].at <= now
    BY <1>2, <1>5
  <2>2. \A i \in 1..Len(outcomes') : outcomes'[i].n <= tracked
    BY <1>0, <1>2, <1>3, <1>5 DEF Numbered
  <2> QED BY <1>4, <2>1, <2>2 DEF Numbered
<1>10. OneOutcomeEach'
  <2>1. /\ \A i, j \in 1..Len(outcomes) : outcomes[i].n = outcomes[j].n => i = j
        /\ \A i \in 1..Len(outcomes) : \A k \in 1..Len(pending) : pending[k].n # outcomes[i].n
    BY <1>0 DEF OneOutcomeEach, IsPending
  <2>2. ASSUME NEW k \in 1..Len(done), NEW m \in 1..Len(done), pending[f[k]].n = pending[f[m]].n
        PROVE  k = m
    <3>1. f[k] \in 1..Len(pending) /\ f[m] \in 1..Len(pending)
      BY <1>2
    <3>2. f[k] = f[m]
      BY <1>6, <2>2, <3>1
    <3>3. k < m => f[k] < f[m]
      BY <1>2
    <3>4. m < k => f[m] < f[k]
      BY <1>2
    <3> QED BY <3>1, <3>2, <3>3, <3>4
  <2>3. ASSUME NEW i \in 1..Len(outcomes'), NEW j \in 1..Len(outcomes'),
               outcomes'[i].n = outcomes'[j].n
        PROVE  i = j
    <3> DEFINE k == i - Len(outcomes)
               m == j - Len(outcomes)
    <3>1. \/ i \in 1..Len(outcomes) /\ outcomes'[i] = outcomes[i]
          \/ k \in 1..Len(done) /\ f[k] \in 1..Len(pending) /\ outcomes'[i].n = pending[f[k]].n
      BY <1>2, <1>3
    <3>2. \/ j \in 1..Len(outcomes) /\ outcomes'[j] = outcomes[j]
          \/ m \in 1..Len(done) /\ f[m] \in 1..Len(pending) /\ outcomes'[j].n = pending[f[m]].n
      BY <1>2, <1>3
    <3>3. k = m => i = j
      BY <1>2
    <3> HIDE DEF k, m
    <3> QED BY <2>1, <2>2, <2>3, <3>1, <3>2, <3>3
  <2>4. ASSUME NEW i \in 1..Len(outcomes'), NEW j \in 1..Len(pending'),
               pending'[j].n = outcomes'[i].n
        PROVE  FALSE
    <3> DEFINE k == i - Len(outcomes)
    <3>1. e[j] \in 1..Len(pending) /\ pending'[j].n = pending[e[j]].n
      BY <1>2
    <3>2. \/ i \in 1..Len(outcomes) /\ outcomes'[i] = outcomes[i]
          \/ k \in 1..Len(done) /\ f[k] \in 1..Len(pending) /\ outcomes'[i].n = pending[f[k]].n
      BY <1>2, <1>3
    <3> HIDE DEF k
    <3>3. k \in 1..Len(done) => e[j] # f[k]
      BY <1>2
    <3> QED BY <1>6, <2>1, <2>4, <3>1, <3>2, <3>3
  <2> QED BY <2>3, <2>4 DEF OneOutcomeEach, IsPending
<1>11. LandedIsConfirmed'
  <2> SUFFICES ASSUME NEW i \in 1..Len(outcomes'), outcomes'[i].kind = "Landed"
               PROVE  outcomes'[i].id \in Ids /\ chain[outcomes'[i].id] = "confirmed"
    BY <1>4 DEF LandedIsConfirmed
  <2>1. CASE i \in 1..Len(outcomes) /\ outcomes'[i] = outcomes[i]
    BY <1>0, <2>1 DEF LandedIsConfirmed
  <2>2. CASE outcomes'[i] = Outcome(done[i - Len(outcomes)], listed)
    <3> DEFINE b == done[i - Len(outcomes)]
    <3> HIDE DEF b
    <3>1. outcomes'[i].kind = (IF ~TimedOut(b) /\ StatusOf(b, listed) = "confirmed"
                               THEN "Landed" ELSE "Failed")
          /\ outcomes'[i].id = b.id
      BY <2>2 DEF Outcome, b
    <3>2. StatusOf(b, listed) = "confirmed"
      BY <3>1
    <3>3. b.id \in listed /\ chain[b.id] = "confirmed"
      BY <3>2 DEF StatusOf
    <3> QED BY <3>1, <3>3
  <2> QED BY <1>3, <2>1, <2>2
<1>12. LostOnlyUnderLoad'
  <2> SUFFICES ASSUME NEW n \in 1..tracked, ~IsPending(n)', ~HasOutcome(n)'
               PROVE  n + MaxPending <= tracked
    BY <1>4 DEF LostOnlyUnderLoad
  <2>1. ~HasOutcome(n)
    <3>1. ASSUME NEW i \in 1..Len(outcomes), outcomes[i].n = n PROVE FALSE
      <4>1. i \in 1..Len(outcomes') /\ outcomes'[i] = outcomes[i]
        BY <1>1, <1>2
      <4> QED BY <3>1, <4>1 DEF HasOutcome
    <3> QED BY <3>1 DEF HasOutcome
  <2>2. ~IsPending(n)
    <3>1. ASSUME NEW k \in 1..Len(pending), pending[k].n = n PROVE FALSE
      <4>1. CASE \E i \in 1..Len(pending') : e[i] = k
        BY <1>2, <3>1, <4>1 DEF IsPending
      <4>2. CASE \E i \in 1..Len(done) : f[i] = k
        <5>1. PICK i \in 1..Len(done) : f[i] = k
          BY <4>2
        <5>2. /\ Len(outcomes) + i \in 1..Len(outcomes')
              /\ outcomes'[Len(outcomes) + i] = Outcome(done[i], listed)
          BY <1>1, <1>2
        <5>3. outcomes'[Len(outcomes) + i].n = n
          BY <1>2, <3>1, <5>1, <5>2 DEF Outcome
        <5> QED BY <5>2, <5>3 DEF HasOutcome
      <4> QED BY <1>2, <4>1, <4>2
    <3> QED BY <3>1 DEF IsPending
  <2> QED BY <1>0, <2>1, <2>2 DEF LostOnlyUnderLoad
<1> QED BY <1>7, <1>8, <1>9, <1>10, <1>11, <1>12 DEF IInv

------------------------------------------------------------------------------
(* The invariant *)

\* The steps that leave the deque and the outcomes alone: time passes, a bundle
\* makes progress on the chain, a poll starts or fails.
LEMMA QuietInvariant ==
  ASSUME IInv,
         pending' = pending, outcomes' = outcomes, tracked' = tracked,
         now' \in now..MaxNow,
         asked' \in 0..now' \cup {NotAsked},
         chain' \in [Ids -> Statuses],
         \A id \in Ids : chain[id] = "confirmed" => chain'[id] = "confirmed"
  PROVE  IInv'
<1>1. TypeOK'
  <2>1. now' \in 0..MaxNow
    BY Elements DEF IInv
  <2> QED BY <2>1 DEF IInv, TypeOK
<1>2. OldestFirst' /\ OneOutcomeEach' /\ LostOnlyUnderLoad'
  BY DEF IInv, OldestFirst, OneOutcomeEach, LostOnlyUnderLoad, IsPending, HasOutcome
<1>3. Numbered'
  <2>1. /\ \A i \in 1..Len(pending) : pending[i].at <= now /\ pending[i].at \in Nat
        /\ now \in Nat /\ now' \in Nat /\ now <= now'
    BY Elements DEF IInv, Numbered
  <2>2. \A i \in 1..Len(pending) : pending[i].at <= now'
    BY <2>1
  <2> QED BY <2>2 DEF IInv, Numbered
<1>4. LandedIsConfirmed'
  BY DEF IInv, LandedIsConfirmed
<1> QED BY <1>1, <1>2, <1>3, <1>4 DEF IInv

\* Every step keeps the invariant.
LEMMA NextInvariant == IInv /\ [Next]_vars => IInv'
<1> SUFFICES ASSUME IInv, [Next]_vars PROVE IInv'
  OBVIOUS
<1>0. /\ now \in 0..MaxNow /\ asked \in 0..now \cup {NotAsked}
      /\ chain \in [Ids -> Statuses] /\ MaxNow \in Nat
  BY TrackerAssumption DEF IInv, TypeOK
<1>1. ASSUME NEW id \in Ids \cup {NoId}, NEW trade \in Trades, Track(id, trade)
      PROVE  IInv'
  BY <1>1, TrackInvariant
<1>2. CASE StartPoll
  BY <1>0, <1>2, QuietInvariant DEF StartPoll
<1>3. CASE PollError
  BY <1>0, <1>3, QuietInvariant DEF PollError
<1>4. ASSUME NEW listed \in SUBSET Ids, PollReply(listed) PROVE IInv'
  BY <1>4, PollInvariant
<1>5. ASSUME NEW id \in Ids, Progress(id) PROVE IInv'
  <2>1. /\ chain[id] = "accepted"
        /\ UNCHANGED <<now, pending, asked, outcomes, tracked>>
    BY <1>5 DEF Progress
  <2>2. PICK s \in {"confirmed", "failed"} : chain' = [chain EXCEPT ![id] = s]
    BY <1>5 DEF Progress
  <2>3. chain' \in [Ids -> Statuses]
    BY <1>0, <2>2 DEF Statuses
  <2>4. \A x \in Ids : chain[x] = "confirmed" => chain'[x] = "confirmed"
    BY <1>0, <2>1, <2>2
  <2> QED BY <1>0, <2>1, <2>3, <2>4, QuietInvariant
<1>6. CASE Tick
  <2>1. now' = now + 1 /\ now < MaxNow /\ UNCHANGED trackerVars
    BY <1>6 DEF Tick
  <2>2. now' \in now..MaxNow /\ asked' \in 0..now' \cup {NotAsked}
    BY <1>0, <2>1 DEF trackerVars
  <2> QED BY <1>0, <2>1, <2>2, QuietInvariant DEF trackerVars
<1>7. CASE UNCHANGED vars
  BY <1>0, <1>7, QuietInvariant DEF vars, trackerVars
<1> QED BY <1>1, <1>2, <1>3, <1>4, <1>5, <1>6, <1>7 DEF Next

\* The invariant holds in every reachable state of the tracker.
THEOREM InductiveInvariant == Spec => []IInv
BY InitInvariant, NextInvariant, PTL DEF Spec

\* The tracker's variables keep their types.
THEOREM TrackerTypes == Spec => []TypeOK
<1>1. IInv => TypeOK
  BY DEF IInv
<1> QED BY <1>1, InductiveInvariant, PTL

\* Through every eviction and every rebuild by poll the deque is within its
\* bound and in the order of the calls of track.
THEOREM DequeOrdered == Spec => []OldestFirst
<1>1. IInv => OldestFirst
  BY DEF IInv
<1> QED BY <1>1, InductiveInvariant, PTL

\* No bundle is reported twice, or reported and still polled.
THEOREM OutcomesUnique == Spec => []OneOutcomeEach
<1>1. IInv => OneOutcomeEach
  BY DEF IInv
<1> QED BY <1>1, InductiveInvariant, PTL

\* A bundle reported landed is one the chain confirmed.
THEOREM LandedSound == Spec => []LandedIsConfirmed
<1>1. IInv => LandedIsConfirmed
  BY DEF IInv
<1> QED BY <1>1, InductiveInvariant, PTL

\* A bundle is lost only when max_pending younger ones have been tracked.
THEOREM LossBounded == Spec => []LostOnlyUnderLoad
<1>1. IInv => LostOnlyUnderLoad
  BY DEF IInv
<1> QED BY <1>1, InductiveInvariant, PTL

------------------------------------------------------------------------------
(* Why a bundle is reported failed *)

\* What justifies a failure to a caller: the poll asked after the timeout, or the
\* chain has failed that very bundle.
CauseToFail(b) ==
  \/ asked - b.at > Timeout
  \/ b.id \in Ids /\ chain[b.id] = "failed"

\* A new failure is about a bundle that was being polled, and has such a cause.
FailuresHaveCause ==
  [][\A i \in Len(outcomes) + 1..Len(outcomes') :
       outcomes'[i].kind = "Failed"
         => \E k \in 1..Len(pending) :
              /\ outcomes'[i].n = pending[k].n /\ outcomes'[i].id = pending[k].id
              /\ CauseToFail(pending[k])]_vars

\* An answered `poll` has a cause for every failure it returns.
LEMMA PollHasCause ==
  ASSUME TypeOK, NEW listed \in SUBSET Ids, PollReply(listed),
         NEW i \in Len(outcomes) + 1..Len(outcomes'), outcomes'[i].kind = "Failed"
  PROVE  \E k \in 1..Len(pending) :
           /\ outcomes'[i].n = pending[k].n /\ outcomes'[i].id = pending[k].id
           /\ CauseToFail(pending[k])
<1>1. PICK done, e, f :
        /\ Splits(pending, pending', done, e, f)
        /\ Len(outcomes) \in Nat
        /\ Len(outcomes') = Len(outcomes) + Len(done)
        /\ \A j \in 1..Len(done) : outcomes'[Len(outcomes) + j] = Outcome(done[j], listed)
        /\ \A j \in 1..Len(done) : done[j] \in Settled(listed)
  BY PollStep
<1>2. PICK j : j = i - Len(outcomes)
  OBVIOUS
<1>3. Len(done) \in Nat
  BY <1>1 DEF Splits
<1>4. j \in 1..Len(done) /\ outcomes'[i] = Outcome(done[j], listed)
  <2>1. j \in 1..Len(done) /\ Len(outcomes) + j = i
    BY <1>1, <1>2, <1>3
  <2> QED BY <1>1, <2>1
<1>5. PICK k \in 1..Len(pending) : done[j] = pending[k]
  BY <1>1, <1>4 DEF Settled
<1>6. TimedOut(done[j]) \/ StatusOf(done[j], listed) \in {"confirmed", "failed"}
  BY <1>1, <1>4 DEF Settled
<1>7. /\ outcomes'[i].n = pending[k].n
      /\ outcomes'[i].id = pending[k].id
      /\ outcomes'[i].kind = (IF ~TimedOut(done[j]) /\ StatusOf(done[j], listed) = "confirmed"
                              THEN "Landed" ELSE "Failed")
  <2>1. outcomes'[i].n = done[j].n /\ outcomes'[i].id = done[j].id
    BY <1>4 DEF Outcome
  <2>2. outcomes'[i].kind = (IF ~TimedOut(done[j]) /\ StatusOf(done[j], listed) = "confirmed"
                             THEN "Landed" ELSE "Failed")
    BY <1>4 DEF Outcome
  <2> QED BY <1>5, <2>1, <2>2
<1>8. CASE TimedOut(done[j])
  BY <1>5, <1>7, <1>8 DEF TimedOut, CauseToFail
<1>9. CASE ~TimedOut(done[j])
  <2>1. StatusOf(done[j], listed) = "failed"
    BY <1>6, <1>7, <1>9
  <2>2. done[j].id \in listed /\ chain[done[j].id] = "failed"
    BY <2>1 DEF StatusOf
  <2> QED BY <1>5, <1>7, <2>2 DEF CauseToFail
<1> QED BY <1>8, <1>9

\* The other side of what FailedIsNotConfirmed shows to go wrong: a bundle is
\* reported failed only because the chain has failed it or because it had timed
\* out when the poll asked, so a confirmed bundle is misreported only when late.
THEOREM FailuresJustified == Spec => FailuresHaveCause
<1> DEFINE Justified ==
             \A i \in Len(outcomes) + 1..Len(outcomes') :
               outcomes'[i].kind = "Failed"
                 => \E k \in 1..Len(pending) :
                      /\ outcomes'[i].n = pending[k].n /\ outcomes'[i].id = pending[k].id
                      /\ CauseToFail(pending[k])
<1>1. TypeOK /\ [Next]_vars => [Justified]_vars
  <2> SUFFICES ASSUME TypeOK, Next PROVE Justified
    BY DEF vars
  <2>1. CASE \E listed \in SUBSET Ids : PollReply(listed)
    BY <2>1, PollHasCause
  <2>2. CASE ~\E listed \in SUBSET Ids : PollReply(listed)
    <3>1. outcomes' = outcomes
      BY <2>2 DEF Next, Track, StartPoll, PollError, Progress, Tick, trackerVars
    <3>2. Len(outcomes) \in Nat
      BY Elements DEF TypeOK
    <3> QED BY <3>1, <3>2
  <2> QED BY <2>1, <2>2
<1> QED BY <1>1, TrackerTypes, PTL DEF Spec, FailuresHaveCause

------------------------------------------------------------------------------
(* The ledger *)

\* Fate, of the variables' values.
Numbers(s) == {s[i].n : i \in 1..Len(s)}
LandedIn(o, n) == \E i \in 1..Len(o) : o[i].n = n /\ o[i].kind = "Landed"
FateIn(p, o, t, n) ==
  IF n > t THEN "new"
  ELSE IF n \in Numbers(p) THEN "awaiting"
  ELSE IF n \notin Numbers(o) THEN "forgotten"
  ELSE IF LandedIn(o, n) THEN "landed" ELSE "failed"

\* The mapped variable, before and after a step.
LEMMA FateValues ==
  /\ fate = [n \in 1..MaxTracked |-> FateIn(pending, outcomes, tracked, n)]
  /\ fate' = [n \in 1..MaxTracked |-> FateIn(pending', outcomes', tracked', n)]
<1>1. \A n : IsPending(n) <=> n \in Numbers(pending)
  BY DEF IsPending, Numbers
<1>2. \A n : HasOutcome(n) <=> n \in Numbers(outcomes)
  BY DEF HasOutcome, Numbers
<1>3. \A n : Fate(n) = FateIn(pending, outcomes, tracked, n)
  BY <1>1, <1>2 DEF Fate, FateIn, LandedIn
<1>4. fate = [n \in 1..MaxTracked |-> FateIn(pending, outcomes, tracked, n)]
  BY <1>3 DEF fate
<1>5. fate' = [n \in 1..MaxTracked |-> FateIn(pending', outcomes', tracked', n)]
  <2>1. \A n : (\E i \in 1..Len(pending') : pending'[i].n = n) <=> n \in Numbers(pending')
    BY DEF Numbers
  <2>2. \A n : (\E i \in 1..Len(outcomes') : outcomes'[i].n = n) <=> n \in Numbers(outcomes')
    BY DEF Numbers
  <2> QED BY <2>1, <2>2 DEF fate, Fate, FateIn, LandedIn, IsPending, HasOutcome
<1> QED BY <1>4, <1>5

\* The ledger sees as many bundles waiting as the deque holds.
LEMMA AwaitingCount ==
  ASSUME IInv
  PROVE  /\ {n \in 1..MaxTracked : fate[n] = "awaiting"} = Numbers(pending)
         /\ Cardinality(Numbers(pending)) = Len(pending)
<1> DEFINE I == 1..Len(pending)
           num == [i \in I |-> pending[i].n]
<1>0. /\ Len(pending) \in Nat /\ tracked \in 0..MaxTracked /\ MaxTracked \in Nat
      /\ \A i \in I : pending[i].n \in 1..MaxTracked /\ pending[i].n <= tracked
  <2>1. \A i \in I : pending[i].n \in 1..MaxTracked
    BY Elements, BundleFields DEF IInv
  <2> QED BY <2>1, Elements, TrackerAssumption DEF IInv, Numbered, TypeOK
<1>1. \A n \in 1..MaxTracked : fate[n] = "awaiting" <=> n \in Numbers(pending)
  <2> SUFFICES ASSUME NEW n \in 1..MaxTracked
               PROVE  fate[n] = "awaiting" <=> n \in Numbers(pending)
    OBVIOUS
  <2>1. fate[n] = FateIn(pending, outcomes, tracked, n)
    BY FateValues
  <2>2. n \in Numbers(pending) => ~(n > tracked)
    BY <1>0 DEF Numbers
  <2> QED BY <2>1, <2>2 DEF FateIn
<1>2. {n \in 1..MaxTracked : fate[n] = "awaiting"} = Numbers(pending)
  BY <1>0, <1>1 DEF Numbers
<1>3. num \in Bijection(I, Numbers(pending))
  <2>1. num \in [I -> Numbers(pending)] /\ DOMAIN num = I
    BY DEF Numbers
  <2>2. \A i, j \in I : num[i] = num[j] => i = j
    <3> SUFFICES ASSUME NEW i \in I, NEW j \in I, pending[i].n = pending[j].n, i # j
                 PROVE  FALSE
      OBVIOUS
    <3>1. i < j \/ j < i
      BY <1>0
    <3> QED BY <1>0, <3>1 DEF IInv, OldestFirst
  <2>3. \A n \in Numbers(pending) : \E i \in I : num[i] = n
    BY DEF Numbers
  <2> HIDE DEF num, I
  <2>4. num \in Injection(I, Numbers(pending))
    BY <2>1, <2>2 DEF Injection, IsInjective
  <2>5. num \in Surjection(I, Numbers(pending))
    BY <2>1, <2>3 DEF Surjection
  <2> QED BY <2>4, <2>5 DEF Bijection
<1>4. Cardinality(Numbers(pending)) = Len(pending)
  <2>1. ExistsBijection(1..Len(pending), Numbers(pending))
    BY <1>3 DEF ExistsBijection
  <2> QED BY <1>0, <2>1, FS_CountingElements
<1> QED BY <1>2, <1>4

\* A new tracker is a new ledger.
LEMMA InitRefines == Init => Ledger!Init
<1> SUFFICES ASSUME Init PROVE Ledger!Init
  OBVIOUS
<1>1. \A n \in 1..MaxTracked : Fate(n) = "new"
  BY DEF Init, Fate
<1> QED BY <1>1 DEF fate, Ledger!Init, Ledger!Bundles

\* What track does to the numbers in the deque: the new one comes, and the
\* oldest of a full deque goes.
LEMMA TrackNumbers ==
  ASSUME IInv, NEW id \in Ids \cup {NoId}, NEW trade \in Trades, Track(id, trade)
  PROVE  /\ tracked + 1 \in Numbers(pending')
         /\ \A n \in 1..tracked :
              n \in Numbers(pending')
                <=> /\ n \in Numbers(pending)
                    /\ ~(Len(pending) >= MaxPending /\ n = pending[1].n)
<1>1. PICK d \in {0, 1} :
        /\ d = 1 <=> Len(pending) >= MaxPending
        /\ Len(pending') = (Len(pending) - d) + 1
        /\ \A i \in 1..(Len(pending) - d) : pending'[i] = pending[i + d]
        /\ pending'[Len(pending')] = [n |-> tracked + 1, id |-> id, trade |-> trade, at |-> now]
  BY TrackStep DEF IInv
<1>2. /\ Len(pending) \in Nat /\ tracked \in Nat
      /\ \A i \in 1..Len(pending) : pending[i].n \in Nat
      /\ MaxPending \in Nat /\ MaxPending > 0
  BY Elements, TrackerAssumption DEF IInv
<1> DEFINE l == Len(pending) - d
<1>3. l \in Nat /\ Len(pending') = l + 1 /\ l + 1 \in 1..(l + 1)
  BY <1>1, <1>2
<1>4. pending'[l + 1].n = tracked + 1
  BY <1>1, <1>3
<1>5. tracked + 1 \in Numbers(pending')
  BY <1>3, <1>4 DEF Numbers
<1>6. ASSUME NEW n \in 1..tracked, n \in Numbers(pending')
      PROVE  n \in Numbers(pending) /\ ~(Len(pending) >= MaxPending /\ n = pending[1].n)
  <2>1. PICK i \in 1..(l + 1) : pending'[i].n = n
    BY <1>3, <1>6 DEF Numbers
  <2>2. i \in 1..l
    BY <1>2, <1>3, <1>4, <2>1
  <2>3. i + d \in 1..Len(pending) /\ pending[i + d].n = n
    BY <1>1, <1>2, <2>1, <2>2
  <2>4. ASSUME Len(pending) >= MaxPending, n = pending[1].n PROVE FALSE
    <3>1. 1 \in 1..Len(pending) /\ 1 < i + d
      BY <1>1, <1>2, <2>2, <2>3, <2>4
    <3>2. pending[1].n < pending[i + d].n
      BY <2>3, <3>1 DEF IInv, OldestFirst
    <3> QED BY <1>2, <2>3, <2>4, <3>1, <3>2
  <2> QED BY <2>3, <2>4 DEF Numbers
<1>7. ASSUME NEW n \in 1..tracked, n \in Numbers(pending),
             ~(Len(pending) >= MaxPending /\ n = pending[1].n)
      PROVE  n \in Numbers(pending')
  <2>1. PICK k \in 1..Len(pending) : pending[k].n = n
    BY <1>7 DEF Numbers
  <2>2. k - d \in 1..l
    BY <1>1, <1>2, <1>7, <2>1
  <2>3. k - d \in 1..(l + 1) /\ (k - d) + d = k
    BY <1>1, <1>3, <2>1, <2>2
  <2>4. pending'[k - d].n = n
    BY <1>1, <2>1, <2>2, <2>3
  <2> QED BY <1>3, <2>3, <2>4 DEF Numbers
<1> QED BY <1>5, <1>6, <1>7

\* `track` is a step of the ledger: one bundle comes, at most one is forgotten.
LEMMA TrackRefines ==
  ASSUME IInv, NEW id \in Ids \cup {NoId}, NEW trade \in Trades, Track(id, trade)
  PROVE  Ledger!Next
<1> DEFINE t == tracked + 1
           F(n) == FateIn(pending, outcomes, tracked, n)
           G(n) == FateIn(pending', outcomes', tracked', n)
<1>1. /\ tracked \in Nat /\ MaxTracked \in Nat /\ t \in 1..MaxTracked
      /\ tracked' = t /\ outcomes' = outcomes
      /\ Len(pending) \in Nat /\ \A i \in 1..Len(pending) : pending[i].n \in 1..tracked
      /\ MaxPending \in Nat /\ MaxPending > 0
  <2>1. \A i \in 1..Len(pending) : pending[i].n \in 1..tracked
    BY Elements DEF IInv, Numbered
  <2> QED BY <2>1, Elements, TrackerAssumption DEF IInv, TypeOK, Track
<1>2. /\ t \in Numbers(pending')
      /\ \A n \in 1..tracked :
           n \in Numbers(pending')
             <=> /\ n \in Numbers(pending)
                 /\ ~(Len(pending) >= MaxPending /\ n = pending[1].n)
  BY TrackNumbers
<1>3. /\ Ledger!Awaiting = Numbers(pending)
      /\ Cardinality(Ledger!Awaiting) = Len(pending)
  BY AwaitingCount DEF Ledger!Awaiting, Ledger!Bundles
<1>4. \A n \in Numbers(pending) : n \in 1..tracked /\ n \notin Numbers(outcomes)
  BY <1>1 DEF Numbers, IInv, OneOutcomeEach, IsPending
\* The oldest of the deque is the least awaiting number.
<1>5. \A n \in Numbers(pending) : (\A k \in Numbers(pending) : n <= k) <=> n = pending[1].n
  <2> SUFFICES ASSUME NEW n \in Numbers(pending)
               PROVE  (\A k \in Numbers(pending) : n <= k) <=> n = pending[1].n
    OBVIOUS
  <2>1. PICK i \in 1..Len(pending) : pending[i].n = n
    BY DEF Numbers
  <2>2. 1 \in 1..Len(pending) /\ pending[1].n \in Numbers(pending)
    BY <1>1, <2>1 DEF Numbers
  <2>3. \A j \in 1..Len(pending) : pending[1].n <= pending[j].n
    <3> SUFFICES ASSUME NEW j \in 1..Len(pending) PROVE pending[1].n <= pending[j].n
      OBVIOUS
    <3>1. CASE j = 1
      BY <1>1, <3>1
    <3>2. CASE j # 1
      <4>1. 1 < j
        BY <1>1, <3>2
      <4>2. pending[1].n < pending[j].n
        BY <2>2, <4>1 DEF IInv, OldestFirst
      <4> QED BY <1>1, <2>2, <4>2
    <3> QED BY <3>1, <3>2
  <2>4. \A k \in Numbers(pending) : pending[1].n <= k
    BY <2>3 DEF Numbers
  <2> QED BY <1>1, <1>4, <2>2, <2>4
<1>6. /\ fate = [n \in 1..MaxTracked |-> F(n)]
      /\ fate' = [n \in 1..MaxTracked |-> G(n)]
  BY FateValues
<1>7. F(t) = "new" /\ \A m \in 1..(t - 1) : F(m) # "new"
  BY <1>1 DEF FateIn
<1>8. G(t) = "awaiting"
  BY <1>1, <1>2 DEF FateIn
<1>9. \A m \in 1..MaxTracked :
        m # t =>
          G(m) = IF /\ Len(pending) >= MaxPending
                    /\ m \in Numbers(pending)
                    /\ \A k \in Numbers(pending) : m <= k
                 THEN "forgotten" ELSE F(m)
  <2> SUFFICES ASSUME NEW m \in 1..MaxTracked, m # t
               PROVE  G(m) = IF /\ Len(pending) >= MaxPending
                                /\ m \in Numbers(pending)
                                /\ \A k \in Numbers(pending) : m <= k
                             THEN "forgotten" ELSE F(m)
    OBVIOUS
  <2>1. CASE m > tracked
    BY <1>1, <1>4, <2>1 DEF FateIn
  <2>2. CASE ~(m > tracked)
    <3>1. m \in 1..tracked /\ ~(m > tracked')
      BY <1>1, <2>2
    <3>2. CASE /\ Len(pending) >= MaxPending
               /\ m \in Numbers(pending)
               /\ \A k \in Numbers(pending) : m <= k
      <4>1. m = pending[1].n
        BY <1>5, <3>2
      <4>2. m \notin Numbers(pending') /\ m \notin Numbers(outcomes)
        BY <1>2, <1>4, <3>1, <3>2, <4>1
      <4> QED BY <1>1, <3>1, <3>2, <4>2 DEF FateIn
    <3>3. CASE ~(/\ Len(pending) >= MaxPending
                 /\ m \in Numbers(pending)
                 /\ \A k \in Numbers(pending) : m <= k)
      <4>1. m \in Numbers(pending') <=> m \in Numbers(pending)
        BY <1>2, <1>5, <3>1, <3>3
      <4>2. G(m) = F(m)
        BY <1>1, <2>2, <3>1, <4>1 DEF FateIn
      <4> QED BY <3>3, <4>2
    <3> QED BY <3>2, <3>3
  <2> QED BY <2>1, <2>2
<1> HIDE DEF F, G
<1>10. Ledger!Accept(t)
  <2>1. fate[t] = "new"
    BY <1>1, <1>6, <1>7
  <2>2. \A m \in 1..(t - 1) : fate[m] # "new"
    <3>1. \A m \in 1..(t - 1) : m \in 1..MaxTracked
      BY <1>1
    <3> QED BY <1>6, <1>7, <3>1
  <2>3. fate' = [m \in 1..MaxTracked |->
                  IF m = t THEN "awaiting"
                  ELSE IF /\ Cardinality(Ledger!Awaiting) >= MaxPending
                          /\ m \in Ledger!Awaiting
                          /\ \A k \in Ledger!Awaiting : m <= k
                       THEN "forgotten"
                  ELSE fate[m]]
    BY <1>3, <1>6, <1>8, <1>9
  <2>4. Ledger!Cardinality(Ledger!Awaiting) = Cardinality(Ledger!Awaiting)
    BY DEF Cardinality, Ledger!Cardinality
  <2> HIDE DEF t
  <2> QED BY <2>1, <2>2, <2>3, <2>4 DEF Ledger!Accept, Ledger!Bundles
<1>11. t \in Ledger!Bundles
  BY <1>1 DEF Ledger!Bundles
<1> QED BY <1>10, <1>11 DEF Ledger!Next

\* What poll does to the numbers: those that leave the deque get an outcome, and
\* those that had one keep their verdict.
LEMMA PollNumbers ==
  ASSUME IInv, NEW listed \in SUBSET Ids, PollReply(listed)
  PROVE  /\ Numbers(pending') \subseteq Numbers(pending)
         /\ \A n \in Numbers(pending) : n \in Numbers(pending') \/ n \in Numbers(outcomes')
         /\ \A n : n \notin Numbers(pending) =>
              /\ n \in Numbers(outcomes') <=> n \in Numbers(outcomes)
              /\ LandedIn(outcomes', n) <=> LandedIn(outcomes, n)
<1>1. PICK done, e, f :
        /\ Splits(pending, pending', done, e, f)
        /\ pending' \in Seq(PendingBundles)
        /\ outcomes' \in Seq(Outcomes)
        /\ Len(outcomes) \in Nat
        /\ Len(outcomes') = Len(outcomes) + Len(done)
        /\ \A i \in 1..Len(outcomes) : outcomes'[i] = outcomes[i]
        /\ \A i \in 1..Len(done) : outcomes'[Len(outcomes) + i] = Outcome(done[i], listed)
  BY PollStep DEF IInv
<1>2. /\ Len(pending) \in Nat /\ Len(pending') \in Nat /\ Len(done) \in Nat
      /\ \A i \in 1..Len(pending') : e[i] \in 1..Len(pending) /\ pending'[i] = pending[e[i]]
      /\ \A i \in 1..Len(done) : f[i] \in 1..Len(pending) /\ done[i] = pending[f[i]]
      /\ \A k \in 1..Len(pending) :
           \/ \E i \in 1..Len(pending') : e[i] = k
           \/ \E i \in 1..Len(done) : f[i] = k
  BY <1>1 DEF Splits
<1>3. \A i \in 1..Len(done) : outcomes'[Len(outcomes) + i].n = pending[f[i]].n
  <2> SUFFICES ASSUME NEW i \in 1..Len(done)
               PROVE  outcomes'[Len(outcomes) + i].n = pending[f[i]].n
    OBVIOUS
  <2>1. outcomes'[Len(outcomes) + i] = Outcome(done[i], listed) /\ done[i] = pending[f[i]]
    BY <1>1, <1>2
  <2> QED BY <2>1 DEF Outcome
<1>4. \A i \in 1..Len(outcomes') :
        \/ i \in 1..Len(outcomes) /\ outcomes'[i] = outcomes[i]
        \/ outcomes'[i].n \in Numbers(pending)
  <2> SUFFICES ASSUME NEW i \in 1..Len(outcomes'), ~(i <= Len(outcomes))
               PROVE  outcomes'[i].n \in Numbers(pending)
    BY <1>1, <1>2
  <2> DEFINE k == i - Len(outcomes)
  <2>1. k \in 1..Len(done) /\ Len(outcomes) + k = i
    BY <1>1, <1>2
  <2> HIDE DEF k
  <2> QED BY <1>2, <1>3, <2>1 DEF Numbers
<1>5. Numbers(pending') \subseteq Numbers(pending)
  BY <1>2 DEF Numbers
<1>6. ASSUME NEW n \in Numbers(pending), n \notin Numbers(pending')
      PROVE  n \in Numbers(outcomes')
  <2>1. PICK k \in 1..Len(pending) : pending[k].n = n
    BY DEF Numbers
  <2>2. ASSUME NEW i \in 1..Len(pending'), e[i] = k PROVE FALSE
    BY <1>2, <1>6, <2>1, <2>2 DEF Numbers
  <2>3. PICK i \in 1..Len(done) : f[i] = k
    BY <1>2, <2>2
  <2>4. Len(outcomes) + i \in 1..Len(outcomes') /\ outcomes'[Len(outcomes) + i].n = n
    BY <1>1, <1>2, <1>3, <2>1, <2>3
  <2> QED BY <2>4 DEF Numbers
<1>7. ASSUME NEW n, n \notin Numbers(pending)
      PROVE  /\ n \in Numbers(outcomes') <=> n \in Numbers(outcomes)
             /\ LandedIn(outcomes', n) <=> LandedIn(outcomes, n)
  <2>1. \A i \in 1..Len(outcomes') :
          outcomes'[i].n = n => i \in 1..Len(outcomes) /\ outcomes'[i] = outcomes[i]
    BY <1>4, <1>7
  <2>2. \A i \in 1..Len(outcomes) : i \in 1..Len(outcomes') /\ outcomes'[i] = outcomes[i]
    BY <1>1, <1>2
  <2>3. n \in Numbers(outcomes') <=> n \in Numbers(outcomes)
    BY <2>1, <2>2 DEF Numbers
  <2>4. LandedIn(outcomes', n) <=> LandedIn(outcomes, n)
    BY <2>1, <2>2 DEF LandedIn
  <2> QED BY <2>3, <2>4
<1> QED BY <1>5, <1>6, <1>7

\* An answered `poll` is a step of the ledger: what leaves the deque is settled.
LEMMA PollRefines ==
  ASSUME IInv, NEW listed \in SUBSET Ids, PollReply(listed)
  PROVE  Ledger!Next
<1> DEFINE F(n) == FateIn(pending, outcomes, tracked, n)
           G(n) == FateIn(pending', outcomes', tracked', n)
           settled == Numbers(pending) \ Numbers(pending')
           verdict == [n \in settled |-> G(n)]
<1>1. /\ Numbers(pending') \subseteq Numbers(pending)
      /\ \A n \in Numbers(pending) : n \in Numbers(pending') \/ n \in Numbers(outcomes')
      /\ \A n : n \notin Numbers(pending) =>
           /\ n \in Numbers(outcomes') <=> n \in Numbers(outcomes)
           /\ LandedIn(outcomes', n) <=> LandedIn(outcomes, n)
  BY PollNumbers
<1>2. tracked' = tracked
  BY DEF PollReply
<1>3. Ledger!Awaiting = Numbers(pending)
  BY AwaitingCount DEF Ledger!Awaiting, Ledger!Bundles
<1>4. /\ fate = [n \in 1..MaxTracked |-> F(n)]
      /\ fate' = [n \in 1..MaxTracked |-> G(n)]
  BY FateValues
<1>5. \A n \in Numbers(pending) : n \in 1..MaxTracked /\ ~(n > tracked)
  <2>1. /\ Len(pending) \in Nat
        /\ \A i \in 1..Len(pending) : pending[i] \in PendingBundles /\ pending[i].n <= tracked
    BY Elements DEF IInv, Numbered
  <2>2. \A i \in 1..Len(pending) : pending[i].n \in 1..MaxTracked
    BY <2>1, BundleFields
  <2>3. tracked \in Nat
    BY Elements DEF IInv
  <2> QED BY <2>1, <2>2, <2>3 DEF Numbers
<1>6. \A n \in 1..MaxTracked : n \notin settled => G(n) = F(n)
  BY <1>1, <1>2 DEF FateIn
<1>7. \A n \in settled : G(n) \in {"landed", "failed"}
  BY <1>1, <1>2, <1>5 DEF FateIn
<1> HIDE DEF F, G
<1>8. verdict \in [settled -> Ledger!Verdicts]
  BY <1>7 DEF Ledger!Verdicts
<1>9. fate' = [m \in 1..MaxTracked |-> IF m \in settled THEN verdict[m] ELSE fate[m]]
  BY <1>4, <1>6
<1>10. settled \in SUBSET Ledger!Awaiting
  BY <1>3
<1> HIDE DEF verdict, settled
<1>11. Ledger!Settle
  BY <1>8, <1>9, <1>10 DEF Ledger!Settle, Ledger!Bundles
<1> QED BY <1>11 DEF Ledger!Next

\* Every other step leaves every fate as it is.
LEMMA StepRefines == IInv /\ [Next]_vars => [Ledger!Next]_fate
<1> SUFFICES ASSUME IInv, [Next]_vars PROVE [Ledger!Next]_fate
  OBVIOUS
<1>1. ASSUME NEW id \in Ids \cup {NoId}, NEW trade \in Trades, Track(id, trade)
      PROVE  Ledger!Next
  BY <1>1, TrackRefines
<1>2. ASSUME NEW listed \in SUBSET Ids, PollReply(listed) PROVE Ledger!Next
  BY <1>2, PollRefines
<1>3. ASSUME pending' = pending, outcomes' = outcomes, tracked' = tracked
      PROVE  fate' = fate
  BY <1>3, FateValues
<1>4. CASE StartPoll
  BY <1>3, <1>4 DEF StartPoll
<1>5. CASE PollError
  BY <1>3, <1>5 DEF PollError
<1>6. ASSUME NEW id \in Ids, Progress(id) PROVE fate' = fate
  BY <1>3, <1>6 DEF Progress
<1>7. CASE Tick
  BY <1>3, <1>7 DEF Tick, trackerVars
<1>8. CASE UNCHANGED vars
  BY <1>3, <1>8 DEF vars, trackerVars
<1> QED BY <1>1, <1>2, <1>4, <1>5, <1>6, <1>7, <1>8 DEF Next

\* The tracker of the code implements the ledger: verdicts are final, one for
\* each bundle, and only the oldest bundle of a full tracker is forgotten.
THEOREM TrackerImplementsLedger == Spec => ImplementsLedger
<1>1. Spec => Ledger!Init
  BY InitRefines DEF Spec
<1>2. Spec => [][Ledger!Next]_fate
  BY InductiveInvariant, StepRefines, PTL DEF Spec
<1> QED BY <1>1, <1>2 DEF ImplementsLedger, Ledger!Spec
==============================================================================
