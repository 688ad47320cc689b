----------------------------- MODULE BundleLedger -----------------------------
(***************************************************************************)
(* What a bundle tracker promises: every bundle handed to it gets at most  *)
(* one verdict, for good, and is forgotten without one only when it is the *)
(* oldest of a full tracker and a new bundle arrives.                      *)
(***************************************************************************)
EXTENDS Integers, FiniteSets

CONSTANTS
  Capacity,   \* how many bundles may await a verdict
  MaxBundles  \* bound: bundles handed over

VARIABLE fate   \* what became of the n-th bundle

Bundles == 1..MaxBundles
Verdicts == {"landed", "failed"}
Awaiting == {n \in Bundles : fate[n] = "awaiting"}

Init == fate = [n \in Bundles |-> "new"]

\* The oldest bundle makes room when the tracker is full.
Accept(n) ==
  /\ fate[n] = "new"
  /\ \A m \in 1..(n - 1) : fate[m] # "new"
  /\ fate' = [m \in Bundles |->
               IF m = n THEN "awaiting"
               ELSE IF /\ Cardinality(Awaiting) >= Capacity
                       /\ m \in Awaiting
                       /\ \A k \in Awaiting : m <= k
                    THEN "forgotten"
               ELSE fate[m]]

\* One answer settles some of the awaiting bundles, each its own way.
Settle ==
  \E settled \in SUBSET Awaiting : \E verdict \in [settled -> Verdicts] :
    fate' = [m \in Bundles |-> IF m \in settled THEN verdict[m] ELSE fate[m]]

Next == (\E n \in Bundles : Accept(n)) \/ Settle

Spec == Init /\ [][Next]_fate
==============================================================================
