------------------------------ MODULE QuoteBoard ------------------------------
(***************************************************************************)
(* What a price graph promises: for each pool the weights of its two       *)
(* directions as of the last update, or that the pool was taken out.       *)
(***************************************************************************)
EXTENDS Integers

CONSTANTS
  Pools,    \* pool addresses
  FeeOf,    \* FeeOf[p]: -ln(1 - fee rate) of pool p
  Amounts,  \* logarithms of reserves
  Infinite  \* the weight of an edge nobody may take

VARIABLE quotes  \* the two weights of each pool

Unquoted == <<>>
Withdrawn == <<Infinite, Infinite>>

Init == quotes = [p \in Pools |-> Unquoted]

\* Both directions are quoted from the same reserves.
Quote(p) ==
  \E a, b \in Amounts :
    quotes' = [quotes EXCEPT ![p] = <<a - b + FeeOf[p], b - a + FeeOf[p]>>]

\* Only a pool that was quoted can be taken out, and only in both directions.
Withdraw(p) ==
  /\ quotes[p] # Unquoted
  /\ quotes' = [quotes EXCEPT ![p] = Withdrawn]

Next == \E p \in Pools : Quote(p) \/ Withdraw(p)

Spec == Init /\ [][Next]_quotes
==============================================================================
