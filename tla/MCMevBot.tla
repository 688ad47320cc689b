------------------------------- MODULE MCMevBot -------------------------------
(* A small instance of MevBot: the DEX strategy finds up to two opportunities  *)
(* in one update and the liquidation strategy one; the channel holds one and   *)
(* the tracker two bundles.                                                    *)
EXTENDS MevBot

Opp(s, p, a, b) == [strategy |-> s, profit |-> p, amount_in |-> a, blacklisted |-> b]

\* One that passes, and one per reason to be refused.
MCOpportunities ==
  {Opp("dex_arb", 3, 1, FALSE), Opp("dex_arb", 3, 1, TRUE),
   Opp("liquidation", 1, 1, FALSE), Opp("liquidation", 4, 3, FALSE),
   Opp("liquidation", 4, 2, FALSE)}

\* For the liveness run: what passes, from each strategy.
MCVetted == {Opp("dex_arb", 3, 1, FALSE), Opp("liquidation", 4, 2, FALSE)}

MCStrategies == {"dex_arb", "liquidation"}
MCMaxBatch == [s \in MCStrategies |-> IF s = "dex_arb" THEN 2 ELSE 1]
==============================================================================
