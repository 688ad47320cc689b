------------------------------- MODULE RiskLimits -------------------------------
(***************************************************************************)
(* crates/risk/src/limits.rs: which opportunities may be traded, and what  *)
(* tip is paid for one.  tip_fraction is a quotient of naturals; rounding  *)
(* in f64 is not modelled.                                                 *)
(***************************************************************************)
EXTENDS Integers

CONSTANTS
  MinProfit,     \* min_profit_lamports
  MaxPosition,   \* max_position_lamports
  TipNum, TipDen,\* tip_fraction = TipNum / TipDen
  MinTip,        \* MIN_TIP_LAMPORTS
  MaxTip         \* max_tip_lamports

ASSUME RiskAssumption ==
  /\ MinProfit \in Int
  /\ MaxPosition \in Nat
  /\ TipNum \in Nat /\ TipDen \in Nat \ {0}
  /\ MinTip \in Nat /\ MaxTip \in Nat

\* Only the first hop's input counts as the position; an empty path has none.
check(opp) ==
  /\ opp.profit >= MinProfit
  /\ opp.amount_in <= MaxPosition

Larger(a, b) == IF a >= b THEN a ELSE b
Smaller(a, b) == IF a <= b THEN a ELSE b

calculate_tip_Uncapped(profit) ==
  IF profit <= 0 THEN MinTip
  ELSE Larger((profit * TipNum) \div TipDen, MinTip)

calculate_tip(profit) ==
  IF profit <= 0 THEN MinTip
  ELSE Smaller(Larger((profit * TipNum) \div TipDen, MinTip), MaxTip)
==============================================================================
