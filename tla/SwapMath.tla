------------------------------- MODULE SwapMath -------------------------------
(***************************************************************************)
(* Constant-product arithmetic and the search for the best input of a      *)
(* cycle: crates/dex-adapters/src/math.  An Option is a set with at most   *)
(* one member.  Products of two u64 fit in a u128, so checked_mul and      *)
(* checked_add never fail; only the casts back to u64 lose anything.       *)
(***************************************************************************)
EXTENDS Words, Sequences

CONSTANTS
  Precision,   \* the ternary search stops at this distance: 1000
  Iterations   \* and after this many rounds: 50

ASSUME MathAssumption ==
  /\ Precision \in Nat /\ Precision >= 3
  /\ Iterations \in Nat

NonZero(S) == 0 \notin S

swap_base_in_FeeAdded(reserve_in, reserve_out, amount_in, fee_numerator, fee_denominator) ==
  LET fee        == AsU64((amount_in * fee_numerator) \div fee_denominator)
      after_fee  == amount_in + fee
      amount_out == (reserve_out * after_fee) \div (reserve_in + after_fee)
  IN  IF NonZero({reserve_in, reserve_out, amount_in, fee_denominator})
      THEN {[out |-> amount_out, fee |-> fee]} ELSE {}

\* What an input buys, and the fee kept.  A fee above the input is an error.
swap_base_in(reserve_in, reserve_out, amount_in, fee_numerator, fee_denominator) ==
  LET fee        == AsU64((amount_in * fee_numerator) \div fee_denominator)
      after_fee  == amount_in - fee
      amount_out == (reserve_out * after_fee) \div (reserve_in + after_fee)
  IN  IF /\ NonZero({reserve_in, reserve_out, amount_in, fee_denominator})
         /\ after_fee >= 0
         /\ amount_out < reserve_out
      THEN {[out |-> amount_out, fee |-> fee]} ELSE {}

\* The input before fees that buys amount_out, and with them, as u128s.
InputBeforeFee(reserve_in, reserve_out, amount_out) ==
  (reserve_in * amount_out) \div (reserve_out - amount_out) + 1

InputWithFee_FeeOnTop(before_fee, fee_numerator, fee_denominator) ==
  (before_fee * (fee_denominator + fee_numerator)) \div fee_denominator + 1

InputWithFee(before_fee, fee_numerator, fee_denominator) ==
  (before_fee * fee_denominator) \div (fee_denominator - fee_numerator) + 1

\* The input needed for an output, and the fee in it.
swap_base_out(reserve_in, reserve_out, amount_out, fee_numerator, fee_denominator) ==
  LET before_fee == AsU64(InputBeforeFee(reserve_in, reserve_out, amount_out))
      with_fee   == AsU64(InputWithFee(before_fee, fee_numerator, fee_denominator))
  IN  IF /\ NonZero({reserve_in, reserve_out, amount_out, fee_denominator})
         /\ amount_out < reserve_out
         /\ fee_numerator < fee_denominator
         /\ with_fee >= before_fee
      THEN {[in |-> with_fee, fee |-> with_fee - before_fee]} ELSE {}

------------------------------------------------------------------------------
(* optimizer.rs.  A hop is its reserves and fee; a cycle a sequence of hops.    *)

\* The amount a swap passes on; zero for None and for an output of zero.
Output(swap) == IF swap = {} THEN 0 ELSE (CHOOSE s \in swap : TRUE).out

Through(hop, amount_in) ==
  Output(swap_base_in(hop.reserve_in, hop.reserve_out, amount_in, hop.num, hop.den))

\* The amount after each hop; zero from where the path is dead.
AmountsAlong(hops, amount_in) ==
  LET amount[i \in 0..Len(hops)] ==
        IF i = 0 THEN amount_in ELSE Through(hops[i], amount[i - 1])
  IN  amount

DeadPath == -(U64 \div 2)  \* i64::MIN

simulate_cycle(hops, amount_in) ==
  LET amount_out == AmountsAlong(hops, amount_in)[Len(hops)]
  IN  IF amount_in = 0 THEN 0
      ELSE IF amount_out = 0 THEN DeadPath
      ELSE DifferenceAsI64(amount_out, amount_in)

Narrow_KeepsWorse(hops, lo, hi) ==
  LET third == (hi - lo) \div 3
  IN  IF simulate_cycle(hops, lo + third) > simulate_cycle(hops, hi - third)
      THEN <<lo + third, hi>> ELSE <<lo, hi - third>>

\* One round of the ternary search: on a tie the upper third goes.
Narrow(hops, lo, hi) ==
  LET third == (hi - lo) \div 3
  IN  IF simulate_cycle(hops, lo + third) < simulate_cycle(hops, hi - third)
      THEN <<lo + third, hi>> ELSE <<lo, hi - third>>

SearchRange(hops, max_input, min_input) ==
  LET range[n \in 0..Iterations] ==
        LET last == range[n - 1]
        IN  IF n = 0 THEN <<min_input, max_input>>
            ELSE IF last[2] - last[1] < Precision THEN last
            ELSE Narrow(hops, last[1], last[2])
  IN  range[Iterations]

\* The middle of what is left, with its profit.
optimize_arb_amount(hops, max_input, min_input) ==
  LET range   == SearchRange(hops, max_input, min_input)
      optimal == (range[1] + range[2]) \div 2
  IN  IF hops = <<>> \/ max_input <= min_input THEN [amount |-> 0, profit |-> 0]
      ELSE [amount |-> optimal, profit |-> simulate_cycle(hops, optimal)]
==============================================================================
