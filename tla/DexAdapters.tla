------------------------------ MODULE DexAdapters ------------------------------
(***************************************************************************)
(* What the five DEX adapters read out of a pool account, and the quote    *)
(* they all give.  An account is a record of the fields its adapter reads; *)
(* "full" says that the data is as long as the adapter demands.  Square    *)
(* roots of prices, and the price of a Meteora bin, are fractions <<n, d>>.*)
(***************************************************************************)
EXTENDS SwapMath

CONSTANTS
  ClmmFee,       \* <<25, 10000>>
  PhoenixFee,    \* <<4, 10000>>
  OrcaFeeUnit,   \* 1000000: fee_rate is in hundredths of a basis point
  MeteoraFeeUnit,  \* 10000
  MeteoraReserve,  \* 1000000000: the nominal reserve of token x
  PhoenixLots      \* 1000: the nominal depth in lots

ASSUME AdapterAssumption ==
  /\ ClmmFee \in Amounts \X Amounts /\ PhoenixFee \in Amounts \X Amounts
  /\ OrcaFeeUnit \in Amounts /\ MeteoraFeeUnit \in Amounts
  /\ MeteoraReserve \in Amounts /\ PhoenixLots \in Nat

\* The fields read are unsigned.
WellFormed(account) ==
  /\ account.owner = "raydium_amm" => {account.fee_num, account.fee_den} \subseteq Nat
  /\ account.owner \in {"raydium_clmm", "orca_whirlpool"} =>
       /\ {account.liquidity, account.fee_rate} \subseteq Nat
       /\ account.sqrt_price \in Nat \X (Nat \ {0})
  /\ account.owner = "meteora_dlmm" =>
       /\ {account.bin_step, account.base_factor} \subseteq Nat
       /\ account.price \in Nat \X (Nat \ {0})
  /\ account.owner = "phoenix" =>
       {account.base_lot_size, account.quote_lot_size, account.tick_size} \subseteq Nat

AtLeastOne(x) == IF x = 0 THEN 1 ELSE x

PoolState(account, reserve_a, reserve_b, num, den) ==
  [token_a |-> account.token_a, token_b |-> account.token_b,
   reserve_a |-> reserve_a, reserve_b |-> reserve_b, num |-> num, den |-> den]

\* L / sqrt_price and L * sqrt_price.
VirtualA(account) == Saturated((account.liquidity * account.sqrt_price[2]) \div account.sqrt_price[1])
VirtualB(account) == Saturated((account.liquidity * account.sqrt_price[1]) \div account.sqrt_price[2])

\* Initialized or swap only.  The reserves are in the vaults, which are never
\* cached: populate_reserves finds nothing to fill in.
RaydiumAmm(account) ==
  IF account.full /\ account.status \in {1, 6}
  THEN {PoolState(account, 0, 0, account.fee_num, account.fee_den)} ELSE {}

\* STATUS_SWAP is bit 2.
RaydiumClmm(account) ==
  IF /\ account.full
     /\ (account.status \div 4) % 2 = 1
     /\ NonZero({account.liquidity, account.sqrt_price[1]})
     /\ NonZero({VirtualA(account), VirtualB(account)})
  THEN {PoolState(account, VirtualA(account), VirtualB(account), ClmmFee[1], ClmmFee[2])} ELSE {}

\* A virtual reserve may be zero.
OrcaWhirlpool(account) ==
  IF account.full /\ NonZero({account.liquidity, account.sqrt_price[1]})
  THEN {PoolState(account, VirtualA(account), VirtualB(account), account.fee_rate, OrcaFeeUnit)} ELSE {}

\* The fee may exceed its unit.
MeteoraDlmm(account) ==
  IF account.full /\ account.bin_step # 0
  THEN {PoolState(account, MeteoraReserve,
                  AtLeastOne(Saturated((MeteoraReserve * account.price[1]) \div account.price[2])),
                  (account.base_factor * account.bin_step) \div 100, MeteoraFeeUnit)}
  ELSE {}

Phoenix(account) ==
  LET base == AsU64(AtLeastOne(account.base_lot_size) * PhoenixLots)
      priced == account.tick_size > 0 /\ account.quote_lot_size > 0
  IN  IF account.full /\ account.status # 0
      THEN {PoolState(account, base,
                      IF priced THEN AsU64(account.tick_size * account.quote_lot_size * PhoenixLots)
                      ELSE base,
                      PhoenixFee[1], PhoenixFee[2])}
      ELSE {}

DexTypes == {"raydium_amm", "raydium_clmm", "orca_whirlpool", "meteora_dlmm", "phoenix"}

\* The adapter is the one whose program owns the account.
decode_pool(account) ==
  CASE account.owner = "raydium_amm"    -> RaydiumAmm(account)
    [] account.owner = "raydium_clmm"   -> RaydiumClmm(account)
    [] account.owner = "orca_whirlpool" -> OrcaWhirlpool(account)
    [] account.owner = "meteora_dlmm"   -> MeteoraDlmm(account)
    [] account.owner = "phoenix"        -> Phoenix(account)
    [] OTHER -> {}

\* A pool as a swap of input sees it.
Hop(pool, input) ==
  IF input = pool.token_a
  THEN [reserve_in |-> pool.reserve_a, reserve_out |-> pool.reserve_b, num |-> pool.num, den |-> pool.den]
  ELSE [reserve_in |-> pool.reserve_b, reserve_out |-> pool.reserve_a, num |-> pool.num, den |-> pool.den]

\* All adapters quote alike: an error for a foreign mint and for empty reserves.
quote(pool, input, amount_in) ==
  LET hop == Hop(pool, input)
  IN  IF input \in {pool.token_a, pool.token_b}
      THEN swap_base_in(hop.reserve_in, hop.reserve_out, amount_in, hop.num, hop.den)
      ELSE {}
==============================================================================
