--------------------------- MODULE DexStrategyProofs ---------------------------
(***************************************************************************)
(* Theorems about the DEX and backrun strategies: the arithmetic of quotes *)
(* at every word width, and what opportunities are priced from.            *)
(***************************************************************************)
EXTENDS DexStrategy, SeqFoldsProofs

------------------------------------------------------------------------------
(* Casts *)

\* A cast keeps a value below the word size, and never makes one larger.
LEMMA CastBounds ==
  ASSUME NEW x \in Nat
  PROVE  AsU64(x) \in Amounts /\ AsU64(x) <= x /\ (x < U64 => AsU64(x) = x)
BY WordAssumption DEF AsU64, Amounts

------------------------------------------------------------------------------
(* Quotes *)

\* What a swap buys, and what it leaves: the fee only makes the input smaller, and
\* the division rounds the output down.
LEMMA SwapKeepsProduct ==
  ASSUME NEW ri \in Nat, NEW ro \in Nat, NEW amt \in Nat, NEW num \in Nat, NEW den \in Nat,
         NEW swap \in swap_base_in(ri, ro, amt, num, den)
  PROVE  /\ swap.out \in Nat /\ swap.out < ro
         /\ (ri + amt) * (ro - swap.out) >= ri * ro
<1> DEFINE fee == AsU64((amt * num) \div den)
           kept == amt - fee
           out == (ro * kept) \div (ri + kept)
<1>1. /\ ri > 0 /\ ro > 0 /\ amt > 0 /\ den > 0
      /\ kept >= 0 /\ out < ro /\ swap = [out |-> out, fee |-> fee]
  BY DEF swap_base_in, NonZero
<1>2. fee \in Nat
  <2>1. amt * num \in Nat
    OBVIOUS
  <2>2. (amt * num) \div den \in Nat
    BY <1>1, <2>1, DivisionBounds
  <2> QED BY <2>2, CastBounds DEF Amounts
<1>3. kept \in Nat /\ kept <= amt
  BY <1>1, <1>2
<1> HIDE DEF fee, kept
<1>4. ro * kept \in Nat /\ ri + kept \in Nat /\ ri + kept > 0
  BY <1>1, <1>3
<1>5. out \in Nat /\ (ri + kept) * out <= ro * kept
  BY <1>4, DivisionBounds
<1>6. swap.out = out
  BY <1>1
<1> HIDE DEF out
<1>7. ro - out \in Nat
  BY <1>1, <1>5
<1>8. (ri + kept) * (ro - out) = ri * ro + ro * kept - (ri + kept) * out
  BY <1>3, <1>5
<1>9. (ri + kept) * (ro - out) >= ri * ro
  BY <1>3, <1>5, <1>8
<1>10. (ri + kept) * (ro - out) <= (ri + amt) * (ro - out)
  BY <1>3, <1>7, ProductMonotone
<1> QED
  <2>1. ri * ro \in Int /\ (ri + kept) * (ro - out) \in Int /\ (ri + amt) * (ro - out) \in Int
    BY <1>3, <1>5
  <2> QED BY <1>1, <1>5, <1>6, <1>9, <1>10, <2>1

\* A quotient is at least what fits into the dividend.
LEMMA DivisionReaches ==
  ASSUME NEW a \in Nat, NEW b \in Nat, b > 0, NEW q \in Nat, b * q <= a
  PROVE  q <= a \div b
<1> DEFINE d == a \div b
<1>1. d \in Nat /\ a < b * d + b
  BY DivisionBounds
<1> HIDE DEF d
<1>2. SUFFICES ASSUME d + 1 <= q PROVE FALSE
  BY <1>1 DEF d
<1>3. b * (d + 1) <= b * q
  BY <1>1, <1>2, ProductMonotone
<1>4. b * (d + 1) = b * d + b
  BY <1>1
<1> QED
  <2>1. b * d \in Int /\ b * q \in Int /\ b * (d + 1) \in Int
    BY <1>1
  <2> QED BY <1>1, <1>3, <1>4, <2>1

\* Dividing by a positive number keeps a strict order.
LEMMA ProductStrict ==
  ASSUME NEW x \in Int, NEW y \in Int, NEW z \in Nat, z > 0, x * z < y * z
  PROVE  x < y
<1> SUFFICES ASSUME y <= x PROVE FALSE
  OBVIOUS
<1>1. y * z <= x * z
  BY ProductMonotone
<1> QED
  <2>1. x * z \in Int /\ y * z \in Int
    OBVIOUS
  <2> QED BY <1>1, <2>1

\* The output of a swap that succeeds.
LEMMA OutputOfOne ==
  ASSUME NEW swap
  PROVE  Output({swap}) = swap.out
<1>1. (CHOOSE s \in {swap} : TRUE) = swap
  OBVIOUS
<1>2. {swap} # {}
  OBVIOUS
<1> QED BY <1>1, <1>2 DEF Output

\* The input swap_base_out names, uncut, buys at least the output asked for.
LEMMA InverseReaches ==
  ASSUME NEW ri \in Nat, NEW ro \in Nat, NEW amt \in Nat, NEW num \in Nat, NEW den \in Nat,
         InputBeforeFee(ri, ro, amt) < U64,
         InputWithFee(InputBeforeFee(ri, ro, amt), num, den) < U64,
         NEW swap \in swap_base_out(ri, ro, amt, num, den)
  PROVE  Output(swap_base_in(ri, ro, swap.in, num, den)) >= amt
<1> DEFINE left   == ro - amt
           before == InputBeforeFee(ri, ro, amt)
           part   == den - num
           with   == InputWithFee(before, num, den)
           fee    == AsU64((with * num) \div den)
           kept   == with - fee
           out    == (ro * kept) \div (ri + kept)
<1>1. /\ ri \in Nat /\ ri > 0 /\ ro > 0 /\ amt > 0 /\ den > 0
      /\ left \in Nat /\ left > 0 /\ amt < ro
      /\ part \in Nat /\ part > 0 /\ num < den
  BY DEF swap_base_out, NonZero
<1>2. before \in Nat /\ before > 0 /\ ri * amt < before * left
  <2>1. ri * amt \in Nat
    OBVIOUS
  <2> DEFINE q == (ri * amt) \div left
  <2>2. q \in Nat /\ ri * amt < left * q + left
    BY <1>1, <2>1, DivisionBounds
  <2>3. before = q + 1
    BY DEF InputBeforeFee
  <2> HIDE DEF q, before, left
  <2>4. before * left = left * q + left
    BY <1>1, <2>2, <2>3
  <2> QED BY <2>2, <2>3, <2>4
<1> HIDE DEF left, before
<1>3. with \in Nat /\ with > 0 /\ before * den < with * part
  <2>1. before * den \in Nat
    BY <1>2
  <2> DEFINE q == (before * den) \div part
  <2>2. q \in Nat /\ before * den < part * q + part
    BY <1>1, <2>1, DivisionBounds
  <2>3. with = q + 1
    BY DEF InputWithFee
  <2> HIDE DEF q, part, with
  <2>4. with * part = part * q + part
    BY <1>1, <2>2, <2>3
  <2> QED BY <2>2, <2>3, <2>4
<1>4. swap.in = with
  <2>1. AsU64(before) = before
    BY <1>2, CastBounds DEF before
  <2>2. AsU64(with) = with
    BY <1>3, CastBounds DEF before
  <2>3. swap.in = AsU64(InputWithFee(AsU64(before), num, den))
    BY DEF swap_base_out, before
  <2> QED BY <2>1, <2>2, <2>3
<1> HIDE DEF with
<1>5. fee \in Nat /\ den * fee <= with * num
  <2>1. with * num \in Nat
    BY <1>3
  <2> DEFINE q == (with * num) \div den
  <2>2. q \in Nat /\ den * q <= with * num
    BY <1>1, <2>1, DivisionBounds
  <2>3. fee \in Nat /\ fee <= q
    BY <2>2, CastBounds DEF Amounts
  <2> HIDE DEF q, fee
  <2>4. den * fee <= den * q
    BY <2>2, <2>3, ProductMonotone
  <2>5. den * fee \in Int /\ den * q \in Int /\ with * num \in Int
    BY <2>2, <2>3, <1>3
  <2> QED BY <2>2, <2>3, <2>4, <2>5
<1> HIDE DEF fee
<1>6. before < kept
  <2>1. kept * den = with * den - den * fee
    BY <1>3, <1>5
  <2>2. with * part = with * den - with * num
    BY <1>3 DEF part
  <2>3. before * den < kept * den
    <3>1. /\ kept * den \in Int /\ with * den \in Int /\ den * fee \in Int
          /\ with * part \in Int /\ with * num \in Int /\ before * den \in Int
      BY <1>1, <1>2, <1>3, <1>5
    <3> HIDE DEF kept, part
    <3> QED BY <1>3, <1>5, <2>1, <2>2, <3>1
  <2>4. kept \in Int
    BY <1>3, <1>5
  <2> HIDE DEF kept
  <2> QED BY <1>1, <1>2, <2>3, <2>4, ProductStrict
<1>7. kept \in Nat /\ kept >= 0 /\ ri + kept \in Nat /\ ri + kept > 0
  BY <1>1, <1>2, <1>3, <1>5, <1>6
<1> HIDE DEF kept
<1>8. (ri + kept) * amt <= ro * kept
  <2>1. before * left <= kept * left
    BY <1>1, <1>2, <1>6, <1>7, ProductMonotone
  <2>2. kept * left = ro * kept - kept * amt
    BY <1>7 DEF left
  <2>3. (ri + kept) * amt = ri * amt + kept * amt
    BY <1>7
  <2>4. /\ before * left \in Int /\ kept * left \in Int /\ ro * kept \in Int
        /\ kept * amt \in Int /\ ri * amt \in Int /\ (ri + kept) * amt \in Int
    BY <1>1, <1>2, <1>7
  <2> QED BY <1>2, <2>1, <2>2, <2>3, <2>4
<1>9. ro * kept \in Nat
  BY <1>7
<1>10. out \in Nat /\ amt <= out
  BY <1>7, <1>8, <1>9, DivisionReaches, DivisionBounds
<1>11. out < ro
  <2>1. (ri + kept) * out <= ro * kept /\ out \in Nat
    BY <1>7, <1>9, DivisionBounds
  <2> HIDE DEF out
  <2>2. SUFFICES ASSUME ro <= out PROVE FALSE
    BY <2>1 DEF out
  <2>3. (ri + kept) * ro <= (ri + kept) * out
    BY <1>7, <2>1, <2>2, ProductMonotone
  <2>4. (ri + kept) * ro = ri * ro + ro * kept /\ ri * ro > 0
    BY <1>1, <1>7
  <2>5. /\ (ri + kept) * ro \in Int /\ (ri + kept) * out \in Int
        /\ ri * ro \in Int /\ ro * kept \in Int
    BY <1>7, <2>1
  <2> QED BY <2>1, <2>3, <2>4, <2>5
<1>12. swap_base_in(ri, ro, with, num, den) = {[out |-> out, fee |-> fee]}
  BY <1>1, <1>3, <1>7, <1>11 DEF swap_base_in, NonZero, kept, fee
<1>13. Output(swap_base_in(ri, ro, with, num, den)) = out
  <2>1. [out |-> out, fee |-> fee].out = out
    OBVIOUS
  <2> QED BY <1>12, <2>1, OutputOfOne
<1> QED BY <1>4, <1>10, <1>13

------------------------------------------------------------------------------
(* Pools *)

\* What a decoded pool holds.
PoolTyped(pool) ==
  /\ pool.reserve_a \in Amounts /\ pool.reserve_b \in Amounts
  /\ pool.num \in Nat /\ pool.den \in Nat
  /\ pool.token_a \in Mints /\ pool.token_b \in Mints

\* A saturating cast gives a u64.
LEMMA SaturatedBounds ==
  ASSUME NEW x \in Nat
  PROVE  Saturated(x) \in Amounts
BY WordAssumption DEF Saturated, Amounts

\* Every adapter decodes a pool with reserves that fit a u64.
LEMMA DecodedTyped ==
  ASSUME NEW account, WellFormed(account), {account.token_a, account.token_b} \subseteq Mints,
         NEW pool \in decode_pool(account)
  PROVE  PoolTyped(pool)
<1>1. account.token_a \in Mints /\ account.token_b \in Mints
  OBVIOUS
<1>2. ASSUME NEW a \in Amounts, NEW b \in Amounts, NEW num \in Nat, NEW den \in Nat,
             pool = PoolState(account, a, b, num, den)
      PROVE  PoolTyped(pool)
  BY <1>1, <1>2 DEF PoolTyped, PoolState
<1>3. ASSUME account.liquidity \in Nat, account.sqrt_price \in Nat \X (Nat \ {0}),
             account.sqrt_price[1] # 0
      PROVE  VirtualA(account) \in Amounts /\ VirtualB(account) \in Amounts
  <2>1. /\ account.sqrt_price[1] \in Nat /\ account.sqrt_price[1] > 0
        /\ account.sqrt_price[2] \in Nat /\ account.sqrt_price[2] > 0
    BY <1>3
  <2>2. /\ account.liquidity * account.sqrt_price[2] \in Nat
        /\ account.liquidity * account.sqrt_price[1] \in Nat
    BY <1>3, <2>1
  <2>3. /\ (account.liquidity * account.sqrt_price[2]) \div account.sqrt_price[1] \in Nat
        /\ (account.liquidity * account.sqrt_price[1]) \div account.sqrt_price[2] \in Nat
    BY <2>1, <2>2, DivisionBounds
  <2> QED BY <2>3, SaturatedBounds DEF VirtualA, VirtualB
<1>4. 0 \in Amounts /\ Amounts \subseteq Nat
  BY WordAssumption DEF Amounts
<1>5. CASE account.owner = "raydium_amm"
  <2>1. pool = PoolState(account, 0, 0, account.fee_num, account.fee_den)
    BY <1>5 DEF decode_pool, RaydiumAmm
  <2>2. account.fee_num \in Nat /\ account.fee_den \in Nat
    BY <1>5 DEF WellFormed
  <2> QED BY <1>2, <1>4, <2>1, <2>2
<1>6. CASE account.owner = "raydium_clmm"
  <2>1. /\ pool = PoolState(account, VirtualA(account), VirtualB(account), ClmmFee[1], ClmmFee[2])
        /\ account.sqrt_price[1] # 0
    BY <1>6 DEF decode_pool, RaydiumClmm, NonZero
  <2>2. ClmmFee[1] \in Nat /\ ClmmFee[2] \in Nat
    BY <1>4, AdapterAssumption
  <2> QED BY <1>2, <1>3, <1>6, <2>1, <2>2 DEF WellFormed
<1>7. CASE account.owner = "orca_whirlpool"
  <2>1. /\ pool = PoolState(account, VirtualA(account), VirtualB(account),
                            account.fee_rate, OrcaFeeUnit)
        /\ account.sqrt_price[1] # 0
    BY <1>7 DEF decode_pool, OrcaWhirlpool, NonZero
  <2>2. account.fee_rate \in Nat /\ OrcaFeeUnit \in Nat
    BY <1>4, <1>7, AdapterAssumption DEF WellFormed
  <2> QED BY <1>2, <1>3, <1>7, <2>1, <2>2 DEF WellFormed
<1>8. CASE account.owner = "meteora_dlmm"
  <2> DEFINE y == Saturated((MeteoraReserve * account.price[1]) \div account.price[2])
             fee == (account.base_factor * account.bin_step) \div 100
  <2>1. pool = PoolState(account, MeteoraReserve, AtLeastOne(y), fee, MeteoraFeeUnit)
    BY <1>8 DEF decode_pool, MeteoraDlmm
  <2>2. /\ account.price[1] \in Nat /\ account.price[2] \in Nat /\ account.price[2] > 0
        /\ account.base_factor \in Nat /\ account.bin_step \in Nat
        /\ MeteoraReserve \in Amounts /\ MeteoraReserve \in Nat /\ MeteoraFeeUnit \in Nat
    BY <1>4, <1>8, AdapterAssumption DEF WellFormed
  <2>3. MeteoraReserve * account.price[1] \in Nat /\ account.base_factor * account.bin_step \in Nat
    BY <2>2
  <2>4. y \in Amounts
    BY <2>2, <2>3, DivisionBounds, SaturatedBounds
  <2>5. fee \in Nat
    BY <2>3, DivisionBounds
  <2> HIDE DEF y, fee
  <2>6. AtLeastOne(y) \in Amounts
    BY <2>4, WordAssumption DEF AtLeastOne, Amounts
  <2> QED BY <1>2, <2>1, <2>2, <2>5, <2>6
<1>9. CASE account.owner = "phoenix"
  <2> DEFINE base == AsU64(AtLeastOne(account.base_lot_size) * PhoenixLots)
             lots == AsU64(account.tick_size * account.quote_lot_size * PhoenixLots)
  <2>1. \/ pool = PoolState(account, base, lots, PhoenixFee[1], PhoenixFee[2])
        \/ pool = PoolState(account, base, base, PhoenixFee[1], PhoenixFee[2])
    BY <1>9 DEF decode_pool, Phoenix
  <2>2. /\ account.base_lot_size \in Nat /\ account.quote_lot_size \in Nat
        /\ account.tick_size \in Nat /\ PhoenixLots \in Nat
        /\ PhoenixFee[1] \in Nat /\ PhoenixFee[2] \in Nat
    BY <1>4, <1>9, AdapterAssumption DEF WellFormed
  <2>3. AtLeastOne(account.base_lot_size) \in Nat
    BY <2>2 DEF AtLeastOne
  <2>4. /\ AtLeastOne(account.base_lot_size) * PhoenixLots \in Nat
        /\ account.tick_size * account.quote_lot_size * PhoenixLots \in Nat
    BY <2>2, <2>3
  <2>5. base \in Amounts /\ lots \in Amounts
    BY <2>4, CastBounds
  <2> HIDE DEF base, lots
  <2> QED BY <1>2, <2>1, <2>2, <2>5
<1> QED BY <1>5, <1>6, <1>7, <1>8, <1>9 DEF decode_pool

\* The hop a swap through a typed pool takes.
LEMMA HopTyped ==
  ASSUME NEW pool, PoolTyped(pool), NEW input
  PROVE  LET hop == Hop(pool, input)
         IN  /\ hop.reserve_in \in Amounts /\ hop.reserve_out \in Amounts
             /\ hop.num \in Nat /\ hop.den \in Nat
BY DEF PoolTyped, Hop

\* What a quote buys is a u64.
LEMMA OutputTyped ==
  ASSUME NEW pool, PoolTyped(pool), NEW input, NEW amount \in Amounts
  PROVE  Output(quote(pool, input, amount)) \in Amounts
<1> DEFINE hop == Hop(pool, input)
           swaps == swap_base_in(hop.reserve_in, hop.reserve_out, amount, hop.num, hop.den)
<1>0. 0 \in Amounts /\ Amounts \subseteq Nat
  BY WordAssumption DEF Amounts
<1>1. CASE quote(pool, input, amount) = {}
  BY <1>0, <1>1 DEF Output
<1>2. CASE quote(pool, input, amount) # {}
  <2>1. quote(pool, input, amount) = swaps
    BY <1>2 DEF quote
  <2>2. PICK swap \in swaps : swaps = {swap}
    BY <1>2, <2>1 DEF swap_base_in
  <2>3. /\ hop.reserve_in \in Nat /\ hop.reserve_out \in Nat /\ hop.reserve_out \in Amounts
        /\ hop.num \in Nat /\ hop.den \in Nat /\ amount \in Nat
    BY <1>0, HopTyped
  <2> HIDE DEF hop
  <2>4. swap.out \in Nat /\ swap.out < hop.reserve_out
    BY <2>2, <2>3, SwapKeepsProduct
  <2>5. swap.out \in Amounts
    BY <2>3, <2>4, WordAssumption DEF Amounts
  <2> HIDE DEF swaps
  <2>6. Output(quote(pool, input, amount)) = swap.out
    BY <2>1, <2>2, OutputOfOne
  <2> QED BY <2>5, <2>6
<1> QED BY <1>1, <1>2

\* The amounts quoted along a path from accounts that hold pools are u64s, each
\* what the one before it buys.
LEMMA AmountsTyped ==
  ASSUME NEW path, NEW read \in Seq(Nat), NEW start \in Amounts,
         \A k \in 1..Len(read) : PoolTyped(PoolAt(read[k]))
  PROVE  /\ \A k \in 0..Len(read) : AmountsQuoted(path, read, start)[k] \in Amounts
         /\ AmountsQuoted(path, read, start)[0] = start
         /\ \A k \in 1..Len(read) :
              AmountsQuoted(path, read, start)[k]
                = Output(quote(PoolAt(read[k]), path[k].input,
                               AmountsQuoted(path, read, start)[k - 1]))
<1> DEFINE n == Len(read)
           E(q) == q = [k \in 0..Len(read) |->
                         IF k = 0 THEN start
                         ELSE Output(quote(PoolAt(read[k]), path[k].input, q[k - 1]))]
           f == AmountsQuoted(path, read, start)
           step == [k \in 1..n |->
                     [x \in Amounts |-> Output(quote(PoolAt(read[k]), path[k].input, x))]]
<1>0. n \in Nat
  OBVIOUS
<1>1. step \in [1..n -> [Amounts -> Amounts]]
  <2>1. \A k \in 1..n, x \in Amounts :
          Output(quote(PoolAt(read[k]), path[k].input, x)) \in Amounts
    BY OutputTyped
  <2> QED BY <2>1
<1>2. PICK p : Follows(p, Amounts, start, n, step)
  <2> HIDE DEF step, n
  <2> QED BY <1>0, <1>1, StepsExist, Zenon
<1>2a. p \in [0..n -> Amounts] /\ p[0] = start /\ \A k \in 1..n : p[k] = step[k][p[k - 1]]
  BY <1>2, Zenon DEF Follows
<1>3. \A k \in 1..n : p[k] = Output(quote(PoolAt(read[k]), path[k].input, p[k - 1]))
  <2> SUFFICES ASSUME NEW k \in 1..n
               PROVE  p[k] = Output(quote(PoolAt(read[k]), path[k].input, p[k - 1]))
    OBVIOUS
  <2>1. p[k - 1] \in Amounts
    BY <1>0, <1>2a
  <2> QED BY <1>2a, <2>1
<1>4. E(p)
  BY <1>0, <1>2a, <1>3
<1>5. f = CHOOSE q : E(q)
  BY DEF AmountsQuoted
<1>6. E(f)
  BY <1>4, <1>5
<1> HIDE DEF f
<1>7. f[0] \in Amounts /\ f[0] = start
  BY <1>0, <1>6
<1>8. \A k \in 1..n : f[k] = Output(quote(PoolAt(read[k]), path[k].input, f[k - 1]))
  BY <1>0, <1>6
<1>9. \A k \in 1..n : f[k - 1] \in Amounts => f[k] \in Amounts
  BY <1>8, OutputTyped
<1>10. \A k \in 0..n : f[k] \in Amounts
  <2> HIDE DEF n
  <2> QED BY <1>0, <1>7, <1>9, StepsStay
<1> QED BY <1>7, <1>8, <1>10 DEF f

\* The ranges the ternary search may reach, and what a round makes of one.
RangesIn(min_input, max_input) ==
  {r \in Int \X Int : min_input <= r[1] /\ r[1] <= r[2] /\ r[2] <= max_input}

Round(hops, r) == IF r[2] - r[1] < Precision THEN r ELSE Narrow(hops, r[1], r[2])

\* A round drops one of the outer thirds, so that the width left does not depend on
\* which.
LEMMA RoundShrinks ==
  ASSUME NEW hops, NEW min_input \in Nat, NEW max_input \in Nat,
         NEW r \in RangesIn(min_input, max_input)
  PROVE  /\ Round(hops, r) \in RangesIn(min_input, max_input)
         /\ ~(r[2] - r[1] < Precision) =>
              Round(hops, r)[2] - Round(hops, r)[1] = (r[2] - r[1]) - (r[2] - r[1]) \div 3
<1> DEFINE third == (r[2] - r[1]) \div 3
<1>1. /\ r \in Int \X Int /\ r[1] \in Int /\ r[2] \in Int
      /\ min_input <= r[1] /\ r[1] <= r[2] /\ r[2] <= max_input
  BY DEF RangesIn
<1>2. third \in Int /\ 0 <= third /\ third <= r[2] - r[1]
  BY <1>1
<1>3. \/ Narrow(hops, r[1], r[2]) = <<r[1] + third, r[2]>>
      \/ Narrow(hops, r[1], r[2]) = <<r[1], r[2] - third>>
  BY DEF Narrow
<1>4. third = (r[2] - r[1]) \div 3
  OBVIOUS
<1> HIDE DEF third
<1>5. Narrow(hops, r[1], r[2]) \in RangesIn(min_input, max_input)
  BY <1>1, <1>2, <1>3 DEF RangesIn
<1>6. Narrow(hops, r[1], r[2])[2] - Narrow(hops, r[1], r[2])[1] = (r[2] - r[1]) - third
  BY <1>1, <1>2, <1>3
<1> QED BY <1>4, <1>5, <1>6 DEF Round

\* The rounds of a search, from the range it is given to the one it returns.
Searched(f, hops, max_input, min_input) ==
  /\ SearchRange(hops, max_input, min_input) = f[Iterations]
  /\ f[0] = <<min_input, max_input>>
  /\ \A k \in 0..Iterations : f[k] \in RangesIn(min_input, max_input)
  /\ \A k \in 1..Iterations : f[k] = Round(hops, f[k - 1])

\* There are such rounds.
LEMMA SearchSteps ==
  ASSUME NEW hops, NEW max_input \in Nat, NEW min_input \in Nat, min_input <= max_input
  PROVE  \E f : Searched(f, hops, max_input, min_input)
<1> DEFINE S == RangesIn(min_input, max_input)
           E(q) == q = [n \in 0..Iterations |->
                         IF n = 0 THEN <<min_input, max_input>>
                         ELSE IF q[n - 1][2] - q[n - 1][1] < Precision THEN q[n - 1]
                         ELSE Narrow(hops, q[n - 1][1], q[n - 1][2])]
           step == [k \in 1..Iterations |-> [r \in S |-> Round(hops, r)]]
<1>0. Iterations \in Nat
  BY MathAssumption
<1>1. <<min_input, max_input>> \in S
  BY DEF RangesIn
<1>2. \A r \in S : Round(hops, r) \in S
  BY RoundShrinks
<1>3. step \in [1..Iterations -> [S -> S]]
  <2> HIDE DEF S
  <2> QED BY <1>2
<1>4. PICK p : Follows(p, S, <<min_input, max_input>>, Iterations, step)
  <2> HIDE DEF step, S
  <2> QED BY <1>0, <1>1, <1>3, StepsExist, Zenon
<1>4a. /\ p \in [0..Iterations -> S] /\ p[0] = <<min_input, max_input>>
       /\ \A k \in 1..Iterations : p[k] = step[k][p[k - 1]]
  BY <1>4, Zenon DEF Follows
<1>5. \A k \in 1..Iterations : p[k] = Round(hops, p[k - 1])
  <2> HIDE DEF S
  <2> SUFFICES ASSUME NEW k \in 1..Iterations PROVE p[k] = Round(hops, p[k - 1])
    OBVIOUS
  <2>1. p[k - 1] \in S
    BY <1>0, <1>4a
  <2> QED BY <1>4a, <2>1
<1>6. E(p)
  <2>1. p = [n \in 0..Iterations |-> p[n]]
    <3> HIDE DEF S
    <3> QED BY <1>4a
  <2>2. \A n \in 0..Iterations :
          p[n] = IF n = 0 THEN <<min_input, max_input>> ELSE Round(hops, p[n - 1])
    <3> HIDE DEF S
    <3> SUFFICES ASSUME NEW n \in 0..Iterations
                 PROVE  p[n] = IF n = 0 THEN <<min_input, max_input>> ELSE Round(hops, p[n - 1])
      OBVIOUS
    <3>1. CASE n = 0
      BY <1>4a, <3>1
    <3>2. CASE n # 0
      <4>1. n \in 1..Iterations
        BY <1>0, <3>2
      <4> QED BY <1>5, <3>2, <4>1
    <3> QED BY <3>1, <3>2
  <2> HIDE DEF S
  <2>3. p = [n \in 0..Iterations |->
               IF n = 0 THEN <<min_input, max_input>> ELSE Round(hops, p[n - 1])]
    BY <2>1, <2>2
  <2> QED BY <2>3 DEF Round
<1> DEFINE f == CHOOSE q : E(q)
<1>7. SearchRange(hops, max_input, min_input) = f[Iterations]
  BY DEF SearchRange
<1>8. E(f)
  BY <1>6
<1> HIDE DEF f
<1>9. f[0] = <<min_input, max_input>> /\ \A k \in 1..Iterations : f[k] = Round(hops, f[k - 1])
  BY <1>0, <1>8 DEF Round
<1>10. \A k \in 0..Iterations : f[k] \in S
  <2> HIDE DEF S, E
  <2>1. f[0] \in S
    BY <1>1, <1>9
  <2>2. \A k \in 1..Iterations : f[k - 1] \in S => f[k] \in S
    BY <1>2, <1>9
  <2> QED BY <1>0, <2>1, <2>2, StepsStay
<1> QED BY <1>7, <1>9, <1>10 DEF Searched

\* The ternary search stays between the two inputs it is given.
LEMMA SearchTyped ==
  ASSUME NEW hops, NEW max_input \in Nat, NEW min_input \in Nat, min_input <= max_input
  PROVE  LET range == SearchRange(hops, max_input, min_input)
         IN  /\ range[1] \in Int /\ range[2] \in Int
             /\ min_input <= range[1] /\ range[1] <= range[2] /\ range[2] <= max_input
<1>1. PICK f : Searched(f, hops, max_input, min_input)
  BY SearchSteps
<1>2. PICK range \in RangesIn(min_input, max_input) : range = SearchRange(hops, max_input, min_input)
  BY <1>1, MathAssumption DEF Searched
<1> QED BY <1>2 DEF RangesIn

\* The optimizer answers with a u64 of its range, or with zero.
LEMMA OptimumTyped ==
  ASSUME NEW hops
  PROVE  /\ optimize_arb_amount(hops, MaxInput, MinInput).amount \in Amounts
         /\ optimize_arb_amount(hops, MaxInput, MinInput).amount <= MaxInput
<1> DEFINE range == SearchRange(hops, MaxInput, MinInput)
           optimal == (range[1] + range[2]) \div 2
<1>0. 0 \in Amounts /\ MaxInput \in Nat /\ MinInput \in Nat
  BY WordAssumption, StrategyAssumption DEF Amounts
<1>1. CASE hops = <<>> \/ MaxInput <= MinInput
  BY <1>0, <1>1 DEF optimize_arb_amount
<1>2. CASE ~(hops = <<>> \/ MaxInput <= MinInput)
  <2>1. /\ range[1] \in Int /\ range[2] \in Int
        /\ MinInput <= range[1] /\ range[1] <= range[2] /\ range[2] <= MaxInput
    BY <1>0, <1>2, SearchTyped
  <2> HIDE DEF range
  <2>2. optimal \in Int /\ 0 <= optimal /\ optimal <= MaxInput
    BY <1>0, <2>1
  <2>3. optimal \in Amounts
    <3>1. MaxInput <= U64 - 1
      BY StrategyAssumption, WordAssumption DEF Amounts
    <3> HIDE DEF optimal
    <3> QED BY <1>0, <2>2, <3>1, WordAssumption DEF Amounts
  <2>4. optimize_arb_amount(hops, MaxInput, MinInput).amount = optimal
    BY <1>2 DEF optimize_arb_amount, range
  <2> HIDE DEF optimal
  <2> QED BY <2>2, <2>3, <2>4
<1> QED BY <1>1, <1>2

------------------------------------------------------------------------------
(* The invariant *)

Accounts == UNION {Contents[p] : p \in Pools}
Broadcasts == [pool : Pools, account : Accounts]

\* An account in the cache was written by an update to that account, and no
\* evaluation began with a cache newer than today's.
Cached ==
  /\ \A p \in Pools : cache[p] # 0 => updates[cache[p]].pool = p
  /\ \A s \in Strategies, p \in Pools : began[s][p] <= cache[p]

\* Update i left p with a usable account, in the cache since s began evaluating.
Backed(s, p, i) ==
  /\ p \in Pools
  /\ i \in began[s][p]..cache[p]
  /\ i \in DOMAIN updates
  /\ updates[i].pool = p
  /\ Readable(s, i) # {}

\* No cycle is empty, and the accounts read of the one in hand are backed.
InHand(s) ==
  /\ <<>> \notin job[s].todo
  /\ Len(job[s].read) <= Len(job[s].path)
  /\ job[s].path # <<>> => Len(job[s].read) < Len(job[s].path)
  /\ \A k \in 1..Len(job[s].read) : Backed(s, job[s].path[k].pool, job[s].read[k])

\* So are those each opportunity was priced from.
Founded(s) ==
  \A o \in found[s] : \A k \in DOMAIN o.path : Backed(s, o.path[k].pool, o.read[k])

\* The counter counts decoded updates.
Lagging == updates_since_publish <= Len(decoded) /\ SnapshotLags

Inv == TypeOK /\ Cached /\ (\A s \in Strategies : InHand(s) /\ Founded(s)) /\ Lagging

\* Whatever pool an update has been decoded to is typed.
LEMMA PoolsInTyped ==
  ASSUME updates \in Seq(Broadcasts), NEW i, NEW pool \in PoolsIn(i)
  PROVE  PoolTyped(pool)
<1>1. i \in DOMAIN updates /\ pool \in decode_pool(updates[i].account)
  BY DEF PoolsIn
<1>2. updates[i] \in Broadcasts
  BY <1>1
<1>3. updates[i].account \in Accounts
  BY <1>2 DEF Broadcasts
<1>4. PICK p \in Pools : updates[i].account \in Contents[p]
  BY <1>3 DEF Accounts
<1>5. /\ WellFormed(updates[i].account)
      /\ {updates[i].account.token_a, updates[i].account.token_b} \subseteq Mints
  BY <1>4, StrategyAssumption
<1> QED BY <1>1, <1>5, DecodedTyped

\* A state whose updates are of known accounts keeps every product.
LEMMA KeepsProduct ==
  ASSUME updates \in Seq(Broadcasts)
  PROVE  QuotesKeepProduct
<1> SUFFICES ASSUME NEW pool \in PoolsSeen, NEW input \in {pool.token_a, pool.token_b},
                    NEW amount \in 1..MaxInput,
                    NEW swap \in quote(pool, input, amount)
             PROVE  LET hop == Hop(pool, input)
                    IN  (hop.reserve_in + amount) * (hop.reserve_out - swap.out)
                          >= hop.reserve_in * hop.reserve_out
  BY DEF QuotesKeepProduct
<1> DEFINE hop == Hop(pool, input)
<1>1. PoolTyped(pool)
  BY PoolsInTyped DEF PoolsSeen
<1>2. /\ hop.reserve_in \in Nat /\ hop.reserve_out \in Nat
      /\ hop.num \in Nat /\ hop.den \in Nat
  BY <1>1, HopTyped, WordAssumption DEF Amounts
<1>3. amount \in Nat
  BY StrategyAssumption, WordAssumption DEF Amounts
<1>4. swap \in swap_base_in(hop.reserve_in, hop.reserve_out, amount, hop.num, hop.den)
  BY DEF quote
<1> HIDE DEF hop
<1> QED BY <1>2, <1>3, <1>4, SwapKeepsProduct DEF hop

\* Such a state has no pool whose inverse quote falls short.
LEMMA InverseSuffices ==
  ASSUME updates \in Seq(Broadcasts)
  PROVE  InverseQuoteSuffices
<1> SUFFICES ASSUME NEW pool \in PoolsSeen, NEW input \in {pool.token_a, pool.token_b},
                    NEW amount \in 1..MaxInput
             PROVE  LET hop == Hop(pool, input)
                        before_fee == InputBeforeFee(hop.reserve_in, hop.reserve_out, amount)
                    IN  \A swap \in swap_base_out(hop.reserve_in, hop.reserve_out, amount, hop.num, hop.den) :
                          (before_fee < U64 /\ InputWithFee(before_fee, hop.num, hop.den) < U64)
                            => Output(quote(pool, input, swap.in)) >= amount
  BY DEF InverseQuoteSuffices
<1> DEFINE hop == Hop(pool, input)
<1>1. PoolTyped(pool)
  BY PoolsInTyped DEF PoolsSeen
<1>2. /\ hop.reserve_in \in Nat /\ hop.reserve_out \in Nat
      /\ hop.num \in Nat /\ hop.den \in Nat
  BY <1>1, HopTyped, WordAssumption DEF Amounts
<1>3. amount \in Nat
  BY StrategyAssumption, WordAssumption DEF Amounts
<1>4. \A x : quote(pool, input, x)
               = swap_base_in(hop.reserve_in, hop.reserve_out, x, hop.num, hop.den)
  BY DEF quote
<1> HIDE DEF hop
<1> SUFFICES ASSUME NEW swap \in swap_base_out(hop.reserve_in, hop.reserve_out, amount, hop.num, hop.den),
                    InputBeforeFee(hop.reserve_in, hop.reserve_out, amount) < U64,
                    InputWithFee(InputBeforeFee(hop.reserve_in, hop.reserve_out, amount),
                                 hop.num, hop.den) < U64
             PROVE  Output(quote(pool, input, swap.in)) >= amount
  BY DEF hop
<1>5. Output(swap_base_in(hop.reserve_in, hop.reserve_out, swap.in, hop.num, hop.den)) >= amount
  BY <1>2, <1>3, InverseReaches
<1> QED BY <1>4, <1>5

------------------------------------------------------------------------------
(* Cycles and prices *)

LongPaths == Paths \ {<<>>}

\* Edges lead from mint to mint.
LEMMA EdgesTyped ==
  ASSUME updates \in Seq(Broadcasts), NEW g
  PROVE  Edges(g) \subseteq Hops
<1>1. ASSUME NEW p \in Pools, NEW q \in PoolsIn(g[p])
      PROVE  PoolAt(g[p]).token_a \in Mints /\ PoolAt(g[p]).token_b \in Mints
  <2>1. PoolAt(g[p]) \in PoolsIn(g[p])
    BY <1>1 DEF PoolAt
  <2> QED BY <2>1, PoolsInTyped DEF PoolTyped
<1> SUFFICES ASSUME NEW e \in Edges(g) PROVE e \in Hops
  OBVIOUS
<1>2. PICK p \in Pools : /\ PoolsIn(g[p]) # {}
                         /\ e.pool = p /\ {e.input, e.output} = {PoolAt(g[p]).token_a, PoolAt(g[p]).token_b}
                         /\ e = [pool |-> e.pool, input |-> e.input, output |-> e.output]
  BY DEF Edges
<1>3. e.input \in Mints /\ e.output \in Mints
  BY <1>1, <1>2
<1> QED BY <1>2, <1>3 DEF Hops

\* A cycle found in a graph is a sequence of hops, and not empty.
LEMMA CyclesLong ==
  ASSUME updates \in Seq(Broadcasts), NEW g, NEW n \in Nat
  PROVE  Cycles(g, n) \subseteq LongPaths
<1>1. ASSUME NEW anchor, NEW path \in PathsFrom(Edges(g), anchor, n)
      PROVE  path \in LongPaths
  <2>1. PICK k \in 2..n : path \in [1..k -> Edges(g)]
    BY DEF PathsFrom
  <2>2. path \in [1..k -> Hops] /\ k \in Nat /\ k >= 2
    BY <2>1, EdgesTyped
  <2>3. path \in Seq(Hops) /\ Len(path) = k
    BY <2>2
  <2> QED BY <2>2, <2>3 DEF LongPaths, Paths
<1> QED BY <1>1 DEF Cycles

\* What it takes to price a path: an account with a pool for every hop.
Priceable(path, read) ==
  /\ path \in LongPaths /\ read \in Reads
  /\ Len(read) = Len(path)
  /\ \A k \in 1..Len(read) : PoolsIn(read[k]) # {}

Opportunities == [path : Seq(Steps), expected_profit : Int, read : Reads]

\* An opportunity names the pools of its cycle and the accounts it was priced from.
LEMMA OpportunityTyped ==
  ASSUME updates \in Seq(Broadcasts), NEW path, NEW read, Priceable(path, read),
         NEW start \in Amounts, NEW slippage \in Nat \X (Nat \ {0}),
         NEW o \in Opportunity(path, read, start, slippage)
  PROVE  /\ o \in Opportunities /\ o.read = read
         /\ DOMAIN o.path = 1..Len(read)
         /\ \A k \in DOMAIN o.path : o.path[k].pool = path[k].pool
<1> DEFINE amount == AmountsQuoted(path, read, start)
           n == Len(path)
           steps == [k \in DOMAIN path |-> Step(path[k], amount[k - 1], amount[k], slippage)]
<1>1. o = [path |-> steps, expected_profit |-> DifferenceAsI64(amount[n], start), read |-> read]
  BY DEF Opportunity
<1>2. /\ n \in Nat /\ Len(read) = n /\ DOMAIN path = 1..n
      /\ read \in Reads /\ read \in Seq(Nat)
      /\ \A k \in 1..n : path[k] \in Hops
  BY StrategyAssumption, SMTT(30) DEF Priceable, LongPaths, Paths, Reads, Indices
<1>3. \A k \in 1..Len(read) : PoolTyped(PoolAt(read[k]))
  BY PoolsInTyped DEF Priceable, PoolAt
<1>4. \A k \in 0..n : amount[k] \in Amounts
  BY <1>2, <1>3, AmountsTyped
<1> HIDE DEF amount
<1>5. \A k \in 1..n : steps[k] \in Steps /\ steps[k].pool = path[k].pool
  <2> SUFFICES ASSUME NEW k \in 1..n
               PROVE  Step(path[k], amount[k - 1], amount[k], slippage) \in Steps
    BY <1>2 DEF Step
  <2>1. k \in 0..n /\ k - 1 \in 0..n
    BY <1>2
  <2>2. amount[k] \in Nat /\ slippage[1] \in Nat /\ slippage[2] \in Nat /\ slippage[2] > 0
    BY <1>4, <2>1, WordAssumption DEF Amounts
  <2>3. amount[k] * slippage[1] \in Nat
    BY <2>2
  <2> DEFINE cut == AsU64(amount[k] * slippage[1])
  <2>4. cut \in Amounts
    BY <2>3, CastBounds
  <2> HIDE DEF cut
  <2>5. cut \in Nat /\ cut \div slippage[2] \in Nat /\ cut \div slippage[2] <= cut
    <3>1. cut \in Nat
      BY <2>4, WordAssumption DEF Amounts
    <3> DEFINE d == cut \div slippage[2]
    <3>2. d \in Nat /\ slippage[2] * d <= cut
      BY <2>2, <3>1, DivisionBounds
    <3> HIDE DEF d
    <3>3. 1 * d <= slippage[2] * d /\ 1 * d = d /\ slippage[2] * d \in Int
      BY <2>2, <3>2, ProductMonotone
    <3>4. d <= cut
      BY <3>1, <3>2, <3>3
    <3> QED BY <3>1, <3>2, <3>4 DEF d
  <2>6. cut \div slippage[2] \in Amounts
    BY <2>4, <2>5, WordAssumption DEF Amounts
  <2>7. path[k].pool \in Pools /\ path[k].input \in Mints /\ path[k].output \in Mints
    BY <1>2 DEF Hops
  <2>8. amount[k - 1] \in Amounts
    BY <1>4, <2>1
  <2> QED BY <2>6, <2>7, <2>8 DEF Step, Steps, cut
<1>6. steps \in Seq(Steps) /\ DOMAIN steps = 1..n
  <2>1. steps \in [1..n -> Steps] /\ n \in Nat
    BY <1>2, <1>5
  <2> HIDE DEF steps, n
  <2> QED BY <2>1
<1>7. DifferenceAsI64(amount[n], start) \in Int
  <2>1. amount[n] \in Int /\ start \in Int
    BY <1>2, <1>4, WordAssumption DEF Amounts
  <2> QED BY <2>1, WordAssumption DEF DifferenceAsI64, AsU64
<1> HIDE DEF steps
<1>8. o \in Opportunities
  BY <1>1, <1>2, <1>6, <1>7 DEF Opportunities
<1>9. o.path = steps /\ o.read = read
  BY <1>1
<1> QED BY <1>2, <1>5, <1>6, <1>8, <1>9

\* So does every opportunity a strategy keeps.
LEMMA PricedTyped ==
  ASSUME updates \in Seq(Broadcasts), NEW s, NEW path, NEW read, Priceable(path, read),
         NEW o \in Priced(s, path, read)
  PROVE  /\ o \in Opportunities /\ o.read = read
         /\ DOMAIN o.path = 1..Len(read)
         /\ \A k \in DOMAIN o.path : o.path[k].pool = path[k].pool
<1> DEFINE best == optimize_arb_amount(HopsRead(path, read), MaxInput, MinInput)
<1>1. \/ o \in Opportunity(path, read, best.amount, Slippage)
      \/ o \in Opportunity(path, read, BackrunStart, BackrunSlippage)
  BY DEF Priced, SimulateCycle
<1>2. best.amount \in Amounts
  BY OptimumTyped
<1> HIDE DEF best
<1> QED BY <1>1, <1>2, StrategyAssumption, OpportunityTyped

------------------------------------------------------------------------------
(* What stays true while the chain grows and the cache moves on *)

Grows ==
  /\ updates \in Seq(Broadcasts) /\ updates' \in Seq(Broadcasts)
  /\ \A i \in DOMAIN updates : i \in DOMAIN updates' /\ updates'[i] = updates[i]

CacheGrows == \A p \in Pools : cache[p] \in Nat /\ cache'[p] \in Nat /\ cache[p] <= cache'[p]

BeganTyped == \A s \in Strategies, p \in Pools : began[s][p] \in Nat

\* A backed account stays backed for as long as its evaluation lasts.
LEMMA BackedStable ==
  ASSUME Grows, CacheGrows, BeganTyped, NEW s \in Strategies, began'[s] = began[s],
         NEW p, NEW i, Backed(s, p, i)
  PROVE  Backed(s, p, i)'
<1>1. /\ p \in Pools /\ i \in began[s][p]..cache[p]
      /\ i \in DOMAIN updates /\ updates[i].pool = p /\ Readable(s, i) # {}
  BY DEF Backed
<1>2. i \in DOMAIN updates' /\ updates'[i] = updates[i]
  BY <1>1 DEF Grows
<1>3. Readable(s, i)' = Readable(s, i)
  BY <1>1, <1>2 DEF Readable, PoolsIn
<1>4. i \in began'[s][p]..cache'[p]
  BY <1>1 DEF CacheGrows, BeganTyped
<1> QED BY <1>1, <1>2, <1>3, <1>4 DEF Backed

\* So an evaluation that does not move keeps what it has.
LEMMA SearchStable ==
  ASSUME Grows, CacheGrows, BeganTyped, NEW s \in Strategies,
         job'[s] = job[s], found'[s] = found[s], began'[s] = began[s],
         InHand(s), Founded(s)
  PROVE  InHand(s)' /\ Founded(s)'
<1>1. \A p, i : Backed(s, p, i) => Backed(s, p, i)'
  BY BackedStable
<1>2. InHand(s)'
  <2>1. \A k \in 1..Len(job[s].read) : Backed(s, job[s].path[k].pool, job[s].read[k])
    BY DEF InHand
  <2>2. ASSUME NEW k \in 1..Len(job'[s].read)
        PROVE  Backed(s, job[s].path[k].pool, job[s].read[k])'
    <3>1. PICK p, i : p = job[s].path[k].pool /\ i = job[s].read[k]
      OBVIOUS
    <3>2. Backed(s, p, i)
      BY <2>1, <3>1
    <3>3. Backed(s, p, i)'
      BY <1>1, <3>2
    <3>4. p = job'[s].path[k].pool /\ i = job'[s].read[k]
      BY <3>1
    <3> QED BY <3>3, <3>4 DEF Backed, Readable, PoolsIn
  <2> QED BY <2>2 DEF InHand, Backed, Readable, PoolsIn
<1>3. Founded(s)'
  BY <1>1 DEF Founded
<1> QED BY <1>2, <1>3

\* An evaluation that has just begun has nothing yet that needs backing.
LEMMA SearchBegun ==
  ASSUME TypeOK, NEW s \in Strategies, NEW cycles \in SUBSET LongPaths, Begin(s, cycles)
  PROVE  InHand(s)' /\ Founded(s)'
<1>1. /\ job'[s] = [todo |-> cycles, path |-> <<>>, read |-> <<>>]
      /\ found'[s] = {}
  BY DEF TypeOK, Begin, Idle
<1>2. Len(<<>>) = 0 /\ <<>> \notin cycles
  BY DEF LongPaths
<1> QED BY <1>1, <1>2 DEF InHand, Founded

\* The greatest element, when there is one.
LEMMA MaxIs ==
  ASSUME NEW S \in SUBSET Int, NEW m \in S, \A y \in S : m >= y
  PROVE  Max(S) = m
<1>1. \A x \in S : (\A y \in S : x >= y) => x = m
  OBVIOUS
<1>2. (CHOOSE x \in S : \A y \in S : x >= y) = m
  BY <1>1
<1> QED BY <1>2 DEF Max

\* What a decoded update was to the graph stays so.
LEMMA GraphAfterStable ==
  ASSUME Grows, NEW n \in Nat, NEW top \in Nat, top <= Len(updates),
         \A k \in 1..n : decoded[k] \in 1..top /\ decoded'[k] = decoded[k]
  PROVE  GraphAfter(n)' = GraphAfter(n)
<1>1. \A k \in 1..n : /\ decoded[k] \in DOMAIN updates /\ decoded[k] \in DOMAIN updates'
                      /\ updates'[decoded[k]] = updates[decoded[k]]
  BY DEF Grows
<1> DEFINE Useful(k, p) == updates[decoded[k]].pool = p
                             /\ \E pool \in PoolsIn(decoded[k]) : HasReserves(pool)
<1>2. ASSUME NEW p \in Pools
      PROVE  {k \in 1..n : Useful(k, p)'} = {k \in 1..n : Useful(k, p)}
  <2> SUFFICES ASSUME NEW k \in 1..n PROVE Useful(k, p)' <=> Useful(k, p)
    OBVIOUS
  <2>1. PoolsIn(decoded[k])' = PoolsIn(decoded[k])
    BY <1>1 DEF PoolsIn
  <2> QED BY <1>1, <2>1
<1>3. ASSUME NEW p \in Pools
      PROVE  {decoded'[k] : k \in {k \in 1..n : Useful(k, p)'}}
               = {decoded[k] : k \in {k \in 1..n : Useful(k, p)}}
  <2> DEFINE K == {k \in 1..n : Useful(k, p)}
             L == {k \in 1..n : Useful(k, p)'}
  <2>1. \A k \in K : decoded'[k] = decoded[k]
    OBVIOUS
  <2>2. L = K
    BY <1>2
  <2> SUFFICES {decoded'[k] : k \in L} = {decoded[k] : k \in K}
    OBVIOUS
  <2> HIDE DEF K, L
  <2> QED BY <2>1, <2>2
<1> QED BY <1>3 DEF GraphAfter

------------------------------------------------------------------------------
(* The steps of the chain and of the cache *)

\* At the start nothing is read, decoded or found.
LEMMA InvInit == Init => Inv
<1> SUFFICES ASSUME Init PROVE Inv
  OBVIOUS
<1> USE DEF Init, Nothing, Idle
<1>1. TypeOK
  <2>1. PublishEvery \in Nat /\ PublishEvery >= 1 /\ MaxUpdates \in Nat
    BY StrategyAssumption
  <2>2. <<>> \in Paths /\ <<>> \in Reads /\ Len(updates) = 0
    BY DEF Paths, Reads
  <2> QED BY <2>1, <2>2 DEF TypeOK
<1>2. Cached
  BY DEF Cached
<1>3. \A s \in Strategies : InHand(s) /\ Founded(s)
  BY DEF InHand, Founded
<1>4. Lagging
  <2>1. Len(decoded) = 0 /\ updates_since_publish = 0
    OBVIOUS
  <2>2. GraphAfter(0) = Nothing
    <3> SUFFICES ASSUME NEW p \in Pools PROVE GraphAfter(0)[p] = 0
      BY DEF GraphAfter
    <3> DEFINE seen == {decoded[k] : k \in {k \in 1..0 :
                         /\ updates[decoded[k]].pool = p
                         /\ \E pool \in PoolsIn(decoded[k]) : HasReserves(pool)}}
    <3>a. GraphAfter(0)[p] = Max({0} \cup seen)
      BY Zenon DEF GraphAfter
    <3>b. seen = {}
      OBVIOUS
    <3> HIDE DEF seen
    <3>1. GraphAfter(0)[p] = Max({0})
      <4>1. {0} \cup seen = {0}
        BY <3>b
      <4> QED BY <3>a, <4>1
    <3>2. Max({0}) = 0
      <4>1. {0} \in SUBSET Int /\ 0 \in {0} /\ \A y \in {0} : 0 >= y
        OBVIOUS
      <4> QED BY <4>1, MaxIs
    <3> QED BY <3>1, <3>2
  <2>3. Len(decoded) - updates_since_publish = 0
    BY <2>1
  <2> QED BY <2>1, <2>2, <2>3 DEF Lagging, SnapshotLags
<1> QED BY <1>1, <1>2, <1>3, <1>4 DEF Inv

\* What a state of the invariant gives the lemmas above.
LEMMA InvFacts ==
  ASSUME Inv
  PROVE  /\ updates \in Seq(Broadcasts) /\ Len(updates) \in Nat /\ DOMAIN updates = 1..Len(updates)
         /\ Len(updates) <= MaxUpdates /\ MaxUpdates \in Nat
         /\ position["cache"] \in Nat /\ position["cache"] <= Len(updates)
         /\ position["dex_arb"] \in Nat /\ position["dex_arb"] <= Len(updates)
         /\ \A p \in Pools : cache[p] \in Nat /\ cache[p] <= position["cache"]
         /\ BeganTyped
         /\ decoded \in Seq(Nat) /\ Len(decoded) \in Nat
         /\ \A k \in 1..Len(decoded) : decoded[k] \in 1..position["dex_arb"]
         /\ updates_since_publish \in Nat
<1>1. updates \in Seq(Broadcasts)
  BY DEF Inv, TypeOK, Broadcasts, Accounts
<1>2. Len(updates) \in Nat /\ DOMAIN updates = 1..Len(updates)
  BY <1>1, LenProperties
<1>3. /\ position["cache"] \in 0..Len(updates) /\ position["dex_arb"] \in 0..Len(updates)
      /\ Len(updates) <= MaxUpdates /\ MaxUpdates \in Nat
  BY StrategyAssumption DEF Inv, TypeOK
<1>4. \A p \in Pools : cache[p] \in 0..position["cache"]
  BY DEF Inv, TypeOK
<1>5. \A s \in Strategies, p \in Pools : began[s][p] \in 0..position["cache"]
  BY DEF Inv, TypeOK
<1>6. decoded \in Seq(1..position["dex_arb"])
  BY DEF Inv, TypeOK
<1>7. /\ decoded \in Seq(Nat) /\ Len(decoded) \in Nat
      /\ \A k \in 1..Len(decoded) : decoded[k] \in 1..position["dex_arb"]
  BY <1>3, <1>6
<1>8. updates_since_publish \in Nat
  BY StrategyAssumption DEF Inv, TypeOK
<1> QED BY <1>2, <1>1, <1>3, <1>4, <1>5, <1>7, <1>8 DEF BeganTyped

\* A step that leaves the graphs alone leaves their history true.
LEMMA LagStable ==
  ASSUME Inv, Grows, UNCHANGED graphVars
  PROVE  Lagging'
<1>1. /\ decoded' = decoded /\ graph' = graph /\ snapshot' = snapshot
      /\ updates_since_publish' = updates_since_publish
  BY DEF graphVars
<1>2. /\ updates_since_publish <= Len(decoded) /\ graph = GraphAfter(Len(decoded))
      /\ snapshot = GraphAfter(Len(decoded) - updates_since_publish)
  BY DEF Inv, Lagging, SnapshotLags
<1>3. ASSUME NEW n \in 0..Len(decoded) PROVE GraphAfter(n)' = GraphAfter(n)
  <2>1. n \in Nat /\ \A k \in 1..n : decoded[k] \in 1..position["dex_arb"]
    BY InvFacts
  <2> QED BY <1>1, <2>1, InvFacts, GraphAfterStable
<1>4. GraphAfter(Len(decoded))' = GraphAfter(Len(decoded))
  <2>1. Len(decoded) \in 0..Len(decoded)
    BY InvFacts
  <2>2. \A n \in 0..Len(decoded) : GraphAfter(n)' = GraphAfter(n)
    BY <1>3
  <2> QED BY <1>1, <2>1, <2>2 DEF GraphAfter
<1>5. GraphAfter(Len(decoded) - updates_since_publish)'
        = GraphAfter(Len(decoded) - updates_since_publish)
  <2>1. Len(decoded) - updates_since_publish \in 0..Len(decoded)
    BY <1>2, InvFacts
  <2>2. \A n \in 0..Len(decoded) : GraphAfter(n)' = GraphAfter(n)
    BY <1>3
  <2> QED BY <1>1, <2>1, <2>2 DEF GraphAfter
<1> QED BY <1>1, <1>2, <1>4, <1>5 DEF Lagging, SnapshotLags

\* A step that moves no evaluation keeps all they have.
LEMMA SearchesStable ==
  ASSUME Inv, Grows, CacheGrows, UNCHANGED searchVars
  PROVE  \A s \in Strategies : InHand(s)' /\ Founded(s)'
<1> SUFFICES ASSUME NEW s \in Strategies PROVE InHand(s)' /\ Founded(s)'
  OBVIOUS
<1>1. job'[s] = job[s] /\ found'[s] = found[s] /\ began'[s] = began[s]
  BY DEF searchVars
<1>2. InHand(s) /\ Founded(s)
  BY DEF Inv
<1> QED BY <1>1, <1>2, InvFacts, SearchStable

\* An update is broadcast.
LEMMA WriteKeeps ==
  ASSUME Inv, NEW w \in Pools, Write(w)
  PROVE  Inv'
<1>1. PICK account \in Contents[w] : updates' = Append(updates, [pool |-> w, account |-> account])
  BY DEF Write
<1>2. /\ Len(updates) < MaxUpdates /\ position' = position /\ cache' = cache
      /\ UNCHANGED graphVars /\ UNCHANGED searchVars
  BY DEF Write
<1> DEFINE new == [pool |-> w, account |-> account]
<1>3. new \in Broadcasts
  BY DEF Broadcasts, Accounts
<1> HIDE DEF new
<1>4. updates' \in Seq(Broadcasts) /\ Len(updates') = Len(updates) + 1
  BY <1>1, <1>3, InvFacts DEF new
<1>5. Grows
  BY <1>1, <1>4, InvFacts DEF Grows, new
<1>6. CacheGrows
  BY <1>2, InvFacts DEF CacheGrows
<1>7. TypeOK'
  <2>1. updates' \in Seq([pool : Pools, account : UNION {Contents[p] : p \in Pools}])
    BY <1>4 DEF Broadcasts, Accounts
  <2>2. Len(updates') <= MaxUpdates /\ position \in [{"cache", "dex_arb"} -> 0..Len(updates')]
    <3>1. position \in [{"cache", "dex_arb"} -> 0..Len(updates)]
      BY DEF Inv, TypeOK
    <3> QED BY <1>2, <1>4, <3>1, InvFacts
  <2> QED BY <1>2, <2>1, <2>2 DEF Inv, TypeOK, graphVars, searchVars
<1>8. Cached'
  <2>1. Cached
    BY DEF Inv
  <2>2. \A p \in Pools : cache[p] # 0 => updates'[cache[p]] = updates[cache[p]]
    BY <1>5, InvFacts DEF Grows
  <2> QED BY <1>2, <2>1, <2>2 DEF Cached, searchVars
<1>9. \A s \in Strategies : InHand(s)' /\ Founded(s)'
  BY <1>2, <1>5, <1>6, SearchesStable
<1>10. Lagging'
  BY <1>2, <1>5, LagStable
<1> QED BY <1>7, <1>8, <1>9, <1>10 DEF Inv

\* The cache takes an update.
LEMMA CacheUpdateKeeps ==
  ASSUME Inv, CacheUpdate
  PROVE  Inv'
<1> DEFINE at == position["cache"] + 1
           q == updates[at].pool
<1>1. /\ position["cache"] < Len(updates)
      /\ position' = [position EXCEPT !["cache"] = position["cache"] + 1]
      /\ cache' = [cache EXCEPT ![q] = at]
      /\ updates' = updates /\ UNCHANGED graphVars /\ UNCHANGED searchVars
  BY DEF CacheUpdate, Behind, Advance, Upcoming
<1>2. at \in Nat /\ at \in DOMAIN updates /\ at # 0
  BY <1>1, InvFacts
<1>3. q \in Pools
  <2>1. updates[at] \in Broadcasts
    BY <1>2, InvFacts
  <2> QED BY <2>1 DEF Broadcasts
<1> HIDE DEF q
<1>4. position \in [{"cache", "dex_arb"} -> 0..Len(updates)]
      /\ cache \in [Pools -> 0..position["cache"]]
  BY DEF Inv, TypeOK
<1>5. /\ position'["cache"] = at /\ position'["dex_arb"] = position["dex_arb"]
      /\ \A p \in Pools : cache'[p] = IF p = q THEN at ELSE cache[p]
  BY <1>1, <1>4
<1>6. Grows
  BY <1>1, InvFacts DEF Grows
<1>7. CacheGrows
  BY <1>2, <1>5, InvFacts DEF CacheGrows
<1>8. TypeOK'
  <2>1. position' \in [{"cache", "dex_arb"} -> 0..Len(updates)]
    BY <1>1, <1>2, <1>4, InvFacts
  <2>2. cache' \in [Pools -> 0..at]
    <3>1. cache \in [Pools -> 0..at]
      BY <1>4, InvFacts
    <3>2. at \in 0..at
      BY <1>2
    <3> HIDE DEF at
    <3> QED BY <1>1, <3>1, <3>2
  <2>3. began \in [Strategies -> [Pools -> 0..at]]
    <3>1. began \in [Strategies -> [Pools -> 0..position["cache"]]]
      BY DEF Inv, TypeOK
    <3>2. 0..position["cache"] \subseteq 0..at
      BY InvFacts
    <3> QED BY <3>1, <3>2
  <2> QED BY <1>1, <1>5, <2>1, <2>2, <2>3 DEF Inv, TypeOK, graphVars, searchVars
<1>9. Cached'
  <2>1. \A p \in Pools : cache'[p] # 0 => updates'[cache'[p]].pool = p
    BY <1>1, <1>5 DEF Inv, Cached, q
  <2>2. \A s \in Strategies, p \in Pools : began'[s][p] <= cache'[p]
    BY <1>1, <1>7, InvFacts DEF Inv, Cached, CacheGrows, BeganTyped, searchVars
  <2> QED BY <2>1, <2>2 DEF Cached
<1>10. \A s \in Strategies : InHand(s)' /\ Founded(s)'
  BY <1>1, <1>6, <1>7, SearchesStable
<1>11. Lagging'
  BY <1>1, <1>6, LagStable
<1> QED BY <1>8, <1>9, <1>10, <1>11 DEF Inv

\* The strategy passes over an update.
LEMMA PassUpdateKeeps ==
  ASSUME Inv, PassUpdate
  PROVE  Inv'
<1>1. /\ position["dex_arb"] < Len(updates)
      /\ position' = [position EXCEPT !["dex_arb"] = position["dex_arb"] + 1]
      /\ cache' = cache /\ updates' = updates /\ UNCHANGED graphVars /\ UNCHANGED searchVars
  BY DEF PassUpdate, Behind, Advance
<1>2. position \in [{"cache", "dex_arb"} -> 0..Len(updates)]
  BY DEF Inv, TypeOK
<1>3. position'["cache"] = position["cache"] /\ position'["dex_arb"] = position["dex_arb"] + 1
  BY <1>1, <1>2
<1>4. TypeOK'
  <2>1. position' \in [{"cache", "dex_arb"} -> 0..Len(updates)]
    BY <1>1, <1>2, InvFacts
  <2>2. /\ 0..position["dex_arb"] \subseteq 0..position'["dex_arb"]
        /\ 1..position["dex_arb"] \subseteq 1..position'["dex_arb"]
    BY <1>3, InvFacts
  <2>3. graph \in [Pools -> 0..position'["dex_arb"]] /\ snapshot \in [Pools -> 0..position'["dex_arb"]]
    BY <2>2 DEF Inv, TypeOK
  <2>4. decoded \in Seq(1..position'["dex_arb"])
    <3>1. decoded \in Seq(1..position["dex_arb"])
      BY DEF Inv, TypeOK
    <3> QED BY <2>2, <3>1, SeqMonotonic
  <2> QED BY <1>1, <1>3, <2>1, <2>3, <2>4 DEF Inv, TypeOK, graphVars, searchVars
<1>5. Grows /\ CacheGrows
  BY <1>1, InvFacts DEF Grows, CacheGrows
<1>6. Cached'
  BY <1>1 DEF Inv, Cached, searchVars
<1>7. \A s \in Strategies : InHand(s)' /\ Founded(s)'
  BY <1>1, <1>5, SearchesStable
<1>8. Lagging'
  BY <1>1, <1>5, LagStable
<1> QED BY <1>4, <1>6, <1>7, <1>8 DEF Inv

------------------------------------------------------------------------------
(* The steps that begin an evaluation *)

\* An evaluation begins: its own account starts afresh, the other one's goes on.
LEMMA BeginKeeps ==
  ASSUME Inv, NEW s \in Strategies, NEW cycles \in SUBSET LongPaths, Begin(s, cycles),
         updates' = updates, cache' = cache, position'["cache"] = position["cache"]
  PROVE  /\ job' \in [Strategies -> [todo : SUBSET Paths, path : Paths, read : Reads]]
         /\ found' \in [Strategies -> SUBSET Opportunities]
         /\ began' \in [Strategies -> [Pools -> 0..position'["cache"]]]
         /\ Cached'
         /\ \A t \in Strategies : InHand(t)' /\ Founded(t)'
<1>1. /\ job \in [Strategies -> [todo : SUBSET Paths, path : Paths, read : Reads]]
      /\ found \in [Strategies -> SUBSET Opportunities]
      /\ began \in [Strategies -> [Pools -> 0..position["cache"]]]
      /\ cache \in [Pools -> 0..position["cache"]]
  BY DEF Inv, TypeOK, Opportunities
<1> DEFINE fresh == [todo |-> cycles, path |-> <<>>, read |-> <<>>]
<1>2. /\ job' = [job EXCEPT ![s] = fresh]
      /\ found' = [found EXCEPT ![s] = {}]
      /\ began' = [began EXCEPT ![s] = cache]
  <2>1. [Idle EXCEPT !.todo = cycles] = fresh
    BY DEF Idle
  <2> HIDE DEF fresh
  <2> QED BY <2>1 DEF Begin
<1>3. fresh \in [todo : SUBSET Paths, path : Paths, read : Reads]
  BY DEF LongPaths, Paths, Reads
<1> HIDE DEF fresh
<1>4. job' \in [Strategies -> [todo : SUBSET Paths, path : Paths, read : Reads]]
  BY <1>1, <1>2, <1>3
<1>5. found' \in [Strategies -> SUBSET Opportunities]
  BY <1>1, <1>2
<1>6. began' \in [Strategies -> [Pools -> 0..position'["cache"]]]
  BY <1>1, <1>2
<1>7. Cached'
  <2>1. \A t \in Strategies, p \in Pools : began'[t][p] <= cache[p]
    BY <1>1, <1>2, InvFacts DEF Inv, Cached
  <2> QED BY <2>1 DEF Inv, Cached
<1>8. Grows /\ CacheGrows
  BY InvFacts DEF Grows, CacheGrows
<1>9. \A t \in Strategies : InHand(t)' /\ Founded(t)'
  <2> SUFFICES ASSUME NEW t \in Strategies PROVE InHand(t)' /\ Founded(t)'
    OBVIOUS
  <2>1. CASE t = s
    BY <2>1, SearchBegun DEF Inv
  <2>2. CASE t # s
    <3>1. job'[t] = job[t] /\ found'[t] = found[t] /\ began'[t] = began[t]
      BY <1>1, <1>2, <2>2
    <3>2. InHand(t) /\ Founded(t)
      BY DEF Inv
    <3> QED BY <1>8, <3>1, <3>2, InvFacts, SearchStable
  <2> QED BY <2>1, <2>2
<1> QED BY <1>4, <1>5, <1>6, <1>7, <1>9

\* No account decodes to two pools.
LEMMA DecodedOnce ==
  ASSUME NEW i, NEW x \in PoolsIn(i), NEW y \in PoolsIn(i)
  PROVE  x = y
BY DEF PoolsIn, decode_pool, RaydiumAmm, RaydiumClmm, OrcaWhirlpool, MeteoraDlmm, Phoenix

\* The decoded updates that gave p its edges, among the first n; zero for none.
Seen(n, p) ==
  {0} \cup {decoded[k] : k \in {k \in 1..n :
              /\ updates[decoded[k]].pool = p
              /\ \E pool \in PoolsIn(decoded[k]) : HasReserves(pool)}}

\* The graph after one more update is decoded.
LEMMA GraphAfterOneMore ==
  ASSUME Inv, NEW n \in Nat, n = Len(decoded), NEW i \in DOMAIN updates,
         i = position["dex_arb"] + 1, updates' = updates, decoded' = Append(decoded, i),
         NEW pool \in PoolsIn(i),
         graph' = IF HasReserves(pool) THEN [graph EXCEPT ![updates[i].pool] = i] ELSE graph
  PROVE  graph' = GraphAfter(n + 1)'
<1>1. /\ decoded \in Seq(Nat) /\ i \in Nat /\ i > position["dex_arb"] /\ i > 0
      /\ \A k \in 1..n : decoded[k] \in 1..position["dex_arb"]
      /\ position["dex_arb"] \in Nat
  BY InvFacts
<1>2. decoded'[n + 1] = i /\ \A k \in 1..n : decoded'[k] = decoded[k]
  BY <1>1
<1>3. graph = GraphAfter(n) /\ graph \in [Pools -> Nat]
  <2>1. graph \in [Pools -> 0..position["dex_arb"]]
    BY DEF Inv, TypeOK
  <2> QED BY <1>1, <2>1 DEF Inv, Lagging, SnapshotLags
<1>4. (\E q \in PoolsIn(i) : HasReserves(q)) <=> HasReserves(pool)
  BY DecodedOnce
<1> DEFINE Useful(k, p) == updates[decoded[k]].pool = p
                             /\ \E q \in PoolsIn(decoded[k]) : HasReserves(q)
<1>5. ASSUME NEW p \in Pools
      PROVE  graph'[p] = Max(Seen(n + 1, p)')
  <2> DEFINE K == {k \in 1..n : Useful(k, p)}
             L == {k \in 1..(n + 1) : Useful(k, p)'}
             before == {0} \cup {decoded[k] : k \in K}
             after == {0} \cup {decoded'[k] : k \in L}
  <2>1. \A k \in 1..n : Useful(k, p)' <=> Useful(k, p)
    BY <1>2 DEF PoolsIn
  <2>2. Useful(n + 1, p)' <=> (updates[i].pool = p /\ HasReserves(pool))
    <3>1. PoolsIn(decoded[n + 1])' = PoolsIn(i)
      BY <1>2 DEF PoolsIn
    <3> QED BY <1>2, <1>4, <3>1
  <2>3. Seen(n, p) = before /\ Seen(n + 1, p)' = after
    BY DEF Seen
  <2>4. graph[p] = Max(Seen(n, p))
    BY <1>3, Zenon DEF GraphAfter, Seen
  <2>5. CASE updates[i].pool = p /\ HasReserves(pool)
    <3>1. graph'[p] = i
      BY <1>3, <2>5
    <3>2. \A k \in L : decoded'[k] \in Int /\ decoded'[k] <= i
      <4>1. \A k \in 1..(n + 1) : k \in 1..n \/ k = n + 1
        OBVIOUS
      <4> QED BY <1>1, <1>2, <4>1
    <3>3. n + 1 \in L
      BY <2>2, <2>5
    <3> HIDE DEF L
    <3>4. after \in SUBSET Int /\ i \in after /\ \A y \in after : i >= y
      <4>1. i \in after
        BY <1>2, <3>3
      <4>2. \A y \in after : y = 0 \/ \E k \in L : y = decoded'[k]
        OBVIOUS
      <4>3. \A y \in after : y \in Int /\ i >= y
        <5> SUFFICES ASSUME NEW y \in after PROVE y \in Int /\ i >= y
          OBVIOUS
        <5>1. CASE y = 0
          BY <1>1, <5>1
        <5>2. CASE \E k \in L : y = decoded'[k]
          BY <1>1, <3>2, <5>2
        <5> QED BY <4>2, <5>1, <5>2
      <4> HIDE DEF after
      <4> QED BY <4>1, <4>3
    <3> HIDE DEF after
    <3>5. Max(after) = i
      BY <3>4, MaxIs
    <3> QED BY <2>3, <3>1, <3>5
  <2>6. CASE ~(updates[i].pool = p /\ HasReserves(pool))
    <3>1. graph'[p] = graph[p]
      BY <1>3, <2>6
    <3>2. L = K
      <4>1. \A k : k \in 1..(n + 1) <=> (k \in 1..n \/ k = n + 1)
        OBVIOUS
      <4> QED BY <2>1, <2>2, <2>6, <4>1
    <3>3. \A k \in K : decoded'[k] = decoded[k]
      BY <1>2
    <3> HIDE DEF K, L
    <3>4. after = before
      BY <3>2, <3>3
    <3> HIDE DEF before, after
    <3> QED BY <2>3, <2>4, <3>1, <3>4
  <2> QED BY <2>5, <2>6
<1>6. graph' \in [Pools -> Nat]
  BY <1>1, <1>3
<1>7. GraphAfter(n + 1)' = [p \in Pools |-> Max(Seen(n + 1, p)')]
  BY Zenon DEF GraphAfter, Seen
<1> QED BY <1>5, <1>6, <1>7

\* The strategy decodes an update.
LEMMA ProcessUpdateKeeps ==
  ASSUME Inv, ProcessUpdate
  PROVE  Inv'
<1> DEFINE i == position["dex_arb"] + 1
           q == updates[i].pool
<1>1. /\ position["dex_arb"] < Len(updates)
      /\ position' = [position EXCEPT !["dex_arb"] = position["dex_arb"] + 1]
      /\ updates' = updates /\ cache' = cache /\ decoded' = Append(decoded, i)
      /\ Publish /\ Begin("dex_arb", Cycles(graph', MaxHops))
  BY DEF ProcessUpdate, Behind, Advance
<1>2. PICK pool \in PoolsIn(i) :
             graph' = IF HasReserves(pool) THEN [graph EXCEPT ![q] = i] ELSE graph
  BY DEF ProcessUpdate
<1>3. /\ i \in Nat /\ i \in DOMAIN updates /\ i > 0
      /\ position \in [{"cache", "dex_arb"} -> 0..Len(updates)]
  <2>1. position \in [{"cache", "dex_arb"} -> 0..Len(updates)]
    BY DEF Inv, TypeOK
  <2> QED BY <1>1, <2>1, InvFacts
<1>4. /\ position'["cache"] = position["cache"] /\ position'["dex_arb"] = i
      /\ position' \in [{"cache", "dex_arb"} -> 0..Len(updates)]
  BY <1>1, <1>3, InvFacts
<1>5. q \in Pools
  <2>1. updates[i] \in Broadcasts
    BY <1>3, InvFacts
  <2> QED BY <2>1 DEF Broadcasts
<1>6. PICK n \in Nat : n = Len(decoded)
  BY InvFacts
<1>7. Len(decoded') = n + 1
  BY <1>1, <1>6, InvFacts
<1>8. PublishEvery \in Nat /\ updates_since_publish \in 0..(PublishEvery - 1)
      /\ updates_since_publish <= n
  BY <1>6, StrategyAssumption DEF Inv, TypeOK, Lagging
<1>9. \/ updates_since_publish + 1 >= PublishEvery /\ snapshot' = graph' /\ updates_since_publish' = 0
      \/ /\ updates_since_publish + 1 < PublishEvery /\ snapshot' = snapshot
         /\ updates_since_publish' = updates_since_publish + 1
  BY <1>1, <1>8 DEF Publish
<1>10. PICK cycles \in SUBSET LongPaths : Begin("dex_arb", cycles)
  BY <1>1, InvFacts, StrategyAssumption, CyclesLong
<1>11. /\ job' \in [Strategies -> [todo : SUBSET Paths, path : Paths, read : Reads]]
       /\ found' \in [Strategies -> SUBSET Opportunities]
       /\ began' \in [Strategies -> [Pools -> 0..position'["cache"]]]
       /\ Cached'
       /\ \A t \in Strategies : InHand(t)' /\ Founded(t)'
  <2>1. "dex_arb" \in Strategies
    BY DEF Strategies
  <2> HIDE DEF i, q
  <2> QED BY <1>1, <1>4, <1>10, <2>1, BeginKeeps
<1>12. TypeOK'
  <2>1. graph' \in [Pools -> 0..i] /\ snapshot \in [Pools -> 0..i]
    <3>1. /\ graph \in [Pools -> 0..position["dex_arb"]]
          /\ snapshot \in [Pools -> 0..position["dex_arb"]]
      BY DEF Inv, TypeOK
    <3>2. 0..position["dex_arb"] \subseteq 0..i /\ i \in 0..i
      BY <1>3, InvFacts
    <3> HIDE DEF i, q
    <3>3. graph \in [Pools -> 0..i] /\ snapshot \in [Pools -> 0..i]
      BY <3>1, <3>2
    <3>4. [graph EXCEPT ![q] = i] \in [Pools -> 0..i]
      BY <3>2, <3>3
    <3> QED BY <1>2, <3>3, <3>4
  <2>2. updates_since_publish' \in 0..(PublishEvery - 1)
    BY <1>8, <1>9, StrategyAssumption
  <2>3. decoded' \in Seq(1..i)
    <3>1. decoded \in Seq(1..position["dex_arb"])
      BY DEF Inv, TypeOK
    <3>2. 1..position["dex_arb"] \subseteq 1..i /\ i \in 1..i
      BY <1>3, InvFacts
    <3>3. decoded \in Seq(1..i)
      BY <3>1, <3>2, SeqMonotonic
    <3> HIDE DEF i
    <3> QED BY <1>1, <3>2, <3>3
  <2> HIDE DEF i, q
  <2>4. snapshot' \in [Pools -> 0..i]
    BY <1>9, <2>1
  <2> QED BY <1>1, <1>4, <1>11, <2>1, <2>2, <2>3, <2>4
      DEF Inv, TypeOK, Opportunities
<1>13. Grows
  BY <1>1, InvFacts DEF Grows
<1>14. graph' = GraphAfter(n + 1)'
  BY <1>1, <1>2, <1>3, <1>6, GraphAfterOneMore
<1>15. \A m \in 0..n : GraphAfter(m)' = GraphAfter(m)
  <2> SUFFICES ASSUME NEW m \in 0..n PROVE GraphAfter(m)' = GraphAfter(m)
    OBVIOUS
  <2>1. m \in Nat /\ \A k \in 1..m : decoded[k] \in 1..position["dex_arb"] /\ decoded'[k] = decoded[k]
    BY <1>1, <1>3, <1>6, InvFacts
  <2> QED BY <1>13, <2>1, InvFacts, GraphAfterStable
<1>16. \E m \in Nat : m = Len(decoded') - updates_since_publish' /\ snapshot' = GraphAfter(m)'
  <2>1. CASE updates_since_publish + 1 >= PublishEvery
    <3>1. snapshot' = graph' /\ Len(decoded') - updates_since_publish' = n + 1 /\ n + 1 \in Nat
      BY <1>7, <1>8, <1>9, <2>1
    <3>2. snapshot' = GraphAfter(n + 1)'
      BY <1>14, <3>1
    <3> QED BY <3>1, <3>2
  <2>2. CASE updates_since_publish + 1 < PublishEvery
    <3>1. PICK m \in 0..n : m = n - updates_since_publish
      BY <1>8
    <3>2. snapshot' = GraphAfter(m)
      BY <1>6, <1>8, <1>9, <2>2, <3>1 DEF Inv, Lagging, SnapshotLags
    <3>3. Len(decoded') - updates_since_publish' = m /\ m \in Nat
      BY <1>7, <1>8, <1>9, <2>2, <3>1
    <3>4. snapshot' = GraphAfter(m)'
      BY <1>15, <3>2
    <3> QED BY <3>3, <3>4
  <2> QED BY <1>8, <2>1, <2>2
<1>17. Lagging'
  <2>1. updates_since_publish' <= n + 1
    BY <1>8, <1>9
  <2>2. graph' = GraphAfter(Len(decoded))'
    BY <1>7, <1>14 DEF GraphAfter
  <2>3. snapshot' = GraphAfter(Len(decoded) - updates_since_publish)'
    <3>1. PICK m \in Nat : m = Len(decoded') - updates_since_publish' /\ snapshot' = GraphAfter(m)'
      BY <1>16
    <3> QED BY <3>1 DEF GraphAfter
  <2> QED BY <1>7, <2>1, <2>2, <2>3 DEF Lagging, SnapshotLags
<1> QED BY <1>11, <1>12, <1>17 DEF Inv

\* A detected swap sets the backrun strategy to work.
LEMMA EvaluateSwapKeeps ==
  ASSUME Inv, NEW size, EvaluateSwap(size)
  PROVE  Inv'
<1>1. /\ updates' = updates /\ position' = position /\ cache' = cache
      /\ UNCHANGED graphVars /\ Begin("backrun", Cycles(snapshot, BackrunHops))
  BY DEF EvaluateSwap, feedVars
<1>2. PICK cycles \in SUBSET LongPaths : Begin("backrun", cycles)
  BY <1>1, InvFacts, StrategyAssumption, CyclesLong
<1>3. /\ job' \in [Strategies -> [todo : SUBSET Paths, path : Paths, read : Reads]]
      /\ found' \in [Strategies -> SUBSET Opportunities]
      /\ began' \in [Strategies -> [Pools -> 0..position'["cache"]]]
      /\ Cached'
      /\ \A t \in Strategies : InHand(t)' /\ Founded(t)'
  BY <1>1, <1>2, BeginKeeps DEF Strategies
<1>4. TypeOK'
  BY <1>1, <1>3 DEF Inv, TypeOK, Opportunities, graphVars
<1>5. Lagging'
  BY <1>1, InvFacts, LagStable DEF Grows
<1> QED BY <1>3, <1>4, <1>5 DEF Inv

------------------------------------------------------------------------------
(* The steps of an evaluation *)

Jobs == [todo : SUBSET Paths, path : Paths, read : Reads]

\* An evaluation moves on to a job and to opportunities that are backed.
LEMMA MoveKeeps ==
  ASSUME Inv, NEW s \in Strategies,
         UNCHANGED feedVars, UNCHANGED graphVars, began' = began,
         NEW j \in Jobs, job' = [job EXCEPT ![s] = j],
         NEW fs \in SUBSET Opportunities, found' = [found EXCEPT ![s] = fs],
         <<>> \notin j.todo, Len(j.read) <= Len(j.path), j.path # <<>> => Len(j.read) < Len(j.path),
         \A k \in 1..Len(j.read) : Backed(s, j.path[k].pool, j.read[k]),
         \A o \in fs : \A k \in DOMAIN o.path : Backed(s, o.path[k].pool, o.read[k])
  PROVE  Inv'
<1>1. updates' = updates /\ position' = position /\ cache' = cache
  BY DEF feedVars
<1>2. job \in [Strategies -> Jobs] /\ found \in [Strategies -> SUBSET Opportunities]
  BY DEF Inv, TypeOK, Jobs, Opportunities
<1>3. job' \in [Strategies -> Jobs] /\ found' \in [Strategies -> SUBSET Opportunities]
  BY <1>2
<1>4. TypeOK'
  BY <1>1, <1>3 DEF Inv, TypeOK, Jobs, Opportunities, graphVars
<1>5. Cached'
  BY <1>1 DEF Inv, Cached
<1>6. Grows /\ CacheGrows
  BY <1>1, InvFacts DEF Grows, CacheGrows
<1>7. \A t \in Strategies : InHand(t)' /\ Founded(t)'
  <2> SUFFICES ASSUME NEW t \in Strategies PROVE InHand(t)' /\ Founded(t)'
    OBVIOUS
  <2>1. CASE t = s
    <3>1. job'[t] = j /\ found'[t] = fs
      BY <1>2, <2>1
    <3>2. \A p, i : Backed(s, p, i) => Backed(t, p, i)'
      BY <1>6, <2>1, InvFacts, BackedStable
    <3>3. InHand(t)'
      <4>1. \A k \in 1..Len(j.read) : Backed(t, j.path[k].pool, j.read[k])'
        BY <3>2
      <4> QED BY <3>1, <4>1, ZenonT(30) DEF InHand, Backed, Readable, PoolsIn
    <3>4. Founded(t)'
      BY <3>1, <3>2 DEF Founded
    <3> QED BY <3>3, <3>4
  <2>2. CASE t # s
    <3>1. job'[t] = job[t] /\ found'[t] = found[t] /\ began'[t] = began[t]
      BY <1>2, <2>2
    <3>2. InHand(t) /\ Founded(t)
      BY DEF Inv
    <3> QED BY <1>6, <3>1, <3>2, InvFacts, SearchStable
  <2> QED BY <2>1, <2>2
<1>8. Lagging'
  BY <1>6, LagStable
<1> QED BY <1>4, <1>5, <1>7, <1>8 DEF Inv

\* The account read next, if it passes, is backed like those before it.
LEMMA ReadNextBacked ==
  ASSUME Inv, NEW s \in Strategies, NEW path \in CyclesAtHand(s), NEW read,
         read = ReadNext(s, path)
  PROVE  /\ path \in LongPaths
         /\ read \in Reads /\ Len(read) \in Nat /\ Len(read) <= Len(path)
         /\ Remaining(s, path) \in SUBSET LongPaths
         /\ Passes(s, path, read) => \A k \in 1..Len(read) : Backed(s, path[k].pool, read[k])
<1> DEFINE before == job[s].read
           n == Len(before)
           hop == path[n + 1]
<1>1. /\ job[s] \in Jobs /\ InHand(s) /\ n \in Nat
  <2>1. job \in [Strategies -> Jobs]
    BY DEF Inv, TypeOK, Jobs
  <2> QED BY <2>1 DEF Inv, Jobs, Reads
<1>2. job[s].todo \subseteq LongPaths /\ job[s].path \in Paths /\ before \in Reads
  BY <1>1 DEF Jobs, InHand, LongPaths
<1>3. path \in LongPaths /\ n < Len(path) /\ \A k \in 1..n : Backed(s, path[k].pool, before[k])
  <2>1. CASE job[s].path # <<>>
    <3>1. path = job[s].path
      BY <2>1 DEF CyclesAtHand
    <3> QED BY <1>1, <1>2, <2>1, <3>1 DEF InHand, LongPaths
  <2>2. CASE job[s].path = <<>>
    <3>1. path \in job[s].todo
      BY <2>2 DEF CyclesAtHand
    <3>2. n = 0
      <4>1. n <= 0
        BY <1>1, <2>2 DEF InHand
      <4> QED BY <1>1, <4>1
    <3>3. path \in LongPaths
      BY <1>2, <3>1
    <3>4. Len(path) \in Nat /\ Len(path) > 0
      BY <3>3, EmptySeq, LenProperties DEF LongPaths, Paths
    <3> HIDE DEF n
    <3> QED BY <3>2, <3>3, <3>4
  <2> QED BY <2>1, <2>2
<1> HIDE DEF n
<1>4. Len(path) \in Nat /\ hop \in Hops
  <2>1. path \in Seq(Hops) /\ Len(path) \in Nat
    BY <1>3 DEF LongPaths, Paths
  <2>2. n + 1 \in 1..Len(path)
    BY <1>1, <1>3, <2>1
  <2> QED BY <2>1, <2>2, ElementOfSeq
<1>5. hop.pool \in Pools
  BY <1>4 DEF Hops
<1> DEFINE i == cache[hop.pool]
<1>6. i \in Indices /\ i \in Nat /\ i <= Len(updates)
  BY <1>5, InvFacts DEF Indices
<1>7. read = Append(before, i)
  BY DEF ReadNext, n
<1>8. before \in Seq(Indices) /\ Len(before) = n
  BY <1>2 DEF Reads, n
<1> HIDE DEF before, i
<1>9. read \in Reads /\ Len(read) = n + 1 /\ read[n + 1] = i /\ \A k \in 1..n : read[k] = before[k]
  BY <1>1, <1>6, <1>7, <1>8 DEF Reads
<1>10. ASSUME Passes(s, path, read), NEW k \in 1..Len(read)
       PROVE  Backed(s, path[k].pool, read[k])
  <2>1. CASE k = n + 1
    <3>1. Readable(s, i) # {}
      BY <1>9, <1>10 DEF Passes
    <3>2. i \in DOMAIN updates
      BY <3>1 DEF Readable, PoolsIn
    <3>3. i # 0 /\ updates[i].pool = hop.pool
      <4>1. i # 0
        BY <3>2, InvFacts
      <4> QED BY <1>5, <4>1 DEF Inv, Cached, i
    <3>4. i \in began[s][hop.pool]..cache[hop.pool]
      <4>1. began[s][hop.pool] \in Nat /\ began[s][hop.pool] <= cache[hop.pool]
        BY <1>5, InvFacts DEF Inv, Cached, BeganTyped
      <4> QED BY <1>6, <4>1 DEF i
    <3>5. path[k].pool = hop.pool /\ read[k] = i
      BY <1>9, <2>1
    <3> QED BY <1>5, <3>1, <3>2, <3>3, <3>4, <3>5 DEF Backed
  <2>2. CASE k # n + 1
    <3>1. k \in 1..n
      BY <1>1, <1>9, <2>2
    <3> QED BY <1>3, <1>9, <3>1
  <2> QED BY <2>1, <2>2
<1>11. Remaining(s, path) \in SUBSET LongPaths
  BY <1>2 DEF Remaining
<1> QED BY <1>1, <1>3, <1>4, <1>9, <1>10, <1>11

\* Another account is read.
LEMMA ReadHopKeeps ==
  ASSUME Inv, NEW s \in Strategies, ReadHop(s)
  PROVE  Inv'
<1>1. PICK path \in CyclesAtHand(s) :
        /\ Passes(s, path, ReadNext(s, path)) /\ Len(ReadNext(s, path)) < Len(path)
        /\ job' = [job EXCEPT ![s] =
                    [todo |-> Remaining(s, path), path |-> path, read |-> ReadNext(s, path)]]
        /\ UNCHANGED feedVars /\ UNCHANGED graphVars /\ found' = found /\ began' = began
  BY DEF ReadHop
<1>2. PICK read : read = ReadNext(s, path)
  OBVIOUS
<1>3. /\ path \in LongPaths /\ read \in Reads /\ Remaining(s, path) \in SUBSET LongPaths
      /\ Len(read) \in Nat /\ \A k \in 1..Len(read) : Backed(s, path[k].pool, read[k])
  BY <1>1, <1>2, ReadNextBacked
<1> DEFINE j == [todo |-> Remaining(s, path), path |-> path, read |-> read]
<1>4. j \in Jobs /\ <<>> \notin j.todo /\ j.path = path /\ j.read = read
  BY <1>3 DEF Jobs, LongPaths
<1>5. job' = [job EXCEPT ![s] = j]
  BY <1>1, <1>2
<1> HIDE DEF j
<1>6. /\ found \in [Strategies -> SUBSET Opportunities]
      /\ \A o \in found[s] : \A k \in DOMAIN o.path : Backed(s, o.path[k].pool, o.read[k])
  BY DEF Inv, TypeOK, Opportunities, Founded
<1>7. found[s] \in SUBSET Opportunities /\ found' = [found EXCEPT ![s] = found[s]]
  BY <1>1, <1>6
<1>8. Len(j.read) < Len(j.path) /\ Len(j.read) <= Len(j.path)
  <2>1. Len(path) \in Nat
    BY <1>3 DEF LongPaths, Paths
  <2> QED BY <1>1, <1>2, <1>3, <1>4, <2>1
<1>9. \A k \in 1..Len(j.read) : Backed(s, j.path[k].pool, j.read[k])
  BY <1>3, <1>4
<1> QED BY <1>1, <1>4, <1>5, <1>6, <1>7, <1>8, <1>9, MoveKeeps

\* The cycle in hand is given up, or priced: the evaluation turns to the others.
LEMMA NextCycleKeeps ==
  ASSUME Inv, NEW s \in Strategies,
         UNCHANGED feedVars, UNCHANGED graphVars, began' = began,
         NEW todo \in SUBSET LongPaths, job' = [job EXCEPT ![s] = [Idle EXCEPT !.todo = todo]],
         NEW fs \in SUBSET Opportunities, found' = [found EXCEPT ![s] = fs],
         \A o \in fs : \A k \in DOMAIN o.path : Backed(s, o.path[k].pool, o.read[k])
  PROVE  Inv'
<1> DEFINE j == [todo |-> todo, path |-> <<>>, read |-> <<>>]
<1>1. [Idle EXCEPT !.todo = todo] = j
  BY DEF Idle
<1>2. j \in Jobs /\ <<>> \notin j.todo /\ j.path = <<>> /\ j.read = <<>>
  BY DEF Jobs, LongPaths, Paths, Reads
<1>3. job' = [job EXCEPT ![s] = j]
  BY <1>1
<1> HIDE DEF j
<1>4. Len(j.read) = 0 /\ Len(j.path) = 0
  BY <1>2
<1>5. Len(j.read) <= Len(j.path) /\ 1..Len(j.read) = {}
  BY <1>4
<1> QED BY <1>2, <1>3, <1>5, MoveKeeps

\* A cycle whose account is of no use is dropped.
LEMMA DropCycleKeeps ==
  ASSUME Inv, NEW s \in Strategies, DropCycle(s)
  PROVE  Inv'
<1>1. PICK path \in CyclesAtHand(s) :
        /\ job' = [job EXCEPT ![s] = [Idle EXCEPT !.todo = Remaining(s, path)]]
        /\ UNCHANGED feedVars /\ UNCHANGED graphVars /\ found' = found /\ began' = began
  BY DEF DropCycle
<1>2. Remaining(s, path) \in SUBSET LongPaths
  BY <1>1, ReadNextBacked
<1>3. /\ found \in [Strategies -> SUBSET Opportunities]
      /\ \A o \in found[s] : \A k \in DOMAIN o.path : Backed(s, o.path[k].pool, o.read[k])
  BY DEF Inv, TypeOK, Opportunities, Founded
<1>4. found[s] \in SUBSET Opportunities /\ found' = [found EXCEPT ![s] = found[s]]
  BY <1>1, <1>3
<1> QED BY <1>1, <1>2, <1>3, <1>4, NextCycleKeeps

\* A cycle is priced from the accounts read.
LEMMA PriceCycleKeeps ==
  ASSUME Inv, NEW s \in Strategies, PriceCycle(s)
  PROVE  Inv'
<1>1. PICK path \in CyclesAtHand(s) :
        LET read == ReadNext(s, path)
            kept == Priced(s, path, read)
            done == s = "backrun" /\ kept # {}
        IN  /\ Passes(s, path, read) /\ Len(read) = Len(path)
            /\ found' = [found EXCEPT ![s] = @ \cup kept]
            /\ job' = [job EXCEPT ![s] =
                        [Idle EXCEPT !.todo = IF done THEN {} ELSE Remaining(s, path)]]
            /\ UNCHANGED feedVars /\ UNCHANGED graphVars /\ began' = began
  BY DEF PriceCycle
<1>2. PICK read : read = ReadNext(s, path)
  OBVIOUS
<1> DEFINE kept == Priced(s, path, read)
           fs == found[s] \cup kept
           todo == IF s = "backrun" /\ kept # {} THEN {} ELSE Remaining(s, path)
<1>3. /\ path \in LongPaths /\ read \in Reads /\ Remaining(s, path) \in SUBSET LongPaths
      /\ Len(read) \in Nat /\ \A k \in 1..Len(read) : Backed(s, path[k].pool, read[k])
  BY <1>1, <1>2, ReadNextBacked
<1>4. /\ Len(read) = Len(path) /\ UNCHANGED feedVars /\ UNCHANGED graphVars /\ began' = began
      /\ job' = [job EXCEPT ![s] = [Idle EXCEPT !.todo = todo]]
      /\ found' = [found EXCEPT ![s] = @ \cup kept]
  BY <1>1, <1>2, Zenon
<1>5. Priceable(path, read)
  <2>1. \A k \in 1..Len(read) : PoolsIn(read[k]) # {}
    BY <1>3 DEF Backed, Readable
  <2> QED BY <1>3, <1>4, <2>1 DEF Priceable
<1>6. \A o \in kept : /\ o \in Opportunities
                      /\ \A k \in DOMAIN o.path : Backed(s, o.path[k].pool, o.read[k])
  <2> SUFFICES ASSUME NEW o \in kept
               PROVE  /\ o \in Opportunities
                      /\ \A k \in DOMAIN o.path : Backed(s, o.path[k].pool, o.read[k])
    OBVIOUS
  <2>1. /\ o \in Opportunities /\ o.read = read /\ DOMAIN o.path = 1..Len(read)
        /\ \A k \in DOMAIN o.path : o.path[k].pool = path[k].pool
    BY <1>5, InvFacts, PricedTyped
  <2> HIDE DEF kept
  <2> QED BY <1>3, <2>1
<1>7. todo \in SUBSET LongPaths
  BY <1>3
<1> HIDE DEF kept, todo
<1>8. /\ found \in [Strategies -> SUBSET Opportunities]
      /\ \A o \in found[s] : \A k \in DOMAIN o.path : Backed(s, o.path[k].pool, o.read[k])
  BY DEF Inv, TypeOK, Opportunities, Founded
<1>9. /\ fs \in SUBSET Opportunities /\ found' = [found EXCEPT ![s] = fs]
      /\ \A o \in fs : \A k \in DOMAIN o.path : Backed(s, o.path[k].pool, o.read[k])
  BY <1>4, <1>6, <1>8
<1> HIDE DEF fs
<1> QED BY <1>4, <1>7, <1>9, NextCycleKeeps

------------------------------------------------------------------------------
(* The theorems *)

\* Stuttering changes nothing.
LEMMA StutterKeeps ==
  ASSUME Inv, UNCHANGED vars
  PROVE  Inv'
<1>1. /\ updates' = updates /\ position' = position /\ cache' = cache
      /\ UNCHANGED graphVars /\ UNCHANGED searchVars
  BY DEF vars, feedVars
<1>2. Grows /\ CacheGrows
  BY <1>1, InvFacts DEF Grows, CacheGrows
<1>3. TypeOK'
  BY <1>1 DEF Inv, TypeOK, graphVars, searchVars
<1>4. Cached'
  BY <1>1 DEF Inv, Cached, searchVars
<1> QED BY <1>1, <1>2, <1>3, <1>4, SearchesStable, LagStable DEF Inv

\* Every step keeps the invariant.
LEMMA InvNext ==
  ASSUME Inv, [Next]_vars
  PROVE  Inv'
<1>1. ASSUME NEW p \in Pools, Write(p) PROVE Inv'
  BY <1>1, WriteKeeps
<1>2. ASSUME CacheUpdate PROVE Inv'
  BY <1>2, CacheUpdateKeeps
<1>3. ASSUME PassUpdate PROVE Inv'
  BY <1>3, PassUpdateKeeps
<1>4. ASSUME ProcessUpdate PROVE Inv'
  BY <1>4, ProcessUpdateKeeps
<1>5. ASSUME NEW size \in SwapSizes, EvaluateSwap(size) PROVE Inv'
  BY <1>5, EvaluateSwapKeeps
<1>6. ASSUME NEW s \in Strategies, Evaluate(s) PROVE Inv'
  BY <1>6, ReadHopKeeps, DropCycleKeeps, PriceCycleKeeps DEF Evaluate
<1>7. ASSUME UNCHANGED vars PROVE Inv'
  BY <1>7, StutterKeeps
<1> QED BY <1>1, <1>2, <1>3, <1>4, <1>5, <1>6, <1>7 DEF Next

\* The invariant holds throughout.
LEMMA Invariance == Spec => []Inv
<1>1. Inv /\ [Next]_vars => Inv'
  BY InvNext
<1> QED BY <1>1, InvInit, PTL DEF Spec

\* Positions, indices, amounts and paths stay in their ranges, for every pool, word
\* width and configuration.
THEOREM StrategyTypes == Spec => []TypeOK
<1>1. Inv => TypeOK
  BY DEF Inv
<1> QED BY <1>1, Invariance, PTL

\* No quote on any pool the chain can show takes from the product of its reserves.
THEOREM ProductsAreKept == Spec => []QuotesKeepProduct
<1>1. Inv => QuotesKeepProduct
  BY InvFacts, KeepsProduct
<1> QED BY <1>1, Invariance, PTL

\* The input swap_base_out names is enough, unless a cast cut it.
THEOREM InverseQuotesSuffice == Spec => []InverseQuoteSuffices
<1>1. Inv => InverseQuoteSuffices
  BY InvFacts, InverseSuffices
<1> QED BY <1>1, Invariance, PTL

\* Every opportunity was priced from accounts that were in the cache after its
\* evaluation began and held usable pools, however the cache was written meanwhile.
THEOREM PricesComeFromTheCache == Spec => []PricedFromTheCache
<1>1. Inv => PricedFromTheCache
  BY DEF Inv, Founded, Backed, PricedFromTheCache
<1> QED BY <1>1, Invariance, PTL

\* The published copy is the graph as it was so many updates ago as the counter says.
THEOREM SnapshotsLag == Spec => []SnapshotLags
<1>1. Inv => SnapshotLags
  BY DEF Inv, Lagging
<1> QED BY <1>1, Invariance, PTL

------------------------------------------------------------------------------
(* Opportunities add up *)

\* What the DEX strategy's constants (995 in 1000) satisfy, and any configuration in
\* which a loss is not asked for and slippage gives away no more than everything.
ConfigurationInRange ==
  /\ MinProfit >= 0 /\ BackrunMinProfit >= 0
  /\ Slippage[1] <= Slippage[2] /\ BackrunSlippage[1] <= BackrunSlippage[2]

\* A path that closes, through distinct pools.
RoundTrip(path) ==
  /\ \A k \in 1..Len(path) : Following(path, k).input = path[k].output
  /\ \A k, l \in 1..Len(path) : path[k].pool = path[l].pool => k = l

\* What the property says of one opportunity.
AddsUp(s, o) ==
  LET n == Len(o.path)
      Bought(k) == Output(quote(PoolAt(o.read[k]), o.path[k].input, o.path[k].amount_in))
  IN  /\ n > 0
      /\ RoundTrip(o.path)
      /\ \A k \in 1..(n - 1) : o.path[k + 1].amount_in = Bought(k)
      /\ Bought(n) = o.path[1].amount_in + o.expected_profit
      /\ o.expected_profit >= IF s = "dex_arb" THEN MinProfit ELSE BackrunMinProfit
      /\ \A k \in 1..n : o.path[k].min_amount_out <= Bought(k)

\* The cycles of an evaluation close, and what came of it adds up.
Balanced(s) ==
  /\ \A path \in job[s].todo : RoundTrip(path)
  /\ job[s].path # <<>> => RoundTrip(job[s].path)
  /\ \A o \in found[s] : AddsUp(s, o)

\* Every cycle the search returns closes through distinct pools.
LEMMA CyclesClose ==
  ASSUME NEW g, NEW n \in Nat, NEW path \in Cycles(g, n)
  PROVE  RoundTrip(path)
<1>1. PICK a \in DOMAIN Anchors : path \in PathsFrom(Edges(g), Anchors[a], n)
  BY DEF Cycles
<1>2. PICK m \in 2..n : path \in [1..m -> Edges(g)]
  BY <1>1 DEF PathsFrom
<1>3. m \in Nat /\ m >= 2 /\ DOMAIN path = 1..m
  BY <1>2
<1>4. Len(path) = m
  BY <1>2, <1>3
<1>5. /\ \A k \in 1..m : path[k].input = IF k = 1 THEN Anchors[a] ELSE path[k - 1].output
      /\ \A k \in 1..m : path[k].output = Anchors[a] <=> k = m
      /\ \A k, l \in 1..m : path[k].pool = path[l].pool => k = l
  BY <1>1, <1>3, <1>4 DEF PathsFrom
<1>6. ASSUME NEW k \in 1..m PROVE Following(path, k).input = path[k].output
  <2>1. CASE k = m
    <3>1. k % m = 0
      BY <1>3, <2>1
    <3>2. Following(path, k) = path[1]
      BY <1>4, <3>1 DEF Following
    <3> QED BY <1>3, <1>5, <2>1, <3>2
  <2>2. CASE k # m
    <3>1. k % m = k /\ k + 1 \in 1..m /\ (k + 1) - 1 = k /\ k + 1 # 1
      BY <1>3, <2>2
    <3>2. Following(path, k) = path[k + 1]
      BY <1>4, <3>1 DEF Following
    <3> QED BY <1>5, <3>1, <3>2
  <2> QED BY <2>1, <2>2
<1> QED BY <1>4, <1>5, <1>6 DEF RoundTrip

\* The difference of two u64s, cast to i64, is what it should be if it is not
\* negative and the second is at most half the range: one that wraps is negative.
LEMMA DifferenceExact ==
  ASSUME NEW a \in Amounts, NEW b \in Amounts, 2 * b <= U64, DifferenceAsI64(a, b) >= 0
  PROVE  a = b + DifferenceAsI64(a, b)
<1>1. a \in Nat /\ b \in Nat /\ a < U64 /\ b < U64 /\ U64 \in Nat /\ U64 > 1
  BY WordAssumption DEF Amounts
<1> DEFINE wrapped == (a - b) % U64
<1>2. DifferenceAsI64(a, b) = IF 2 * wrapped < U64 THEN wrapped ELSE wrapped - U64
  BY DEF DifferenceAsI64, AsU64
<1>3. CASE a >= b
  <2>1. wrapped = a - b
    BY <1>1, <1>3
  <2> HIDE DEF wrapped
  <2> QED BY <1>1, <1>2, <2>1
<1>4. CASE a < b
  <2>1. wrapped = (a - b) + U64
    BY <1>1, <1>4
  <2> HIDE DEF wrapped
  <2> QED BY <1>1, <1>2, <1>4, <2>1
<1> QED BY <1>1, <1>3, <1>4

\* What is left of an amount after slippage is no more than the amount.
LEMMA SlippageCuts ==
  ASSUME NEW amount \in Nat, NEW slippage \in Nat \X (Nat \ {0}), slippage[1] <= slippage[2]
  PROVE  AsU64(amount * slippage[1]) \div slippage[2] <= amount
<1> DEFINE num == slippage[1]
           den == slippage[2]
           product == amount * num
           cut == AsU64(product)
           least == cut \div den
<1>1. num \in Nat /\ den \in Nat /\ den > 0 /\ num <= den
  OBVIOUS
<1> HIDE DEF num, den
<1>2. product \in Nat /\ num * amount <= den * amount /\ num * amount = product
  BY <1>1, ProductMonotone
<1> HIDE DEF product
<1>3. cut \in Nat /\ cut <= product
  BY <1>2, CastBounds DEF Amounts
<1> HIDE DEF cut
<1>4. least \in Nat /\ den * least <= cut
  BY <1>1, <1>3, DivisionBounds
<1> HIDE DEF least
<1>5. ASSUME ~(least <= amount) PROVE FALSE
  <2>1. (amount + 1) * den <= least * den
    BY <1>1, <1>4, <1>5, ProductMonotone
  <2>2. (amount + 1) * den = den * amount + den /\ least * den = den * least
    BY <1>1, <1>4
  <2> DEFINE x == den * amount
             y == den * least
  <2>3. x \in Int /\ y \in Int
    BY <1>1, <1>4
  <2>4. x + den <= y /\ y <= cut /\ product <= x
    BY <1>2, <1>4, <2>1, <2>2, Zenon
  <2> HIDE DEF x, y
  <2> QED BY <1>1, <1>2, <1>3, <2>3, <2>4
<1> QED BY <1>5 DEF least, cut, product, num, den

\* An opportunity that claims no loss adds up.
LEMMA OpportunityBalances ==
  ASSUME updates \in Seq(Broadcasts), NEW path, NEW read, Priceable(path, read), RoundTrip(path),
         NEW start \in Amounts, 2 * start <= U64,
         NEW slippage \in Nat \X (Nat \ {0}), slippage[1] <= slippage[2],
         NEW o \in Opportunity(path, read, start, slippage), o.expected_profit >= 0,
         NEW s, o.expected_profit >= IF s = "dex_arb" THEN MinProfit ELSE BackrunMinProfit
  PROVE  AddsUp(s, o)
<1> DEFINE amount == AmountsQuoted(path, read, start)
           n == Len(path)
           steps == [k \in DOMAIN path |-> Step(path[k], amount[k - 1], amount[k], slippage)]
<1>1. /\ o = [path |-> steps, expected_profit |-> DifferenceAsI64(amount[n], start), read |-> read]
      /\ amount[n] # 0
  BY DEF Opportunity
<1>2. /\ n \in Nat /\ n > 0 /\ Len(read) = n /\ DOMAIN path = 1..n /\ read \in Seq(Nat)
  <2>1. path \in Seq(Hops) /\ path # <<>> /\ read \in Seq(Indices) /\ Len(read) = n
    BY DEF Priceable, LongPaths, Paths, Reads
  <2>3. read \in Seq(Nat)
    BY StrategyAssumption DEF Priceable, Reads, Indices
  <2> QED BY <2>1, <2>3, EmptySeq, LenProperties
<1>3. \A k \in 1..Len(read) : PoolTyped(PoolAt(read[k]))
  BY PoolsInTyped DEF Priceable, PoolAt
<1>4. /\ \A k \in 0..n : amount[k] \in Amounts
      /\ amount[0] = start
      /\ \A k \in 1..n : amount[k] = Output(quote(PoolAt(read[k]), path[k].input, amount[k - 1]))
  BY <1>2, <1>3, AmountsTyped
<1> HIDE DEF amount
<1>5. Len(steps) = n
  <2>1. steps = [k \in 1..n |-> Step(path[k], amount[k - 1], amount[k], slippage)]
    BY <1>2
  <2> QED BY <1>2, <2>1
<1>6. \A k \in 1..n : /\ steps[k].pool = path[k].pool /\ steps[k].input = path[k].input
                      /\ steps[k].output = path[k].output /\ steps[k].amount_in = amount[k - 1]
                      /\ steps[k].min_amount_out = AsU64(amount[k] * slippage[1]) \div slippage[2]
  BY <1>2 DEF Step
<1>7. o.path = steps /\ o.read = read /\ o.expected_profit = DifferenceAsI64(amount[n], start)
  BY <1>1
<1> HIDE DEF steps
<1> DEFINE Bought(k) == Output(quote(PoolAt(o.read[k]), o.path[k].input, o.path[k].amount_in))
<1>8. \A k \in 1..n : Bought(k) = amount[k]
  BY <1>4, <1>6, <1>7
<1> HIDE DEF Bought, n
<1>9. RoundTrip(o.path)
  <2>1. \A k \in 1..n : (k % n) + 1 \in 1..n
    BY <1>2
  <2>2. ASSUME NEW k \in 1..n PROVE Following(steps, k).input = steps[k].output
    <3>1. Following(steps, k) = steps[(k % n) + 1] /\ Following(path, k) = path[(k % n) + 1]
      BY <1>5 DEF Following, n
    <3>2. Following(path, k).input = path[k].output
      BY DEF RoundTrip, n
    <3> QED BY <1>6, <2>1, <3>1, <3>2
  <2>3. \A k, l \in 1..n : steps[k].pool = steps[l].pool => k = l
    BY <1>6 DEF RoundTrip, n
  <2> QED BY <1>5, <1>7, <2>2, <2>3 DEF RoundTrip
<1>10. \A k \in 1..(n - 1) : o.path[k + 1].amount_in = Bought(k)
  <2> SUFFICES ASSUME NEW k \in 1..(n - 1) PROVE o.path[k + 1].amount_in = Bought(k)
    OBVIOUS
  <2>1. k \in 1..n /\ k + 1 \in 1..n /\ (k + 1) - 1 = k
    BY <1>2
  <2> QED BY <1>6, <1>7, <1>8, <2>1
<1>11. Bought(n) = o.path[1].amount_in + o.expected_profit
  <2>1. n \in 1..n /\ n \in 0..n /\ 1 \in 1..n
    BY <1>2
  <2>2. amount[n] = start + DifferenceAsI64(amount[n], start)
    BY <1>4, <1>7, <2>1, DifferenceExact
  <2>3. o.path[1].amount_in = start
    BY <1>4, <1>6, <1>7, <2>1
  <2> QED BY <1>7, <1>8, <2>1, <2>2, <2>3
<1>12. \A k \in 1..n : o.path[k].min_amount_out <= Bought(k)
  <2> SUFFICES ASSUME NEW k \in 1..n PROVE o.path[k].min_amount_out <= Bought(k)
    OBVIOUS
  <2>1. amount[k] \in Nat
    <3>1. k \in 0..n
      BY <1>2
    <3> QED BY <1>4, <3>1, WordAssumption DEF Amounts
  <2>2. AsU64(amount[k] * slippage[1]) \div slippage[2] <= amount[k]
    BY <2>1, SlippageCuts
  <2> QED BY <1>6, <1>7, <1>8, <2>2
<1>13. Len(o.path) = n
  BY <1>5, <1>7
<1> QED BY <1>2, <1>9, <1>10, <1>11, <1>12, <1>13 DEF AddsUp, Bought

\* So does every opportunity a strategy keeps.
LEMMA PricedBalances ==
  ASSUME updates \in Seq(Broadcasts), NEW s \in Strategies, NEW path, NEW read,
         Priceable(path, read), RoundTrip(path), ConfigurationInRange,
         NEW o \in Priced(s, path, read)
  PROVE  AddsUp(s, o)
<1>1. /\ MinProfit \in Int /\ BackrunMinProfit \in Int
      /\ MinProfit >= 0 /\ BackrunMinProfit >= 0
      /\ Slippage \in Nat \X (Nat \ {0}) /\ BackrunSlippage \in Nat \X (Nat \ {0})
      /\ Slippage[1] <= Slippage[2] /\ BackrunSlippage[1] <= BackrunSlippage[2]
  BY StrategyAssumption DEF ConfigurationInRange
<1>2. MaxInput \in Nat /\ U64 \in Nat /\ 2 * MaxInput <= U64 /\ 2 * BackrunStart <= U64
      /\ BackrunStart \in Amounts
  BY StrategyAssumption, WordAssumption DEF Amounts
<1>3. \A x \in Opportunities : x.expected_profit \in Int
  BY DEF Opportunities
<1>4. CASE s = "dex_arb"
  <2> DEFINE best == optimize_arb_amount(HopsRead(path, read), MaxInput, MinInput)
  <2>1. o \in Opportunity(path, read, best.amount, Slippage) /\ o.expected_profit >= MinProfit
    BY <1>4 DEF Priced, SimulateCycle
  <2>2. best.amount \in Amounts /\ best.amount <= MaxInput
    BY OptimumTyped
  <2> HIDE DEF best
  <2>3. 2 * best.amount <= U64
    BY <1>2, <2>2, WordAssumption DEF Amounts
  <2>4. o.expected_profit >= 0
    <3>1. o \in Opportunities
      BY <1>1, <2>1, <2>2, OpportunityTyped
    <3> QED BY <1>1, <1>3, <2>1, <3>1
  <2> QED BY <1>1, <1>4, <2>1, <2>2, <2>3, <2>4, OpportunityBalances
<1>5. CASE s # "dex_arb"
  <2>1. o \in Opportunity(path, read, BackrunStart, BackrunSlippage)
        /\ o.expected_profit >= BackrunMinProfit
    BY <1>5 DEF Priced
  <2>2. o.expected_profit >= 0
    <3>1. o \in Opportunities
      BY <1>1, <1>2, <2>1, OpportunityTyped
    <3> QED BY <1>1, <1>3, <2>1, <3>1
  <2> QED BY <1>1, <1>2, <1>5, <2>1, <2>2, OpportunityBalances
<1> QED BY <1>4, <1>5

\* The chain only grows.
LEMMA UpdatesGrow ==
  ASSUME Inv, [Next]_vars
  PROVE  Grows
<1>1. updates \in Seq(Broadcasts)
  BY InvFacts
<1>2. CASE updates' = updates
  BY <1>1, <1>2 DEF Grows
<1>3. ASSUME NEW p \in Pools, Write(p) PROVE Grows
  <2>1. PICK account \in Contents[p] : updates' = Append(updates, [pool |-> p, account |-> account])
    BY <1>3 DEF Write
  <2>2. [pool |-> p, account |-> account] \in Broadcasts
    BY DEF Broadcasts, Accounts
  <2> QED BY <1>1, <2>1, <2>2 DEF Grows
<1>4. ASSUME NEW s \in Strategies, Evaluate(s) PROVE updates' = updates
  BY <1>4 DEF Evaluate, ReadHop, DropCycle, PriceCycle, feedVars
<1>5. ASSUME NEW size \in SwapSizes, EvaluateSwap(size) PROVE updates' = updates
  BY <1>5 DEF EvaluateSwap, feedVars
<1>6. CacheUpdate \/ PassUpdate \/ ProcessUpdate \/ UNCHANGED vars => updates' = updates
  BY DEF CacheUpdate, PassUpdate, ProcessUpdate, vars, feedVars
<1> QED BY <1>2, <1>3, <1>4, <1>5, <1>6 DEF Next

\* An opportunity goes on adding up: the accounts it was priced from are there.
LEMMA AddsUpStable ==
  ASSUME Inv, Grows, NEW s \in Strategies, NEW o \in found[s], AddsUp(s, o)
  PROVE  AddsUp(s, o)'
<1>1. found \in [Strategies -> SUBSET Opportunities]
  BY DEF Inv, TypeOK, Opportunities
<1>2. o \in Opportunities /\ o.path \in Seq(Steps) /\ DOMAIN o.path = 1..Len(o.path)
  BY <1>1 DEF Opportunities
<1>3. ASSUME NEW k \in 1..Len(o.path) PROVE PoolAt(o.read[k])' = PoolAt(o.read[k])
  <2>1. o.read[k] \in DOMAIN updates
    BY <1>2, <1>3 DEF Inv, Founded, Backed
  <2>2. o.read[k] \in DOMAIN updates' /\ updates'[o.read[k]] = updates[o.read[k]]
    BY <2>1 DEF Grows
  <2>3. PoolsIn(o.read[k])' = PoolsIn(o.read[k])
    BY <2>1, <2>2 DEF PoolsIn
  <2> QED BY <2>3 DEF PoolAt
<1> DEFINE n == Len(o.path)
           Bought(k) == Output(quote(PoolAt(o.read[k]), o.path[k].input, o.path[k].amount_in))
<1>4. n \in Nat /\ n > 0
  BY <1>2, LenProperties DEF AddsUp
<1>5. \A k \in 1..n : Bought(k)' = Bought(k)
  BY <1>3
<1>6. /\ \A k \in 1..(n - 1) : o.path[k + 1].amount_in = Bought(k)
      /\ Bought(n) = o.path[1].amount_in + o.expected_profit
      /\ \A k \in 1..n : o.path[k].min_amount_out <= Bought(k)
  BY DEF AddsUp
<1>7. n \in 1..n /\ \A k \in 1..(n - 1) : k \in 1..n
  BY <1>4
<1>8. /\ \A k \in 1..(n - 1) : o.path[k + 1].amount_in = Bought(k)'
      /\ Bought(n)' = o.path[1].amount_in + o.expected_profit
      /\ \A k \in 1..n : o.path[k].min_amount_out <= Bought(k)'
  <2> HIDE DEF Bought
  <2> QED BY <1>5, <1>6, <1>7
<1>9. RoundTrip(o.path) /\ o.expected_profit >= IF s = "dex_arb" THEN MinProfit ELSE BackrunMinProfit
  BY DEF AddsUp
<1> QED BY <1>4, <1>8, <1>9 DEF AddsUp

\* An evaluation that does not move stays balanced.
LEMMA BalanceStable ==
  ASSUME Inv, Grows, NEW s \in Strategies, Balanced(s), job'[s] = job[s], found'[s] = found[s]
  PROVE  Balanced(s)'
<1>1. \A o \in found[s] : AddsUp(s, o)'
  BY AddsUpStable DEF Balanced
<1>2. \A o \in found'[s] : AddsUp(s, o)'
  BY <1>1
<1> QED BY <1>2 DEF Balanced

\* An evaluation begins with cycles that close, and with nothing found.
LEMMA BalanceBegun ==
  ASSUME Inv, NEW s \in Strategies, NEW cycles, \A path \in cycles : RoundTrip(path),
         Begin(s, cycles)
  PROVE  Balanced(s)'
<1>1. job \in [Strategies -> Jobs] /\ found \in [Strategies -> SUBSET Opportunities]
  BY DEF Inv, TypeOK, Opportunities, Jobs
<1>2. /\ job'[s] = [todo |-> cycles, path |-> <<>>, read |-> <<>>]
      /\ found'[s] = {}
  BY <1>1 DEF Begin, Idle
<1> QED BY <1>2 DEF Balanced

\* A cycle to look at next closes, and so do the others that remain.
LEMMA AtHandCloses ==
  ASSUME NEW s \in Strategies, Balanced(s), NEW path \in CyclesAtHand(s)
  PROVE  RoundTrip(path) /\ \A other \in Remaining(s, path) : RoundTrip(other)
<1>1. CASE job[s].path # <<>>
  BY <1>1 DEF CyclesAtHand, Remaining, Balanced
<1>2. CASE job[s].path = <<>>
  BY <1>2 DEF CyclesAtHand, Remaining, Balanced
<1> QED BY <1>1, <1>2

\* A step of an evaluation keeps the balance: what it finds is priced from a cycle
\* that closes.
LEMMA EvaluateBalances ==
  ASSUME Inv, ConfigurationInRange, NEW s \in Strategies, Balanced(s), Evaluate(s), Grows
  PROVE  Balanced(s)'
<1>0. job \in [Strategies -> Jobs] /\ found \in [Strategies -> SUBSET Opportunities]
      /\ updates \in Seq(Broadcasts)
  BY InvFacts DEF Inv, TypeOK, Opportunities, Jobs
<1>1. CASE ReadHop(s)
  <2>1. PICK path \in CyclesAtHand(s) :
          /\ \E read : job' = [job EXCEPT ![s] = [todo |-> Remaining(s, path), path |-> path,
                                                read |-> read]]
          /\ found' = found
    BY <1>1 DEF ReadHop
  <2>2. job'[s].todo = Remaining(s, path) /\ job'[s].path = path
    BY <1>0, <2>1
  <2>3. \A o \in found'[s] : AddsUp(s, o)'
    <3>1. \A o \in found[s] : AddsUp(s, o)'
      BY AddsUpStable DEF Balanced
    <3> QED BY <2>1, <3>1
  <2>4. RoundTrip(path) /\ \A other \in Remaining(s, path) : RoundTrip(other)
    BY AtHandCloses
  <2> QED BY <2>2, <2>3, <2>4 DEF Balanced
<1>2. CASE DropCycle(s)
  <2>1. PICK path \in CyclesAtHand(s) :
          job' = [job EXCEPT ![s] = [Idle EXCEPT !.todo = Remaining(s, path)]] /\ found' = found
    BY <1>2 DEF DropCycle
  <2>2. job'[s].todo = Remaining(s, path) /\ job'[s].path = <<>>
    BY <1>0, <2>1 DEF Idle
  <2>3. \A o \in found'[s] : AddsUp(s, o)'
    <3>1. \A o \in found[s] : AddsUp(s, o)'
      BY AddsUpStable DEF Balanced
    <3> QED BY <2>1, <3>1
  <2>4. \A other \in Remaining(s, path) : RoundTrip(other)
    BY AtHandCloses
  <2> QED BY <2>2, <2>3, <2>4 DEF Balanced
<1>3. CASE PriceCycle(s)
  <2>1. PICK path \in CyclesAtHand(s) :
          LET read == ReadNext(s, path)
              kept == Priced(s, path, read)
              done == s = "backrun" /\ kept # {}
          IN  /\ Passes(s, path, read) /\ Len(read) = Len(path)
              /\ found' = [found EXCEPT ![s] = @ \cup kept]
              /\ job' = [job EXCEPT ![s] =
                          [Idle EXCEPT !.todo = IF done THEN {} ELSE Remaining(s, path)]]
              /\ UNCHANGED feedVars
    BY <1>3 DEF PriceCycle
  <2>2. PICK read : read = ReadNext(s, path)
    OBVIOUS
  <2> DEFINE kept == Priced(s, path, read)
             todo == IF s = "backrun" /\ kept # {} THEN {} ELSE Remaining(s, path)
  <2>3. /\ Passes(s, path, read) /\ Len(read) = Len(path) /\ updates' = updates
        /\ job' = [job EXCEPT ![s] = [Idle EXCEPT !.todo = todo]]
        /\ found' = [found EXCEPT ![s] = @ \cup kept]
    BY <2>1, <2>2, Zenon DEF feedVars
  <2>4. Priceable(path, read)
    <3>1. /\ path \in LongPaths /\ read \in Reads
          /\ \A k \in 1..Len(read) : Backed(s, path[k].pool, read[k])
      BY <2>2, <2>3, ReadNextBacked
    <3>2. \A k \in 1..Len(read) : PoolsIn(read[k]) # {}
      BY <3>1 DEF Backed, Readable
    <3> QED BY <2>3, <3>1, <3>2 DEF Priceable
  <2>5. RoundTrip(path) /\ \A other \in Remaining(s, path) : RoundTrip(other)
    BY AtHandCloses
  <2>6. \A o \in kept : AddsUp(s, o)
    <3> HIDE DEF kept
    <3> SUFFICES ASSUME NEW o \in Priced(s, path, read) PROVE AddsUp(s, o)
      BY DEF kept
    <3> QED BY <1>0, <2>4, <2>5, PricedBalances
  <2>7. \A other \in todo : RoundTrip(other)
    BY <2>5
  <2> HIDE DEF kept, todo
  <2>8. job'[s].todo = todo /\ job'[s].path = <<>> /\ found'[s] = found[s] \cup kept
    BY <1>0, <2>3 DEF Idle
  <2>9. \A o \in kept : AddsUp(s, o)'
    BY <2>3, <2>6, Zenon DEF AddsUp, PoolAt, PoolsIn
  <2>10. \A o \in found[s] : AddsUp(s, o)'
    BY AddsUpStable DEF Balanced
  <2> QED BY <2>7, <2>8, <2>9, <2>10 DEF Balanced
<1> QED BY <1>1, <1>2, <1>3 DEF Evaluate

\* Every step keeps every evaluation balanced.
LEMMA BalanceNext ==
  ASSUME Inv, ConfigurationInRange, \A s \in Strategies : Balanced(s), [Next]_vars
  PROVE  \A s \in Strategies : Balanced(s)'
<1> SUFFICES ASSUME NEW s \in Strategies PROVE Balanced(s)'
  OBVIOUS
<1>0. Grows /\ job \in [Strategies -> Jobs] /\ found \in [Strategies -> SUBSET Opportunities]
  BY UpdatesGrow DEF Inv, TypeOK, Opportunities, Jobs
<1>1. CASE job' = job /\ found' = found
  BY <1>0, <1>1, BalanceStable
<1>2. ASSUME NEW t \in Strategies, NEW cycles, Begin(t, cycles), \A path \in cycles : RoundTrip(path)
      PROVE  Balanced(s)'
  <2>1. CASE t = s
    BY <1>2, <2>1, BalanceBegun
  <2>2. CASE t # s
    <3>1. job'[s] = job[s] /\ found'[s] = found[s]
      BY <1>0, <1>2, <2>2 DEF Begin
    <3> QED BY <1>0, <3>1, BalanceStable
  <2> QED BY <2>1, <2>2
<1>3. ASSUME ProcessUpdate PROVE Balanced(s)'
  <2>1. PICK g : g = graph'
    OBVIOUS
  <2>2. Begin("dex_arb", Cycles(g, MaxHops))
    BY <1>3, <2>1 DEF ProcessUpdate
  <2>3. \A path \in Cycles(g, MaxHops) : RoundTrip(path)
    BY CyclesClose, StrategyAssumption
  <2> QED BY <1>2, <2>2, <2>3 DEF Strategies
<1>4. ASSUME NEW size \in SwapSizes, EvaluateSwap(size) PROVE Balanced(s)'
  <2>1. Begin("backrun", Cycles(snapshot, BackrunHops))
    BY <1>4 DEF EvaluateSwap
  <2>2. \A path \in Cycles(snapshot, BackrunHops) : RoundTrip(path)
    BY CyclesClose, StrategyAssumption
  <2> QED BY <1>2, <2>1, <2>2 DEF Strategies
<1>5. ASSUME NEW t \in Strategies, Evaluate(t) PROVE Balanced(s)'
  <2>1. CASE t = s
    BY <1>0, <1>5, <2>1, EvaluateBalances
  <2>2. CASE t # s
    <3>1. job'[s] = job[s] /\ found'[s] = found[s]
      BY <1>0, <1>5, <2>2 DEF Evaluate, ReadHop, DropCycle, PriceCycle
    <3> QED BY <1>0, <3>1, BalanceStable
  <2> QED BY <2>1, <2>2
<1>6. ASSUME NEW p \in Pools, Write(p) PROVE job' = job /\ found' = found
  BY <1>6 DEF Write, searchVars
<1>7. CacheUpdate \/ PassUpdate \/ UNCHANGED vars => job' = job /\ found' = found
  BY DEF CacheUpdate, PassUpdate, vars, searchVars
<1> QED BY <1>1, <1>3, <1>4, <1>5, <1>6, <1>7 DEF Next

\* Every opportunity of both strategies is a round trip through distinct pools whose
\* amounts chain, whose expected profit is what comes out less what goes in, and is
\* no less than the minimum, for every chain of updates and every interleaving with
\* the cache (simulate_cycle, dex_arb.rs; simulate_cycle, backrun.rs): neither the
\* difference cast to i64 nor the slippage product can wrap into a false profit,
\* because the inputs are at most half a u64 and no loss is asked for.
THEOREM OpportunitiesBalance == ConfigurationInRange => (Spec => []OpportunitiesAddUp)
<1> SUFFICES ASSUME ConfigurationInRange PROVE Spec => []OpportunitiesAddUp
  OBVIOUS
<1> DEFINE Balance == \A s \in Strategies : Balanced(s)
<1>1. Init => Balance
  <2> SUFFICES ASSUME Init, NEW s \in Strategies PROVE Balanced(s)
    OBVIOUS
  <2>1. job[s] = Idle /\ found[s] = {}
    BY DEF Init
  <2> QED BY <2>1 DEF Balanced, Idle
<1>2. Inv /\ Balance /\ [Next]_vars => Balance'
  BY BalanceNext
<1>3. Balance => OpportunitiesAddUp
  BY DEF Balanced, AddsUp, RoundTrip, OpportunitiesAddUp
<1> HIDE DEF Balance
<1> QED BY <1>1, <1>2, <1>3, Invariance, PTL DEF Spec

------------------------------------------------------------------------------
(* What stays what it was while the chain grows *)

\* What AmountsTyped says, as a formula: it holds of the next state too.
AmountsLaw(path, read, start) ==
  (/\ read \in Seq(Nat) /\ start \in Amounts
   /\ \A k \in 1..Len(read) : PoolTyped(PoolAt(read[k])))
  => LET amount == AmountsQuoted(path, read, start)
     IN  /\ \A k \in 0..Len(read) : amount[k] \in Amounts
         /\ amount[0] = start
         /\ \A k \in 1..Len(read) :
              amount[k] = Output(quote(PoolAt(read[k]), path[k].input, amount[k - 1]))

\* It does,
LEMMA AmountsLawful == \A path, read, start : AmountsLaw(path, read, start)
BY AmountsTyped DEF AmountsLaw

\* in every state.
LEMMA AmountsLawfulNext == (\A path, read, start : AmountsLaw(path, read, start))'
BY AmountsLawful, PTL

\* What an update did to its account stays so, and nothing is at index zero.
LEMMA PoolsStay ==
  ASSUME Grows, NEW i \in 0..Len(updates)
  PROVE  PoolsIn(i)' = PoolsIn(i) /\ PoolAt(i)' = PoolAt(i)
<1>1. CASE i = 0
  <2>1. i \notin DOMAIN updates /\ i \notin DOMAIN updates'
    BY <1>1 DEF Grows
  <2>2. PoolsIn(i) = {} /\ PoolsIn(i)' = {}
    BY <2>1 DEF PoolsIn
  <2> QED BY <2>2 DEF PoolAt
<1>2. CASE i # 0
  <2>1. i \in DOMAIN updates /\ i \in DOMAIN updates' /\ updates'[i] = updates[i]
    BY <1>2 DEF Grows
  <2>2. PoolsIn(i)' = PoolsIn(i)
    BY <2>1 DEF PoolsIn
  <2> QED BY <2>2 DEF PoolAt
<1> QED BY <1>1, <1>2

\* The amounts quoted from known accounts do not change.
LEMMA AmountsStay ==
  ASSUME Grows, NEW path, NEW read \in Seq(Nat), NEW start \in Amounts,
         \A k \in 1..Len(read) : read[k] \in 0..Len(updates) /\ PoolsIn(read[k]) # {}
  PROVE  \A k \in 0..Len(read) :
           AmountsQuoted(path, read, start)'[k] = AmountsQuoted(path, read, start)[k]
<1>1. Len(read) \in Nat /\ updates \in Seq(Broadcasts)
  BY DEF Grows
<1>2. \A k \in 1..Len(read) : /\ PoolTyped(PoolAt(read[k]))
                              /\ PoolAt(read[k])' = PoolAt(read[k])
  <2> SUFFICES ASSUME NEW k \in 1..Len(read)
               PROVE  PoolTyped(PoolAt(read[k])) /\ PoolAt(read[k])' = PoolAt(read[k])
    OBVIOUS
  <2>1. PICK i : i = read[k]
    OBVIOUS
  <2>2. PoolAt(i) \in PoolsIn(i)
    BY <2>1 DEF PoolAt
  <2>3. PoolTyped(PoolAt(i))
    BY <1>1, <2>2, PoolsInTyped
  <2>4. PoolAt(i)' = PoolAt(i)
    BY <2>1, PoolsStay
  <2>5. PoolAt(read[k])' = PoolAt(read[k])
    BY <2>1, <2>4 DEF PoolAt, PoolsIn
  <2> QED BY <2>1, <2>3, <2>5
<1> DEFINE f == AmountsQuoted(path, read, start)
<1>3. AmountsLaw(path, read, start) /\ AmountsLaw(path, read, start)'
  BY AmountsLawful, AmountsLawfulNext
<1>4. /\ f[0] = start
      /\ \A k \in 1..Len(read) : f[k] = Output(quote(PoolAt(read[k]), path[k].input, f[k - 1]))
  BY <1>2, <1>3 DEF AmountsLaw
<1>5. /\ (f')[0] = start
      /\ \A k \in 1..Len(read) :
           (f')[k] = Output(quote(PoolAt(read[k])', path[k].input, (f')[k - 1]))
  BY <1>2, <1>3 DEF AmountsLaw
<1>6. PICK a, b : a = f /\ b = f'
  OBVIOUS
<1>7. \A k \in 1..Len(read) : a[k - 1] = b[k - 1] => a[k] = b[k]
  BY <1>2, <1>4, <1>5, <1>6
<1>8. \A k \in 0..Len(read) : a[k] = b[k]
  <2>1. a[0] = b[0]
    BY <1>4, <1>5, <1>6
  <2> QED BY <1>1, <1>7, <2>1, SameSteps, ZenonT(30)
<1> QED BY <1>6, <1>8

\* Accounts a path can be priced from: known, and each with a pool.
Known(read) == \A k \in 1..Len(read) : read[k] \in 0..Len(updates) /\ PoolsIn(read[k]) # {}

\* The pools and the hops read off known accounts do not change.
LEMMA HopsStay ==
  ASSUME Grows, NEW path, NEW read, Known(read), DOMAIN path = 1..Len(read)
  PROVE  HopsRead(path, read)' = HopsRead(path, read)
<1>1. ASSUME NEW k \in 1..Len(read) PROVE PoolAt(read[k])' = PoolAt(read[k])
  <2>1. PICK i : i = read[k]
    OBVIOUS
  <2>2. PoolAt(i)' = PoolAt(i)
    BY <2>1, PoolsStay DEF Known
  <2> QED BY <2>1, <2>2 DEF PoolAt, PoolsIn
<1> QED BY <1>1 DEF HopsRead

\* Nor does the opportunity on a path.
LEMMA OpportunityStays ==
  ASSUME Grows, NEW path, NEW read \in Seq(Nat), Known(read), DOMAIN path = 1..Len(read),
         Len(path) = Len(read), NEW start \in Amounts, NEW slippage
  PROVE  Opportunity(path, read, start, slippage)' = Opportunity(path, read, start, slippage)
<1>0. Len(read) \in Nat
  OBVIOUS
<1> DEFINE f == AmountsQuoted(path, read, start)
<1>1. \A k \in 0..Len(read) : (f')[k] = f[k]
  BY AmountsStay DEF Known
<1>2. PICK a, b : a = f /\ b = f'
  OBVIOUS
<1> HIDE DEF f
<1>3. \A k \in 0..Len(read) : b[k] = a[k]
  BY <1>1, <1>2
<1> DEFINE Made(q) == [path |-> [k \in DOMAIN path |-> Step(path[k], q[k - 1], q[k], slippage)],
                       expected_profit |-> DifferenceAsI64(q[Len(path)], start),
                       read |-> read]
<1>4. b[Len(path)] = a[Len(path)]
  BY <1>0, <1>3
<1>5. \A k \in DOMAIN path : b[k] = a[k] /\ b[k - 1] = a[k - 1]
  BY <1>0, <1>3
<1>6. Made(b) = Made(a)
  BY <1>4, <1>5
<1>7. Opportunity(path, read, start, slippage) = IF a[Len(path)] = 0 THEN {} ELSE {Made(a)}
  BY <1>2 DEF Opportunity, f
<1>8. Opportunity(path, read, start, slippage)' = IF b[Len(path)] = 0 THEN {} ELSE {Made(b)}
  BY <1>2 DEF Opportunity, f
<1> HIDE DEF Made
<1> QED BY <1>4, <1>6, <1>7, <1>8

\* Nor do those the DEX strategy keeps.
LEMMA PricedStays ==
  ASSUME Grows, NEW path, NEW read \in Seq(Nat), Known(read), DOMAIN path = 1..Len(read),
         Len(path) = Len(read)
  PROVE  Priced("dex_arb", path, read)' = Priced("dex_arb", path, read)
<1>1. PICK hops : hops = HopsRead(path, read)
  OBVIOUS
<1>2. hops = HopsRead(path, read)'
  BY <1>1, HopsStay
<1> DEFINE best == optimize_arb_amount(hops, MaxInput, MinInput)
<1>3. best.amount \in Amounts
  BY OptimumTyped
<1>4. PICK amount \in Amounts : amount = best.amount
  BY <1>3
<1>5. PICK profit : profit = best.profit
  OBVIOUS
<1>6. PICK made : made = Opportunity(path, read, amount, Slippage)
  OBVIOUS
<1>7. made = Opportunity(path, read, amount, Slippage)'
  BY <1>6, OpportunityStays
<1>8. SimulateCycle(path, read) = IF profit <= 0 \/ amount = 0 THEN {} ELSE made
  BY <1>1, <1>4, <1>5, <1>6 DEF SimulateCycle
<1>9. SimulateCycle(path, read)' = IF profit <= 0 \/ amount = 0 THEN {} ELSE made
  BY <1>2, <1>4, <1>5, <1>7 DEF SimulateCycle
<1> QED BY <1>8, <1>9 DEF Priced

\* A judgement of the DEX strategy, with the opportunities that came of it.
JudgedWith(path, kept) ==
  \E read \in [1..Len(path) -> Indices] :
    /\ \A k \in 1..Len(path) :
         read[k] \in began["dex_arb"][path[k].pool]..cache[path[k].pool]
    /\ (\A k \in 1..Len(path) : Readable("dex_arb", read[k]) # {})
         => Priced("dex_arb", path, read) \subseteq kept

\* What a judgement rests on does not change either: a cycle once judged stays so
\* while the cache and the opportunities grow.
LEMMA JudgedStays ==
  ASSUME Inv, Grows, CacheGrows, began'["dex_arb"] = began["dex_arb"],
         NEW path \in LongPaths, NEW kept, JudgedWith(path, kept), kept \subseteq found'["dex_arb"]
  PROVE  Judged("dex_arb", path)'
<1> DEFINE n == Len(path)
<1>0. /\ n \in Nat /\ DOMAIN path = 1..n
      /\ \A k \in 1..n : path[k] \in Hops /\ path[k].pool \in Pools
  <2>1. path \in Seq(Hops)
    BY DEF LongPaths, Paths
  <2>2. \A k \in 1..n : path[k] \in Hops
    BY <2>1, ElementOfSeq
  <2>3. n \in Nat /\ DOMAIN path = 1..n
    BY <2>1, LenProperties
  <2> QED BY <2>2, <2>3 DEF Hops
<1> HIDE DEF n
<1>1. PICK read \in [1..n -> Indices] :
        /\ \A k \in 1..n :
             read[k] \in began["dex_arb"][path[k].pool]..cache[path[k].pool]
        /\ (\A k \in 1..n : Readable("dex_arb", read[k]) # {})
             => Priced("dex_arb", path, read) \subseteq kept
  BY DEF JudgedWith, n
<1>2. /\ read \in Seq(Nat) /\ Len(read) = n
  BY <1>0, <1>1, StrategyAssumption, SMTT(30) DEF Indices
<1>3. ASSUME NEW k \in 1..n PROVE read[k] \in 0..Len(updates)
  <2>1. cache[path[k].pool] \in Nat /\ cache[path[k].pool] <= position["cache"]
        /\ position["cache"] \in Nat /\ position["cache"] <= Len(updates) /\ Len(updates) \in Nat
    BY <1>0, InvFacts
  <2>2. began["dex_arb"][path[k].pool] \in Nat
    BY <1>0, InvFacts DEF BeganTyped, Strategies
  <2> QED BY <1>1, <2>1, <2>2
<1>4. ASSUME NEW k \in 1..n PROVE Readable("dex_arb", read[k])' = Readable("dex_arb", read[k])
  <2>1. PICK i \in 0..Len(updates) : i = read[k]
    BY <1>3
  <2>2. PoolsIn(i)' = PoolsIn(i)
    BY PoolsStay
  <2>3. \A pool \in PoolsIn(i) : updates'[i] = updates[i]
    BY DEF PoolsIn, Grows
  <2>4. Readable("dex_arb", i)' = Readable("dex_arb", i)
    BY <2>2, <2>3 DEF Readable
  <2> QED BY <2>1, <2>4 DEF Readable, PoolsIn
<1>5. ASSUME NEW k \in 1..n
      PROVE  read[k] \in began'["dex_arb"][path[k].pool]..cache'[path[k].pool]
  <2>1. PICK p \in Pools : p = path[k].pool
    BY <1>0
  <2>2. read[k] \in began["dex_arb"][p]..cache[p]
    BY <1>1, <2>1
  <2>3. cache[p] \in Nat /\ cache'[p] \in Nat /\ cache[p] <= cache'[p]
    BY DEF CacheGrows
  <2>4. began["dex_arb"][p] \in Nat
    BY InvFacts DEF BeganTyped, Strategies
  <2>5. read[k] \in began'["dex_arb"][p]..cache'[p]
    BY <2>2, <2>3, <2>4
  <2> QED BY <2>1, <2>5
<1>6. ASSUME \A k \in 1..n : Readable("dex_arb", read[k])' # {}
      PROVE  Priced("dex_arb", path, read)' \subseteq found'["dex_arb"]
  <2>1. \A k \in 1..n : Readable("dex_arb", read[k]) # {}
    BY <1>4, <1>6
  <2>2. Known(read)
    BY <1>2, <1>3, <2>1 DEF Known, Readable
  <2>3. Priced("dex_arb", path, read)' = Priced("dex_arb", path, read)
    BY <1>0, <1>2, <2>2, PricedStays DEF n
  <2> QED BY <1>1, <2>1, <2>3
<1> QED BY <1>1, <1>5, <1>6 DEF Judged, n

\* One hop's part in the ratio of a path.
Worse(hop, ratio) ==
  <<ratio[1] * hop.reserve_out * (hop.den - hop.num), ratio[2] * hop.reserve_in * hop.den>>

\* The ratio of a path is reached hop by hop.
RatioLaw(g, path) ==
  (/\ Len(path) \in Nat
   /\ \A k \in 1..Len(path) : PoolTyped(PoolAt(g[path[k].pool])))
  => \E r : /\ r[0] = <<1, 1>>
            /\ \A k \in 1..Len(path) :
                 r[k] = Worse(Hop(PoolAt(g[path[k].pool]), path[k].input), r[k - 1])
            /\ Ratio(g, path) = r[Len(path)]

\* It is,
LEMMA RatioLawful == \A g, path : RatioLaw(g, path)
<1> SUFFICES ASSUME NEW g, NEW path, Len(path) \in Nat,
                    \A k \in 1..Len(path) : PoolTyped(PoolAt(g[path[k].pool]))
             PROVE  \E r : /\ r[0] = <<1, 1>>
                           /\ \A k \in 1..Len(path) :
                                r[k] = Worse(Hop(PoolAt(g[path[k].pool]), path[k].input), r[k - 1])
                           /\ Ratio(g, path) = r[Len(path)]
  BY DEF RatioLaw
<1> DEFINE n == Len(path)
           S == Int \X Int
           hop(k) == Hop(PoolAt(g[path[k].pool]), path[k].input)
           E(q) == q = [k \in 0..Len(path) |->
                         IF k = 0 THEN <<1, 1>>
                         ELSE <<q[k - 1][1] * hop(k).reserve_out * (hop(k).den - hop(k).num),
                                q[k - 1][2] * hop(k).reserve_in * hop(k).den>>]
           step == [k \in 1..n |-> [x \in S |-> Worse(hop(k), x)]]
<1>1. step \in [1..n -> [S -> S]]
  <2>1. ASSUME NEW k \in 1..n, NEW x \in S PROVE Worse(hop(k), x) \in S
    <3>1. /\ hop(k).reserve_in \in Nat /\ hop(k).reserve_out \in Nat
          /\ hop(k).num \in Nat /\ hop(k).den \in Nat
      BY HopTyped, WordAssumption DEF Amounts
    <3> HIDE DEF hop
    <3>2. \A a, b, c \in Int : a * b * c \in Int
      <4> TAKE a, b, c \in Int
      <4>1. a * b \in Int
        OBVIOUS
      <4> QED BY <4>1
    <3>3. x[1] \in Int /\ x[2] \in Int /\ hop(k).den - hop(k).num \in Int
      BY <3>1
    <3>4. /\ x[1] * hop(k).reserve_out * (hop(k).den - hop(k).num) \in Int
          /\ x[2] * hop(k).reserve_in * hop(k).den \in Int
      BY <3>1, <3>2, <3>3, SMTT(30)
    <3> QED BY <3>4 DEF Worse
  <2> HIDE DEF S, hop
  <2> QED BY <2>1
<1>2. PICK p : Follows(p, S, <<1, 1>>, n, step)
  <2> HIDE DEF step, n
  <2>1. <<1, 1>> \in S /\ n \in Nat
    BY DEF n
  <2> HIDE DEF S
  <2> QED BY <1>1, <2>1, StepsExist, Zenon
<1>3. p \in [0..n -> S] /\ p[0] = <<1, 1>> /\ \A k \in 1..n : p[k] = step[k][p[k - 1]]
  BY <1>2, Zenon DEF Follows
<1>4. \A k \in 1..n : p[k] = Worse(hop(k), p[k - 1])
  <2> HIDE DEF S, hop
  <2> SUFFICES ASSUME NEW k \in 1..n PROVE p[k] = Worse(hop(k), p[k - 1])
    OBVIOUS
  <2>1. p[k - 1] \in S
    BY <1>3
  <2> QED BY <1>3, <2>1
<1>5. E(p)
  <2> HIDE DEF S, hop
  <2>1. \A k \in 0..n : p[k] = IF k = 0 THEN <<1, 1>> ELSE Worse(hop(k), p[k - 1])
    <3> SUFFICES ASSUME NEW k \in 0..n
                 PROVE  p[k] = IF k = 0 THEN <<1, 1>> ELSE Worse(hop(k), p[k - 1])
      OBVIOUS
    <3>1. CASE k = 0
      BY <1>3, <3>1
    <3>2. CASE k # 0
      <4>1. k \in 1..n
        BY <3>2
      <4> QED BY <1>4, <3>2, <4>1
    <3> QED BY <3>1, <3>2
  <2>2. p = [k \in 0..n |-> IF k = 0 THEN <<1, 1>> ELSE Worse(hop(k), p[k - 1])]
    BY <1>3, <2>1
  <2> QED BY <2>2 DEF Worse
<1> DEFINE f == CHOOSE q : E(q)
<1>6. Ratio(g, path) = f[n]
  BY DEF Ratio
<1>7. E(f)
  BY <1>5
<1> HIDE DEF f
<1>8. f[0] = <<1, 1>> /\ \A k \in 1..n : f[k] = Worse(hop(k), f[k - 1])
  <2> HIDE DEF hop
  <2> QED BY <1>7 DEF Worse
<1> QED BY <1>6, <1>8

\* in every state.
LEMMA RatioLawfulNext == (\A g, path : RatioLaw(g, path))'
BY RatioLawful, PTL

\* A graph of updates that are known.
KnownGraph(g) == \A p \in Pools : g[p] \in 0..Len(updates)

\* The edges of a graph of updates do not change while others are broadcast,
LEMMA EdgesStay ==
  ASSUME Grows, NEW g, KnownGraph(g)
  PROVE  Edges(g)' = Edges(g)
<1>1. ASSUME NEW p \in Pools
      PROVE  PoolsIn(g[p])' = PoolsIn(g[p]) /\ PoolAt(g[p])' = PoolAt(g[p])
  <2>1. PICK i \in 0..Len(updates) : i = g[p]
    BY DEF KnownGraph
  <2>2. PoolsIn(i)' = PoolsIn(i) /\ PoolAt(i)' = PoolAt(i)
    BY PoolsStay
  <2> QED BY <2>1, <2>2 DEF PoolAt, PoolsIn
<1> DEFINE Q == {p \in Pools : \E pool \in PoolsIn(g[p]) : pool.num < pool.den}
           Edge(p, input, output) == [pool |-> p, input |-> input, output |-> output]
<1>2. {p \in Pools : \E pool \in PoolsIn(g[p])' : pool.num < pool.den} = Q
  BY <1>1
<1>3. \A p \in Q : /\ (PoolAt(g[p])').token_a = PoolAt(g[p]).token_a
                   /\ (PoolAt(g[p])').token_b = PoolAt(g[p]).token_b
  BY <1>1
<1>4. Edges(g) = {Edge(p, PoolAt(g[p]).token_a, PoolAt(g[p]).token_b) : p \in Q}
                 \cup {Edge(p, PoolAt(g[p]).token_b, PoolAt(g[p]).token_a) : p \in Q}
  BY DEF Edges
<1>5. Edges(g)' = {Edge(p, (PoolAt(g[p])').token_a, (PoolAt(g[p])').token_b) : p \in Q}
                  \cup {Edge(p, (PoolAt(g[p])').token_b, (PoolAt(g[p])').token_a) : p \in Q}
  BY <1>2 DEF Edges
<1> HIDE DEF Q, Edge
<1> QED BY <1>3, <1>4, <1>5

\* nor do the ratios along them,
LEMMA RatioStays ==
  ASSUME Grows, NEW g, KnownGraph(g), NEW path, Len(path) \in Nat,
         \A k \in 1..Len(path) : path[k].pool \in Pools /\ PoolsIn(g[path[k].pool]) # {}
  PROVE  Ratio(g, path)' = Ratio(g, path)
<1>1. ASSUME NEW k \in 1..Len(path)
      PROVE  /\ PoolTyped(PoolAt(g[path[k].pool]))
             /\ PoolAt(g[path[k].pool])' = PoolAt(g[path[k].pool])
  <2>1. PICK i \in 0..Len(updates) : i = g[path[k].pool]
    BY DEF KnownGraph
  <2>2. PoolAt(i)' = PoolAt(i)
    BY PoolsStay
  <2>3. PoolAt(g[path[k].pool])' = PoolAt(g[path[k].pool])
    BY <2>1, <2>2 DEF PoolAt, PoolsIn
  <2>4. PoolAt(i) \in PoolsIn(i)
    BY <2>1 DEF PoolAt
  <2>5. PoolTyped(PoolAt(i))
    BY <2>4, PoolsInTyped DEF Grows
  <2> QED BY <2>1, <2>3, <2>5
<1>2. PICK a : /\ a[0] = <<1, 1>>
               /\ \A k \in 1..Len(path) :
                    a[k] = Worse(Hop(PoolAt(g[path[k].pool]), path[k].input), a[k - 1])
               /\ Ratio(g, path) = a[Len(path)]
  BY <1>1, RatioLawful DEF RatioLaw
<1>3. PICK b : /\ b[0] = <<1, 1>>
               /\ \A k \in 1..Len(path) :
                    b[k] = Worse(Hop(PoolAt(g[path[k].pool])', path[k].input), b[k - 1])
               /\ Ratio(g, path)' = b[Len(path)]
  BY <1>1, RatioLawfulNext DEF RatioLaw
<1>4. \A k \in 1..Len(path) : a[k - 1] = b[k - 1] => a[k] = b[k]
  BY <1>1, <1>2, <1>3
<1>5. a[Len(path)] = b[Len(path)]
  <2>1. a[0] = b[0]
    BY <1>2, <1>3
  <2>2. \A k \in 0..Len(path) : a[k] = b[k]
    BY <1>4, <2>1, SameSteps, ZenonT(30)
  <2> QED BY <2>2
<1> QED BY <1>2, <1>3, <1>5

\* nor, then, do its cycles.
LEMMA CyclesStay ==
  ASSUME Grows, NEW g, KnownGraph(g), NEW n \in Nat
  PROVE  Cycles(g, n)' = Cycles(g, n)
<1>1. PICK edges : edges = Edges(g)
  OBVIOUS
<1>2. edges = Edges(g)'
  BY <1>1, EdgesStay
<1>3. ASSUME NEW anchor, NEW path \in PathsFrom(edges, anchor, n)
      PROVE  WorthPricing(g, path)' <=> WorthPricing(g, path)
  <2>1. PICK m \in 2..n : path \in [1..m -> edges]
    BY <1>3 DEF PathsFrom
  <2>2. m \in Nat /\ Len(path) = m
    BY <2>1
  <2>3. ASSUME NEW k \in 1..m PROVE path[k].pool \in Pools /\ PoolsIn(g[path[k].pool]) # {}
    <3>1. path[k] \in Edges(g)
      BY <1>1, <2>1
    <3>2. PICK p \in Pools : PoolsIn(g[p]) # {} /\ path[k].pool = p
      BY <3>1 DEF Edges
    <3> QED BY <3>2
  <2>4. Ratio(g, path)' = Ratio(g, path)
    BY <2>2, <2>3, RatioStays
  <2> QED BY <2>4 DEF WorthPricing
<1> DEFINE Worth(a) == {path \in PathsFrom(edges, Anchors[a], n) : WorthPricing(g, path)}
           WorthNext(a) == {path \in PathsFrom(edges, Anchors[a], n) : WorthPricing(g, path)'}
<1>4. \A a : Worth(a) = WorthNext(a)
  BY <1>3
<1>5. Cycles(g, n) = UNION {Worth(a) : a \in DOMAIN Anchors}
  BY <1>1 DEF Cycles
<1>6. Cycles(g, n)' = UNION {WorthNext(a) : a \in DOMAIN Anchors}
  BY <1>2 DEF Cycles
<1> HIDE DEF Worth, WorthNext
<1> QED BY <1>4, <1>5, <1>6

------------------------------------------------------------------------------
(* No cycle is passed over *)

\* A cycle the DEX strategy still has to look at, is looking at, or has judged.
Accounted(path) ==
  \/ path \in job["dex_arb"].todo
  \/ path = job["dex_arb"].path
  \/ Judged("dex_arb", path)

\* Every cycle of the graph is one of them.
AllAccounted == \A g : g = graph => \A path \in Cycles(g, MaxHops) : Accounted(path)

\* No entry of the cache is ever overwritten by an older one.
LEMMA CacheOnlyGrows ==
  ASSUME Inv, [Next]_vars
  PROVE  CacheGrows
<1>1. \A p \in Pools : cache[p] \in Nat
  BY InvFacts
<1>2. CASE cache' = cache
  BY <1>1, <1>2 DEF CacheGrows
<1>3. CASE CacheUpdate
  <2>1. cache' = [cache EXCEPT ![updates[position["cache"] + 1].pool] = position["cache"] + 1]
    BY <1>3 DEF CacheUpdate, Upcoming
  <2>2. cache \in [Pools -> 0..position["cache"]] /\ position["cache"] \in Nat
    BY InvFacts DEF Inv, TypeOK
  <2>3. PICK q : q = updates[position["cache"] + 1].pool
    OBVIOUS
  <2>4. \A p \in Pools : cache'[p] = IF p = q THEN position["cache"] + 1 ELSE cache[p]
    BY <2>1, <2>2, <2>3
  <2> QED BY <2>2, <2>4, InvFacts DEF CacheGrows
<1>4. ASSUME NEW s \in Strategies, Evaluate(s) PROVE cache' = cache
  BY <1>4 DEF Evaluate, ReadHop, DropCycle, PriceCycle, feedVars
<1>5. ASSUME NEW size \in SwapSizes, EvaluateSwap(size) PROVE cache' = cache
  BY <1>5 DEF EvaluateSwap, feedVars
<1>6. ASSUME NEW p \in Pools, Write(p) PROVE cache' = cache
  BY <1>6 DEF Write
<1>7. PassUpdate \/ ProcessUpdate \/ UNCHANGED vars => cache' = cache
  BY DEF PassUpdate, ProcessUpdate, vars, feedVars
<1> QED BY <1>2, <1>3, <1>4, <1>5, <1>6, <1>7 DEF Next

\* The graph is one of known updates.
LEMMA GraphKnown ==
  ASSUME Inv, NEW g, g = graph
  PROVE  KnownGraph(g)
<1>1. graph \in [Pools -> 0..position["dex_arb"]]
  BY DEF Inv, TypeOK
<1>2. \A p \in Pools : g[p] \in 0..position["dex_arb"]
  BY <1>1
<1> QED BY <1>2, InvFacts DEF KnownGraph

\* A step that keeps the graph and the evaluation of the DEX strategy going keeps
\* its cycles accounted for, if those that leave its hands are judged.
LEMMA AccountedStays ==
  ASSUME Inv, AllAccounted, Grows, CacheGrows,
         graph' = graph, began'["dex_arb"] = began["dex_arb"],
         found["dex_arb"] \subseteq found'["dex_arb"],
         \A path \in LongPaths :
           (path \in job["dex_arb"].todo \/ path = job["dex_arb"].path) => Accounted(path)'
  PROVE  AllAccounted'
<1> SUFFICES ASSUME NEW g, g = graph', NEW path \in Cycles(g, MaxHops)'
             PROVE  Accounted(path)'
  BY DEF AllAccounted
<1>1. KnownGraph(g) /\ MaxHops \in Nat
  BY GraphKnown, StrategyAssumption
<1>2. path \in Cycles(g, MaxHops)
  BY <1>1, CyclesStay
<1>3. path \in LongPaths
  BY <1>1, <1>2, CyclesLong DEF Grows
<1>4. Accounted(path)
  BY <1>2 DEF AllAccounted
<1>5. CASE Judged("dex_arb", path)
  <2>1. PICK kept : kept = found["dex_arb"]
    OBVIOUS
  <2>2. JudgedWith(path, kept)
    BY <1>5, <2>1 DEF Judged, JudgedWith
  <2>3. Judged("dex_arb", path)'
    BY <1>3, <2>1, <2>2, JudgedStays
  <2> QED BY <2>3 DEF Accounted
<1> QED BY <1>3, <1>4, <1>5 DEF Accounted

\* A path in hand, or one of those that may come next, is the only one that leaves.
LEMMA OthersRemain ==
  ASSUME NEW s, NEW hand \in CyclesAtHand(s), NEW path \in LongPaths,
         path \in job[s].todo \/ path = job[s].path, path # hand
  PROVE  path \in Remaining(s, hand)
<1>1. CASE path \in job[s].todo
  BY <1>1 DEF Remaining
<1>2. CASE path = job[s].path
  <2>1. path # <<>>
    BY DEF LongPaths
  <2>2. hand = job[s].path
    BY <1>2, <2>1 DEF CyclesAtHand
  <2> QED BY <1>2, <2>2
<1> QED BY <1>1, <1>2

\* The cycle in hand is judged when one of its accounts is of no use, and when all
\* are read and it is priced.
LEMMA HandJudged ==
  ASSUME Inv, NEW path \in CyclesAtHand("dex_arb"), NEW read, read = ReadNext("dex_arb", path),
         NEW kept,
         \/ ~Passes("dex_arb", path, read)
         \/ Len(read) = Len(path) /\ Priced("dex_arb", path, read) \subseteq kept
  PROVE  JudgedWith(path, kept)
<1> DEFINE before == job["dex_arb"].read
           m == Len(before)
           n == Len(path)
           full == [k \in 1..n |-> IF k <= Len(read) THEN read[k] ELSE cache[path[k].pool]]
<1>0. "dex_arb" \in Strategies
  BY DEF Strategies
<1>1. /\ path \in LongPaths /\ read \in Reads /\ Len(read) \in Nat /\ Len(read) <= n
  BY <1>0, ReadNextBacked
<1>2. /\ n \in Nat /\ \A k \in 1..n : path[k].pool \in Pools
  <2>1. path \in Seq(Hops)
    BY <1>1 DEF LongPaths, Paths
  <2>2. \A k \in 1..n : path[k] \in Hops
    BY <2>1, ElementOfSeq
  <2> QED BY <2>1, <2>2, LenProperties DEF Hops
<1>3. /\ before \in Reads /\ InHand("dex_arb") /\ m \in Nat
  <2>1. job \in [Strategies -> Jobs]
    BY DEF Inv, TypeOK, Jobs
  <2> QED BY <1>0, <2>1 DEF Inv, Jobs, Reads
<1>4. /\ m < n
      /\ \A k \in 1..m : Backed("dex_arb", path[k].pool, before[k])
  <2>1. CASE job["dex_arb"].path # <<>>
    <3>1. path = job["dex_arb"].path
      BY <2>1 DEF CyclesAtHand
    <3> QED BY <1>3, <2>1, <3>1 DEF InHand
  <2>2. CASE job["dex_arb"].path = <<>>
    <3>1. m = 0
      BY <1>3, <2>2 DEF InHand
    <3>2. n > 0
      BY <1>1, <1>2, EmptySeq, LenProperties DEF LongPaths, Paths
    <3> HIDE DEF m, n
    <3> QED BY <3>1, <3>2
  <2> QED BY <2>1, <2>2
<1> HIDE DEF n
<1>5. /\ Len(read) = m + 1 /\ read[m + 1] = cache[path[m + 1].pool]
      /\ \A k \in 1..m : read[k] = before[k]
  <2>1. read = Append(before, cache[path[m + 1].pool])
    BY DEF ReadNext
  <2>2. before \in Seq(Indices)
    BY <1>3 DEF Reads
  <2>3. cache[path[m + 1].pool] \in Indices
    <3>1. path[m + 1].pool \in Pools
      BY <1>2, <1>3, <1>4
    <3> QED BY <3>1, InvFacts DEF Indices
  <2> HIDE DEF before
  <2> QED BY <2>1, <2>2, <2>3
<1> HIDE DEF m, before
<1>6. \A p \in Pools : /\ cache[p] \in Indices /\ cache[p] \in Nat
                      /\ began["dex_arb"][p] \in Nat /\ began["dex_arb"][p] <= cache[p]
  BY <1>0, InvFacts DEF Indices, BeganTyped, Inv, Cached
<1>7. full \in [1..n -> Indices]
  <2>1. \A k \in 1..n : k <= Len(read) => read[k] \in Indices
    BY <1>1 DEF Reads
  <2> QED BY <1>2, <1>6, <2>1
<1>8. ASSUME NEW k \in 1..n
      PROVE  full[k] \in began["dex_arb"][path[k].pool]..cache[path[k].pool]
  <2>1. PICK p \in Pools : p = path[k].pool
    BY <1>2
  <2>2. CASE k <= m
    <3>1. k \in 1..m /\ k <= Len(read)
      BY <1>3, <1>5, <2>2
    <3>2. full[k] = before[k]
      BY <1>5, <3>1
    <3> QED BY <1>4, <3>1, <3>2 DEF Backed
  <2>3. CASE k = m + 1
    <3>1. full[k] = cache[p]
      BY <1>5, <2>1, <2>3
    <3> QED BY <1>6, <2>1, <3>1
  <2>4. CASE k > m + 1
    <3>1. full[k] = cache[p]
      BY <1>3, <1>5, <2>1, <2>4
    <3> QED BY <1>6, <2>1, <3>1
  <2> QED BY <1>3, <2>2, <2>3, <2>4
<1>9. ASSUME \A k \in 1..n : Readable("dex_arb", full[k]) # {}
      PROVE  Priced("dex_arb", path, full) \subseteq kept
  <2>1. m + 1 \in 1..n /\ full[m + 1] = read[Len(read)]
    BY <1>2, <1>3, <1>4, <1>5
  <2>2. Passes("dex_arb", path, read)
    BY <1>9, <2>1 DEF Passes
  <2>3. Len(read) = n
    BY <2>2 DEF n
  <2>4. full = read
    <3>1. read \in [1..n -> Indices]
      BY <1>1, <2>3 DEF Reads
    <3> QED BY <2>3, <3>1
  <2> QED BY <2>2, <2>4
<1> HIDE DEF full
<1> QED BY <1>7, <1>8, <1>9 DEF JudgedWith, n

\* A step of the DEX strategy's evaluation keeps its cycles accounted for.
LEMMA EvaluateAccounts ==
  ASSUME Inv, AllAccounted, Evaluate("dex_arb"), Grows, CacheGrows
  PROVE  AllAccounted'
<1>0. /\ job \in [Strategies -> Jobs] /\ found \in [Strategies -> SUBSET Opportunities]
      /\ "dex_arb" \in Strategies
  BY DEF Inv, TypeOK, Opportunities, Jobs, Strategies
<1>1. CASE ReadHop("dex_arb")
  <2>1. PICK hand \in CyclesAtHand("dex_arb") :
          /\ \E read : job' = [job EXCEPT !["dex_arb"] =
                                [todo |-> Remaining("dex_arb", hand), path |-> hand, read |-> read]]
          /\ found' = found /\ began' = began /\ graph' = graph
    BY <1>1 DEF ReadHop, graphVars
  <2>2. job'["dex_arb"].todo = Remaining("dex_arb", hand) /\ job'["dex_arb"].path = hand
    BY <1>0, <2>1
  <2>3. ASSUME NEW path \in LongPaths, path \in job["dex_arb"].todo \/ path = job["dex_arb"].path
        PROVE  Accounted(path)'
    <3>1. path = hand \/ path \in Remaining("dex_arb", hand)
      BY <2>3, OthersRemain
    <3> QED BY <2>2, <3>1 DEF Accounted
  <2> QED BY <2>1, <2>3, AccountedStays
<1>2. ASSUME NEW hand \in CyclesAtHand("dex_arb"), NEW todo, NEW kept,
             JudgedWith(hand, kept), Remaining("dex_arb", hand) \subseteq todo,
             job' = [job EXCEPT !["dex_arb"] = [Idle EXCEPT !.todo = todo]],
             found["dex_arb"] \subseteq found'["dex_arb"], kept \subseteq found'["dex_arb"],
             began' = began, graph' = graph
      PROVE  AllAccounted'
  <2>1. job'["dex_arb"].todo = todo
    BY <1>0, <1>2 DEF Idle
  <2>2. ASSUME NEW path \in LongPaths, path \in job["dex_arb"].todo \/ path = job["dex_arb"].path
        PROVE  Accounted(path)'
    <3>1. CASE path = hand
      <4>1. Judged("dex_arb", path)'
        BY <1>2, <3>1, JudgedStays
      <4> QED BY <4>1 DEF Accounted
    <3>2. CASE path # hand
      <4>1. path \in Remaining("dex_arb", hand)
        BY <2>2, <3>2, OthersRemain
      <4> QED BY <1>2, <2>1, <4>1 DEF Accounted
    <3> QED BY <3>1, <3>2
  <2> QED BY <1>2, <2>2, AccountedStays
<1>3. CASE DropCycle("dex_arb")
  <2>1. PICK hand \in CyclesAtHand("dex_arb") :
          /\ ~Passes("dex_arb", hand, ReadNext("dex_arb", hand))
          /\ job' = [job EXCEPT !["dex_arb"] = [Idle EXCEPT !.todo = Remaining("dex_arb", hand)]]
          /\ found' = found /\ began' = began /\ graph' = graph
    BY <1>3 DEF DropCycle, graphVars
  <2>2. JudgedWith(hand, {})
    BY <2>1, HandJudged
  <2> QED BY <1>2, <2>1, <2>2
<1>4. CASE PriceCycle("dex_arb")
  <2>1. PICK hand \in CyclesAtHand("dex_arb") :
          LET read == ReadNext("dex_arb", hand)
              kept == Priced("dex_arb", hand, read)
              done == "dex_arb" = "backrun" /\ kept # {}
          IN  /\ Len(read) = Len(hand)
              /\ found' = [found EXCEPT !["dex_arb"] = @ \cup kept]
              /\ job' = [job EXCEPT !["dex_arb"] =
                          [Idle EXCEPT !.todo = IF done THEN {} ELSE Remaining("dex_arb", hand)]]
              /\ began' = began /\ graph' = graph
    BY <1>4 DEF PriceCycle, graphVars
  <2>2. PICK read : read = ReadNext("dex_arb", hand)
    OBVIOUS
  <2>3. PICK kept : kept = Priced("dex_arb", hand, read)
    OBVIOUS
  <2>4. /\ Len(read) = Len(hand)
        /\ found' = [found EXCEPT !["dex_arb"] = @ \cup kept]
        /\ job' = [job EXCEPT !["dex_arb"] = [Idle EXCEPT !.todo = Remaining("dex_arb", hand)]]
        /\ began' = began /\ graph' = graph
    BY <2>1, <2>2, <2>3
  <2>5. JudgedWith(hand, kept)
    BY <2>2, <2>3, <2>4, HandJudged
  <2>6. found'["dex_arb"] = found["dex_arb"] \cup kept
    BY <1>0, <2>4
  <2> QED BY <1>2, <2>4, <2>5, <2>6
<1> QED BY <1>1, <1>3, <1>4 DEF Evaluate

\* So does every step.
LEMMA AccountedNext ==
  ASSUME Inv, Inv', AllAccounted, [Next]_vars
  PROVE  AllAccounted'
<1>0. /\ Grows /\ CacheGrows /\ "dex_arb" \in Strategies
      /\ job \in [Strategies -> Jobs] /\ found \in [Strategies -> SUBSET Opportunities]
      /\ began \in [Strategies -> [Pools -> 0..position["cache"]]]
  BY UpdatesGrow, CacheOnlyGrows DEF Inv, TypeOK, Opportunities, Jobs, Strategies
<1>1. ASSUME job'["dex_arb"] = job["dex_arb"], found'["dex_arb"] = found["dex_arb"],
             began'["dex_arb"] = began["dex_arb"], graph' = graph
      PROVE  AllAccounted'
  <2>1. \A path : (path \in job["dex_arb"].todo \/ path = job["dex_arb"].path) => Accounted(path)'
    BY <1>1 DEF Accounted
  <2> QED BY <1>0, <1>1, <2>1, AccountedStays
<1>2. ASSUME ProcessUpdate PROVE AllAccounted'
  <2> SUFFICES ASSUME NEW g, g = graph', NEW path \in Cycles(g, MaxHops)'
               PROVE  Accounted(path)'
    BY DEF AllAccounted
  <2>1. Begin("dex_arb", Cycles(g, MaxHops)) /\ updates' = updates
    BY <1>2 DEF ProcessUpdate
  <2>2. KnownGraph(g) /\ MaxHops \in Nat
    <3>1. graph' \in [Pools -> 0..position'["dex_arb"]] /\ position'["dex_arb"] \in 0..Len(updates')
      BY DEF Inv, TypeOK
    <3>2. \A p \in Pools : g[p] \in 0..position'["dex_arb"]
      BY <3>1
    <3> QED BY <2>1, <3>1, <3>2, InvFacts, StrategyAssumption, SMTT(30) DEF KnownGraph
  <2>3. path \in Cycles(g, MaxHops)
    BY <1>0, <2>2, CyclesStay
  <2>4. job'["dex_arb"].todo = Cycles(g, MaxHops)
    BY <1>0, <2>1 DEF Begin, Idle
  <2> QED BY <2>3, <2>4 DEF Accounted
<1>3. ASSUME NEW size \in SwapSizes, EvaluateSwap(size) PROVE AllAccounted'
  <2>1. PICK cycles : Begin("backrun", cycles)
    BY <1>3 DEF EvaluateSwap
  <2>2. /\ job'["dex_arb"] = job["dex_arb"] /\ found'["dex_arb"] = found["dex_arb"]
        /\ began'["dex_arb"] = began["dex_arb"]
    BY <1>0, <2>1 DEF Begin
  <2> QED BY <1>1, <1>3, <2>2 DEF EvaluateSwap, graphVars
<1>4. ASSUME NEW s \in Strategies, Evaluate(s) PROVE AllAccounted'
  <2>1. CASE s = "dex_arb"
    BY <1>0, <1>4, <2>1, EvaluateAccounts
  <2>2. CASE s # "dex_arb"
    <3>1. job'["dex_arb"] = job["dex_arb"] /\ found'["dex_arb"] = found["dex_arb"]
      BY <1>0, <1>4, <2>2 DEF Evaluate, ReadHop, DropCycle, PriceCycle
    <3>2. began' = began /\ graph' = graph
      BY <1>4 DEF Evaluate, ReadHop, DropCycle, PriceCycle, graphVars
    <3> QED BY <1>1, <3>1, <3>2
  <2> QED BY <2>1, <2>2
<1>5. ASSUME NEW p \in Pools, Write(p) PROVE AllAccounted'
  BY <1>1, <1>5 DEF Write, searchVars, graphVars
<1>6. ASSUME CacheUpdate \/ PassUpdate \/ UNCHANGED vars PROVE AllAccounted'
  BY <1>1, <1>6 DEF CacheUpdate, PassUpdate, vars, searchVars, graphVars
<1> QED BY <1>2, <1>3, <1>4, <1>5, <1>6 DEF Next

\* No cycle of the graph escapes judgement: whenever the DEX strategy is idle, each
\* has been priced from accounts the cache held while it evaluated, and all that
\* was worth keeping of it was kept, whatever the cache updater wrote in between
\* (find_opportunities and simulate_cycle, dex_arb.rs).
THEOREM CyclesAreJudged == Spec => []EveryCycleJudged
<1>1. Init => AllAccounted
  <2> SUFFICES ASSUME Init, NEW g, g = graph, NEW path \in Cycles(g, MaxHops) PROVE FALSE
    BY DEF AllAccounted
  <2>1. \A p \in Pools : g[p] = 0
    BY DEF Init, Nothing
  <2>2. \A p \in Pools : PoolsIn(g[p]) = {}
    BY <2>1 DEF PoolsIn, Init
  <2>3. Edges(g) = {}
    BY <2>2 DEF Edges
  <2>4. PICK anchor : path \in PathsFrom(Edges(g), anchor, MaxHops)
    BY DEF Cycles
  <2>5. PICK m \in 2..MaxHops : path \in [1..m -> Edges(g)]
    BY <2>4 DEF PathsFrom
  <2>6. path[1] \in Edges(g)
    BY <2>5, StrategyAssumption
  <2> QED BY <2>3, <2>6
<1>2. Inv /\ Inv' /\ AllAccounted /\ [Next]_vars => AllAccounted'
  BY AccountedNext
<1>3. Inv /\ AllAccounted => EveryCycleJudged
  <2> SUFFICES ASSUME Inv, AllAccounted, job["dex_arb"] = Idle,
                      NEW path \in Cycles(graph, MaxHops)
               PROVE  Judged("dex_arb", path)
    BY DEF EveryCycleJudged, Busy
  <2>1. Accounted(path)
    BY DEF AllAccounted
  <2>2. path # <<>>
    BY InvFacts, CyclesLong, StrategyAssumption DEF LongPaths
  <2> QED BY <2>1, <2>2 DEF Accounted, Idle
<1> QED BY <1>1, <1>2, <1>3, Invariance, PTL DEF Spec

------------------------------------------------------------------------------
(* Only the arithmetic misses *)

\* Every pool the graph has was usable when the graph took it.
GraphUsable ==
  \A g : g = graph =>
    \A p \in Pools : g[p] # 0 => \E pool \in PoolsIn(g[p]) : HasReserves(pool)

\* It stays so: an update of the strategy puts in nothing else, and what the other
\* pools were built from does not change.
LEMMA UsableNext ==
  ASSUME Inv, GraphUsable, [Next]_vars
  PROVE  GraphUsable'
<1> SUFFICES ASSUME NEW g, g = graph', NEW p \in Pools, g[p] # 0
             PROVE  \E pool \in PoolsIn(g[p])' : HasReserves(pool)
  BY DEF GraphUsable
<1>0. /\ Grows /\ graph \in [Pools -> 0..position["dex_arb"]]
      /\ \A q \in Pools : graph[q] \in 0..Len(updates)
  <2>1. graph \in [Pools -> 0..position["dex_arb"]]
    BY DEF Inv, TypeOK
  <2> QED BY <2>1, UpdatesGrow, InvFacts
<1>1. PICK i : i = g[p]
  OBVIOUS
<1>2. CASE i = graph[p]
  <2>1. \E pool \in PoolsIn(i) : HasReserves(pool)
    BY <1>1, <1>2 DEF GraphUsable
  <2>2. PoolsIn(i)' = PoolsIn(i)
    BY <1>0, <1>2, PoolsStay
  <2>3. PoolsIn(g[p])' = PoolsIn(i)'
    BY <1>1 DEF PoolsIn
  <2> QED BY <2>1, <2>2, <2>3
<1>3. CASE ProcessUpdate /\ i # graph[p]
  <2>1. PICK j : j = position["dex_arb"] + 1
    OBVIOUS
  <2>2. PICK pool \in PoolsIn(j) :
          graph' = IF HasReserves(pool) THEN [graph EXCEPT ![updates[j].pool] = j] ELSE graph
    BY <1>3, <2>1 DEF ProcessUpdate
  <2>3. HasReserves(pool) /\ i = j
    BY <1>0, <1>1, <1>3, <2>2
  <2>4. updates' = updates
    BY <1>3 DEF ProcessUpdate
  <2>5. PoolsIn(g[p])' = PoolsIn(j)
    BY <1>1, <2>3, <2>4 DEF PoolsIn
  <2> QED BY <2>2, <2>3, <2>5
<1>4. CASE graph' = graph
  BY <1>1, <1>2, <1>4
<1>5. ASSUME NEW q \in Pools, Write(q) PROVE graph' = graph
  BY <1>5 DEF Write, graphVars
<1>6. ASSUME NEW size \in SwapSizes, EvaluateSwap(size) PROVE graph' = graph
  BY <1>6 DEF EvaluateSwap, graphVars
<1>7. ASSUME NEW s \in Strategies, Evaluate(s) PROVE graph' = graph
  BY <1>7 DEF Evaluate, ReadHop, DropCycle, PriceCycle, graphVars
<1>8. CacheUpdate \/ PassUpdate \/ UNCHANGED vars => graph' = graph
  BY DEF CacheUpdate, PassUpdate, vars, graphVars
<1> QED BY <1>2, <1>3, <1>4, <1>5, <1>6, <1>7, <1>8 DEF Next

\* The optimizer and the strategy see the same amounts: a hop of a path through
\* pools that trade its mints is quoted by the swap the optimizer simulates.
LEMMA AmountsAgree ==
  ASSUME NEW path, NEW read, DOMAIN path = 1..Len(read), Len(path) = Len(read), Len(read) \in Nat,
         \A k \in 1..Len(read) :
           path[k].input \in {PoolAt(read[k]).token_a, PoolAt(read[k]).token_b},
         NEW start
  PROVE  AmountsQuoted(path, read, start) = AmountsAlong(HopsRead(path, read), start)
<1> DEFINE hops == HopsRead(path, read)
<1>1. Len(hops) = Len(read) /\ \A k \in 1..Len(read) : hops[k] = Hop(PoolAt(read[k]), path[k].input)
  BY DEF HopsRead
<1>2. \A k \in 1..Len(read) : \A x :
        Output(quote(PoolAt(read[k]), path[k].input, x)) = Through(hops[k], x)
  BY <1>1 DEF quote, Through
<1> HIDE DEF hops
<1>3. \A q : [k \in 0..Len(read) |->
                IF k = 0 THEN start ELSE Output(quote(PoolAt(read[k]), path[k].input, q[k - 1]))]
             = [i \in 0..Len(hops) |->
                  IF i = 0 THEN start ELSE Through(hops[i], q[i - 1])]
  BY <1>1, <1>2
<1> QED BY <1>3 DEF AmountsQuoted, AmountsAlong, hops

\* A path's pools known, with mints that fit.
Quotable(path, read) ==
  /\ read \in Seq(Nat) /\ Len(path) = Len(read) /\ DOMAIN path = 1..Len(read)
  /\ \A k \in 1..Len(read) :
       /\ PoolTyped(PoolAt(read[k]))
       /\ path[k].input \in {PoolAt(read[k]).token_a, PoolAt(read[k]).token_b}

\* What the optimizer takes for a profit is one: the strategy's quotes chain to an
\* output, and the difference is what it says.
LEMMA ProfitIsQuoted ==
  ASSUME NEW path, NEW read, Quotable(path, read), NEW start \in Amounts
  PROVE  LET profit == simulate_cycle(HopsRead(path, read), start)
             out    == AmountsQuoted(path, read, start)[Len(path)]
         IN  /\ profit \in Int
             /\ profit > 0 => start # 0 /\ out # 0 /\ profit = DifferenceAsI64(out, start)
<1> DEFINE hops == HopsRead(path, read)
           profit == simulate_cycle(hops, start)
           out == AmountsQuoted(path, read, start)[Len(path)]
<1>1. Len(read) \in Nat /\ Len(hops) = Len(path)
  BY DEF Quotable, HopsRead
<1>2. out = AmountsAlong(hops, start)[Len(hops)]
  BY <1>1, AmountsAgree DEF Quotable
<1>3. out \in Amounts
  <2>1. Len(path) \in 0..Len(read)
    BY <1>1 DEF Quotable
  <2> QED BY <2>1, AmountsTyped DEF Quotable
<1>4. profit = IF start = 0 THEN 0 ELSE IF out = 0 THEN DeadPath ELSE DifferenceAsI64(out, start)
  BY <1>2 DEF simulate_cycle
<1> HIDE DEF out, profit
<1>5. DeadPath \in Int /\ DeadPath <= 0
  BY WordAssumption DEF DeadPath
<1>6. DifferenceAsI64(out, start) \in Int
  BY <1>3, WordAssumption DEF DifferenceAsI64, AsU64, Amounts
<1>7. profit \in Int /\ (profit > 0 => start # 0 /\ out # 0 /\ profit = DifferenceAsI64(out, start))
  BY <1>4, <1>5, <1>6
<1> QED BY <1>7 DEF profit, out

\* The optimizer's profit is what its amount earns.
LEMMA OptimumEarns ==
  ASSUME NEW hops
  PROVE  LET best == optimize_arb_amount(hops, MaxInput, MinInput)
         IN  best.profit = 0 \/ best.profit = simulate_cycle(hops, best.amount)
BY DEF optimize_arb_amount

\* So a cycle the optimizer finds profitable enough is kept, pool by pool.
LEMMA ProfitableIsKept ==
  ASSUME NEW path, NEW read, Quotable(path, read), MinProfit > 0,
         optimize_arb_amount(HopsRead(path, read), MaxInput, MinInput).profit >= MinProfit,
         optimize_arb_amount(HopsRead(path, read), MaxInput, MinInput).profit \in Int
  PROVE  \E o \in Priced("dex_arb", path, read) :
           [k \in DOMAIN o.path |-> <<o.path[k].pool, o.path[k].input>>]
             = [k \in DOMAIN path |-> <<path[k].pool, path[k].input>>]
<1> DEFINE best == optimize_arb_amount(HopsRead(path, read), MaxInput, MinInput)
<1>1. PICK amount, profit : amount = best.amount /\ profit = best.profit
  OBVIOUS
<1>2. /\ amount \in Amounts /\ MinProfit \in Int /\ profit \in Int /\ profit >= MinProfit /\ profit > 0
  BY <1>1, OptimumTyped, StrategyAssumption
<1>3. profit = simulate_cycle(HopsRead(path, read), amount)
  BY <1>1, <1>2, OptimumEarns
<1> DEFINE f == AmountsQuoted(path, read, amount)
           steps == [k \in DOMAIN path |-> Step(path[k], f[k - 1], f[k], Slippage)]
           o == [path |-> steps, expected_profit |-> DifferenceAsI64(f[Len(path)], amount), read |-> read]
<1>4. amount # 0 /\ f[Len(path)] # 0 /\ profit = DifferenceAsI64(f[Len(path)], amount)
  BY <1>2, <1>3, ProfitIsQuoted
<1>5. Opportunity(path, read, amount, Slippage) = {o}
  BY <1>4 DEF Opportunity
<1>6. SimulateCycle(path, read) = {o}
  <2> HIDE DEF o, f
  <2>1. ~(best.profit <= 0 \/ best.amount = 0)
    BY <1>1, <1>2, <1>4
  <2>2. SimulateCycle(path, read) = Opportunity(path, read, best.amount, Slippage)
    <3> HIDE DEF best
    <3> QED BY <2>1 DEF SimulateCycle, best
  <2> QED BY <1>1, <1>5, <2>2
<1>7. o.expected_profit >= MinProfit /\ o.path = steps
  BY <1>2, <1>4
<1>8. [k \in DOMAIN steps |-> <<steps[k].pool, steps[k].input>>]
        = [k \in DOMAIN path |-> <<path[k].pool, path[k].input>>]
  <2>1. \A k \in DOMAIN path : steps[k].pool = path[k].pool /\ steps[k].input = path[k].input
    BY DEF Step
  <2>2. DOMAIN steps = DOMAIN path
    OBVIOUS
  <2> HIDE DEF steps
  <2> QED BY <2>1, <2>2
<1> HIDE DEF o, steps, f
<1>9. o \in Priced("dex_arb", path, read)
  BY <1>6, <1>7 DEF Priced
<1> QED BY <1>7, <1>8, <1>9

\* A round trip of the graph can be quoted from what the graph was built from.
LEMMA GraphQuotable ==
  ASSUME Inv, GraphUsable, NEW g, g = graph, NEW anchor, NEW path \in PathsFrom(Edges(g), anchor, MaxHops)
  PROVE  /\ Quotable(path, Sources(g, path))
         /\ \A k \in 1..Len(path) :
              /\ path[k].pool \in Pools /\ g[path[k].pool] # 0
              /\ Sources(g, path)[k] = g[path[k].pool] /\ g[path[k].pool] \in Indices
              /\ Readable("dex_arb", g[path[k].pool]) # {}
<1> DEFINE read == Sources(g, path)
<1>0. updates \in Seq(Broadcasts)
  BY InvFacts
<1>1. PICK m \in 2..MaxHops : path \in [1..m -> Edges(g)]
  BY DEF PathsFrom
<1>2. m \in Nat /\ DOMAIN path = 1..m /\ Len(path) = m
  BY <1>1, StrategyAssumption
<1>3. \A p \in Pools : g[p] \in Indices /\ g[p] \in Nat
  <2>1. \A p \in Pools : graph[p] \in 0..position["dex_arb"]
    BY DEF Inv, TypeOK
  <2> QED BY <2>1, InvFacts DEF Indices
<1>4. ASSUME NEW k \in 1..m
      PROVE  /\ path[k].pool \in Pools /\ PoolsIn(g[path[k].pool]) # {}
             /\ path[k].input \in {PoolAt(g[path[k].pool]).token_a, PoolAt(g[path[k].pool]).token_b}
  <2>1. PICK e \in Edges(g) : e = path[k]
    BY <1>1
  <2>2. /\ e.pool \in Pools /\ PoolsIn(g[e.pool]) # {}
        /\ e.input \in {PoolAt(g[e.pool]).token_a, PoolAt(g[e.pool]).token_b}
    BY DEF Edges
  <2> QED BY <2>1, <2>2
<1>5. read \in [1..m -> Nat] /\ \A k \in 1..m : read[k] = g[path[k].pool]
  BY <1>2, <1>3, <1>4 DEF Sources
<1>6. read \in Seq(Nat) /\ Len(read) = m
  BY <1>2, <1>5
<1>7. ASSUME NEW k \in 1..m PROVE PoolTyped(PoolAt(g[path[k].pool]))
  <2>1. PICK i : i = g[path[k].pool]
    OBVIOUS
  <2>2. PoolAt(i) \in PoolsIn(i)
    BY <1>4, <2>1 DEF PoolAt
  <2>3. PoolTyped(PoolAt(i))
    BY <1>0, <2>2, PoolsInTyped
  <2> QED BY <2>1, <2>3
<1> HIDE DEF read
<1>8. Quotable(path, read)
  BY <1>2, <1>4, <1>5, <1>6, <1>7 DEF Quotable
<1>9. ASSUME NEW k \in 1..m
      PROVE  g[path[k].pool] # 0 /\ Readable("dex_arb", g[path[k].pool]) # {}
  <2>1. PICK i : i = g[path[k].pool]
    OBVIOUS
  <2>2. i \in DOMAIN updates /\ decode_pool(updates[i].account) # {}
    BY <1>4, <2>1 DEF PoolsIn
  <2>3. i # 0
    BY <1>0, <2>2
  <2>4. \E pool \in PoolsIn(i) : HasReserves(pool)
    BY <1>4, <2>1, <2>3 DEF GraphUsable
  <2>5. updates[i].account.owner \in AdaptersOf("dex_arb")
    BY <2>2 DEF decode_pool, AdaptersOf, DexTypes
  <2> QED BY <2>1, <2>3, <2>4, <2>5 DEF Readable
<1> QED BY <1>2, <1>3, <1>4, <1>5, <1>8, <1>9 DEF read

\* What any input would earn is an integer.
LEMMA ProfitsTyped ==
  ASSUME NEW g, NEW path, Quotable(path, Sources(g, path)), NEW profit \in ProfitsOn(path, g)
  PROVE  profit \in Int
<1>1. PICK read : read = Sources(g, path)
  OBVIOUS
<1>2. PICK amount \in MinInput..MaxInput : profit = simulate_cycle(HopsRead(path, read), amount)
  BY <1>1 DEF ProfitsOn, Sources
<1>3. amount \in Amounts
  BY StrategyAssumption, WordAssumption DEF Amounts
<1> QED BY <1>1, <1>2, <1>3, ProfitIsQuoted

\* The larger of two.
LEMMA MaxOfTwo ==
  ASSUME NEW x \in Int, NEW y \in Int
  PROVE  Max({x, y}) \in Int /\ Max({x, y}) >= x /\ Max({x, y}) >= y
<1>1. PICK m \in {x, y} : \A z \in {x, y} : m >= z
  OBVIOUS
<1>2. Max({x, y}) = m
  BY <1>1, MaxIs
<1> QED BY <1>1, <1>2

\* When the cache is what the graph was built from, a path that is judged is judged
\* on the graph's word.
LEMMA JudgedOnTheGraph ==
  ASSUME Inv, GraphUsable, NEW g, g = graph, NEW anchor,
         NEW path \in PathsFrom(Edges(g), anchor, MaxHops),
         \A p \in Pools : g[p] # 0 => began["dex_arb"][p] = g[p] /\ cache[p] = g[p],
         Judged("dex_arb", path)
  PROVE  Priced("dex_arb", path, Sources(g, path)) \subseteq found["dex_arb"]
<1>1. PICK read \in [1..Len(path) -> Indices] :
        /\ \A k \in 1..Len(path) : read[k] \in began["dex_arb"][path[k].pool]..cache[path[k].pool]
        /\ (\A k \in 1..Len(path) : Readable("dex_arb", read[k]) # {})
             => Priced("dex_arb", path, read) \subseteq found["dex_arb"]
  BY DEF Judged
<1>2. ASSUME NEW k \in 1..Len(path)
      PROVE  read[k] = g[path[k].pool] /\ Sources(g, path)[k] = g[path[k].pool]
             /\ Readable("dex_arb", g[path[k].pool]) # {}
  <2>1. /\ path[k].pool \in Pools /\ g[path[k].pool] # 0 /\ g[path[k].pool] \in Indices
        /\ Sources(g, path)[k] = g[path[k].pool] /\ Readable("dex_arb", g[path[k].pool]) # {}
    BY GraphQuotable
  <2>2. PICK p \in Pools : p = path[k].pool
    BY <2>1
  <2>3. began["dex_arb"][p] = g[p] /\ cache[p] = g[p]
    BY <2>1, <2>2
  <2>4. PICK i : i = g[p]
    OBVIOUS
  <2>5. i \in Int /\ read[k] \in i..i
    BY <1>1, <2>1, <2>2, <2>3, <2>4 DEF Indices
  <2>6. read[k] = i
    BY <2>5
  <2> QED BY <2>1, <2>2, <2>4, <2>6
<1>3. read = Sources(g, path)
  <2>1. DOMAIN Sources(g, path) = 1..Len(path)
    BY GraphQuotable DEF Sources, Quotable
  <2>2. Sources(g, path) = [k \in 1..Len(path) |-> Sources(g, path)[k]]
    BY <2>1 DEF Sources
  <2> QED BY <1>1, <1>2, <2>2
<1>4. \A k \in 1..Len(path) : Readable("dex_arb", read[k]) # {}
  BY <1>2
<1> QED BY <1>1, <1>3, <1>4

\* Whatever the interleaving of the chain, the cache updater and the strategies, the
\* search and the pricing lose no profitable cycle: if one is missing, it is the
\* arithmetic's doing, the ternary search's or the threshold's (find_opportunities
\* and simulate_cycle, dex_arb.rs; optimize_arb_amount, optimizer.rs).
THEOREM OnlyArithmeticMisses == MinProfit > 0 => (Spec => [](ArithmeticServes => NothingMissed))
<1> SUFFICES ASSUME MinProfit > 0 PROVE Spec => [](ArithmeticServes => NothingMissed)
  OBVIOUS
<1>1. Init => GraphUsable
  BY DEF Init, Nothing, GraphUsable
<1>2. Inv /\ GraphUsable /\ [Next]_vars => GraphUsable'
  BY UsableNext
<1>3. Inv /\ GraphUsable /\ EveryCycleJudged => (ArithmeticServes => NothingMissed)
  <2> SUFFICES ASSUME Inv, GraphUsable, EveryCycleJudged, ArithmeticServes,
                      ~Busy("dex_arb"), began["dex_arb"] = cache,
                      \A p \in Pools : graph[p] \in {0, cache[p]},
                      NEW a \in DOMAIN Anchors,
                      NEW path \in PathsFrom(Edges(graph), Anchors[a], MaxHops),
                      NEW profit \in ProfitsOn(path, graph),
                      profit >= Max({MinProfit, Forgone}) + Rounding
               PROVE  \E o \in found["dex_arb"] :
                        [k \in DOMAIN o.path |-> <<o.path[k].pool, o.path[k].input>>]
                          = [k \in DOMAIN path |-> <<path[k].pool, path[k].input>>]
    BY DEF NothingMissed
  <2> DEFINE read == Sources(graph, path)
             best == optimize_arb_amount(HopsRead(path, read), MaxInput, MinInput)
  <2>1. best.profit >= profit - Rounding /\ WorthPricing(graph, path)
    BY DEF ArithmeticServes, ServesOn
  <2>2. path \in Cycles(graph, MaxHops)
    BY <2>1 DEF Cycles
  <2>3. Judged("dex_arb", path)
    BY <2>2 DEF EveryCycleJudged
  <2>4. \A p \in Pools : graph[p] # 0 => began["dex_arb"][p] = graph[p] /\ cache[p] = graph[p]
    OBVIOUS
  <2>5. Priced("dex_arb", path, read) \subseteq found["dex_arb"]
    BY <2>3, <2>4, JudgedOnTheGraph
  <2>6. Quotable(path, read)
    BY GraphQuotable
  <2>7. profit \in Int
    BY <2>6, ProfitsTyped
  <2>8. best.profit \in Int
    <3>1. best.amount \in Amounts
      BY OptimumTyped
    <3> QED BY <2>6, <3>1, OptimumEarns, ProfitIsQuoted
  <2>9. Forgone \in Int /\ MinProfit \in Int /\ Rounding \in Nat
    <3>1. /\ MaxInput \in Nat /\ MinRatio[1] \in Nat /\ MinRatio[2] \in Nat /\ MinRatio[2] > 0
          /\ MinProfit \in Int /\ Rounding \in Nat
      BY StrategyAssumption, WordAssumption DEF Amounts
    <3>2. PICK product \in Int : product = MaxInput * (MinRatio[1] - MinRatio[2])
      BY <3>1
    <3>3. PICK unit \in Nat : unit = MinRatio[2] /\ unit > 0
      BY <3>1
    <3> QED BY <3>1, <3>2, <3>3 DEF Forgone
  <2>10. best.profit >= MinProfit
    <3>1. PICK most \in Int : most = Max({MinProfit, Forgone}) /\ most >= MinProfit
      BY <2>9, MaxOfTwo
    <3> HIDE DEF best
    <3> QED BY <2>1, <2>7, <2>8, <2>9, <3>1
  <2> QED BY <2>5, <2>6, <2>8, <2>10, ProfitableIsKept
<1> QED BY <1>1, <1>2, <1>3, Invariance, CyclesAreJudged, PTL DEF Spec

------------------------------------------------------------------------------
(* What the ternary search finds *)

\* Profit on the hops rises to a peak and does not rise again, seen from inputs at
\* least a third of the precision apart: rounding may have it go up and down in
\* between.
Peaked(hops, min_input, max_input, peak) ==
  \A x, y \in min_input..max_input :
    y - x >= Precision \div 3 =>
      /\ y < peak => simulate_cycle(hops, x) < simulate_cycle(hops, y)
      /\ peak < x => ~(simulate_cycle(hops, x) < simulate_cycle(hops, y))

\* Taking a third off as often as there are rounds gets below the precision.
EnoughRounds(max_input, min_input) ==
  \E width \in [0..Iterations -> Nat] :
    /\ width[0] = max_input - min_input
    /\ \A k \in 1..Iterations : width[k] = width[k - 1] - width[k - 1] \div 3
    /\ width[Iterations] < Precision

\* A round never drops the third with the peak.
LEMMA RoundKeepsPeak ==
  ASSUME NEW hops, NEW min_input \in Nat, NEW max_input \in Nat, NEW peak \in Int,
         Peaked(hops, min_input, max_input, peak),
         NEW r \in RangesIn(min_input, max_input), r[1] <= peak, peak <= r[2]
  PROVE  Round(hops, r)[1] <= peak /\ peak <= Round(hops, r)[2]
<1>1. CASE r[2] - r[1] < Precision
  BY <1>1 DEF Round
<1>2. CASE ~(r[2] - r[1] < Precision)
  <2>1. /\ r[1] \in Int /\ r[2] \in Int /\ Precision \in Nat
        /\ min_input <= r[1] /\ r[1] <= r[2] /\ r[2] <= max_input
    BY MathAssumption DEF RangesIn
  <2>2. PICK third \in Int : third = (r[2] - r[1]) \div 3
    BY <2>1
  <2>3. PICK x, y \in min_input..max_input : x = r[1] + third /\ y = r[2] - third
    BY <2>1, <2>2
  <2>4. y - x >= Precision \div 3
    BY <1>2, <2>1, <2>2, <2>3
  <2>5. Round(hops, r) = IF simulate_cycle(hops, x) < simulate_cycle(hops, y)
                         THEN <<x, r[2]>> ELSE <<r[1], y>>
    BY <1>2, <2>2, <2>3 DEF Round, Narrow
  <2>6. /\ y < peak => simulate_cycle(hops, x) < simulate_cycle(hops, y)
        /\ peak < x => ~(simulate_cycle(hops, x) < simulate_cycle(hops, y))
    BY <2>4 DEF Peaked
  <2>7. CASE simulate_cycle(hops, x) < simulate_cycle(hops, y)
    <3>1. x <= peak
      BY <2>3, <2>6, <2>7
    <3> QED BY <2>5, <2>7, <3>1
  <2>8. CASE ~(simulate_cycle(hops, x) < simulate_cycle(hops, y))
    <3>1. peak <= y
      BY <2>3, <2>6, <2>8
    <3> QED BY <2>5, <2>8, <3>1
  <2> QED BY <2>7, <2>8
<1> QED BY <1>1, <1>2

\* The ternary search of the optimizer closes in on the peak of any cycle that has
\* one: the amount it settles on is less than the precision away, for every pair of
\* inputs it is started with and however the profit is rounded in between, provided
\* the rounds suffice (optimize_arb_amount, optimizer.rs).
THEOREM SearchFindsPeak ==
  ASSUME NEW hops, hops # <<>>, NEW max_input \in Nat, NEW min_input \in Nat,
         min_input < max_input, NEW peak \in min_input..max_input,
         Peaked(hops, min_input, max_input, peak), EnoughRounds(max_input, min_input)
  PROVE  LET best == optimize_arb_amount(hops, max_input, min_input)
         IN  best.amount - peak < Precision /\ peak - best.amount < Precision
<1>0. Iterations \in Nat /\ Precision \in Nat /\ peak \in Int /\ min_input <= max_input
  BY MathAssumption
<1>1. PICK f : Searched(f, hops, max_input, min_input)
  BY <1>0, SearchSteps
<1>1a. /\ SearchRange(hops, max_input, min_input) = f[Iterations]
       /\ f[0] = <<min_input, max_input>>
       /\ \A k \in 0..Iterations : f[k] \in RangesIn(min_input, max_input)
       /\ \A k \in 1..Iterations : f[k] = Round(hops, f[k - 1])
  BY <1>1 DEF Searched
<1>2. PICK width \in [0..Iterations -> Nat] :
        /\ width[0] = max_input - min_input
        /\ \A k \in 1..Iterations : width[k] = width[k - 1] - width[k - 1] \div 3
        /\ width[Iterations] < Precision
  BY DEF EnoughRounds
<1> DEFINE Brackets(k) == f[k][1] <= peak /\ peak <= f[k][2]
           Narrows(k) == f[k][2] - f[k][1] < Precision \/ f[k][2] - f[k][1] = width[k]
           T == {m \in Nat : m <= Iterations => Brackets(m) /\ Narrows(m)}
<1>3. 0 \in T
  <2>1. f[0][1] = min_input /\ f[0][2] = max_input
    BY <1>1a
  <2> QED BY <1>2, <2>1
<1>4. ASSUME NEW m \in Nat, m \in T PROVE m + 1 \in T
  <2> SUFFICES ASSUME m + 1 <= Iterations PROVE Brackets(m + 1) /\ Narrows(m + 1)
    OBVIOUS
  <2>1. Brackets(m) /\ Narrows(m)
    BY <1>0, <1>4
  <2>2. m + 1 \in 1..Iterations /\ m \in 0..Iterations /\ (m + 1) - 1 = m
    BY <1>0
  <2>3. PICK r \in RangesIn(min_input, max_input) : r = f[m]
    BY <1>1a, <2>2
  <2>4. f[m + 1] = Round(hops, r)
    BY <1>1a, <2>2, <2>3
  <2>5. Brackets(m + 1)
    BY <1>0, <2>1, <2>3, <2>4, RoundKeepsPeak
  <2>6. width[m + 1] = width[m] - width[m] \div 3
    BY <1>2, <2>2
  <2>7. CASE r[2] - r[1] < Precision
    BY <2>3, <2>4, <2>5, <2>7 DEF Round
  <2>8. CASE ~(r[2] - r[1] < Precision)
    <3>1. r[2] - r[1] = width[m]
      BY <2>1, <2>3, <2>8
    <3>2. Round(hops, r)[2] - Round(hops, r)[1] = (r[2] - r[1]) - (r[2] - r[1]) \div 3
      BY <2>8, RoundShrinks
    <3> QED BY <2>4, <2>5, <2>6, <3>1, <3>2
  <2> QED BY <2>5, <2>7, <2>8
<1>5. Iterations \in T
  <2> HIDE DEF T
  <2> QED BY <1>0, <1>3, <1>4, SetInduction
<1>6. PICK range : range = f[Iterations]
  OBVIOUS
<1>7. /\ range[1] \in Int /\ range[2] \in Int
      /\ range[1] <= peak /\ peak <= range[2] /\ range[2] - range[1] < Precision
  <2>1. range \in RangesIn(min_input, max_input)
    BY <1>0, <1>1a, <1>6
  <2> QED BY <1>0, <1>2, <1>5, <1>6, <2>1 DEF RangesIn
<1>8. optimize_arb_amount(hops, max_input, min_input).amount = (range[1] + range[2]) \div 2
  BY <1>1a, <1>6 DEF optimize_arb_amount
<1> QED BY <1>0, <1>7, <1>8, SMTT(30)

\* Of two neighbouring inputs none earns more than `slope` above the other.
NoSteeper(hops, min_input, max_input, slope) ==
  \A x, y \in min_input..max_input :
    y = x + 1 => /\ simulate_cycle(hops, x) >= simulate_cycle(hops, y) - slope
                 /\ simulate_cycle(hops, y) >= simulate_cycle(hops, x) - slope

\* So what two inputs earn differs by at most the slope times their distance.
LEMMA SlopeBounds ==
  ASSUME NEW hops, NEW min_input \in Nat, NEW max_input \in Nat, NEW slope \in Nat,
         \A x \in min_input..max_input : simulate_cycle(hops, x) \in Int,
         NoSteeper(hops, min_input, max_input, slope),
         NEW x \in min_input..max_input, NEW y \in min_input..max_input,
         NEW d \in Nat, y = x + d \/ x = y + d
  PROVE  simulate_cycle(hops, x) >= simulate_cycle(hops, y) - slope * d
<1> DEFINE Near(n) == \A u, v \in min_input..max_input :
                        v = u + n \/ u = v + n
                          => simulate_cycle(hops, u) >= simulate_cycle(hops, v) - slope * n
           T == {n \in Nat : Near(n)}
<1>1. 0 \in T
  <2> SUFFICES ASSUME NEW u \in min_input..max_input
               PROVE  simulate_cycle(hops, u) >= simulate_cycle(hops, u) - slope * 0
    OBVIOUS
  <2> QED OBVIOUS
<1>2. ASSUME NEW n \in Nat, n \in T PROVE n + 1 \in T
  <2> SUFFICES ASSUME NEW u \in min_input..max_input, NEW v \in min_input..max_input,
                      v = u + (n + 1) \/ u = v + (n + 1)
               PROVE  simulate_cycle(hops, u) >= simulate_cycle(hops, v) - slope * (n + 1)
    OBVIOUS
  <2>1. PICK w \in min_input..max_input :
          \/ v = u + (n + 1) /\ w = u + 1 /\ v = w + n
          \/ u = v + (n + 1) /\ u = w + 1 /\ w = v + n
    <3>1. CASE v = u + (n + 1)
      <4>1. u + 1 \in min_input..max_input /\ v = (u + 1) + n
        BY <3>1
      <4> QED BY <3>1, <4>1
    <3>2. CASE u = v + (n + 1)
      <4>1. v + n \in min_input..max_input /\ u = (v + n) + 1
        BY <3>2
      <4> QED BY <3>2, <4>1
    <3> QED BY <3>1, <3>2
  <2>2. simulate_cycle(hops, u) >= simulate_cycle(hops, w) - slope
    BY <2>1 DEF NoSteeper
  <2>3. PICK rest \in Int : rest = slope * n
    OBVIOUS
  <2>4. slope * (n + 1) = rest + slope
    BY <2>3
  <2>5. simulate_cycle(hops, w) >= simulate_cycle(hops, v) - rest
    BY <1>2, <2>1, <2>3
  <2>6. /\ simulate_cycle(hops, u) \in Int /\ simulate_cycle(hops, v) \in Int
        /\ simulate_cycle(hops, w) \in Int
    OBVIOUS
  <2> QED BY <2>2, <2>4, <2>5, <2>6
<1>3. Near(d)
  <2> HIDE DEF Near
  <2> QED BY <1>1, <1>2, SetInduction
<1> QED BY <1>3

\* What the ternary search forgoes: on a cycle with a peak its answer earns at most the
\* slope of the profit times the precision less than any other input does. This is the
\* loss NothingMissed allows for by a constant (optimize_arb_amount, optimizer.rs).
THEOREM SearchEarnsPeak ==
  ASSUME NEW hops, hops # <<>>, NEW max_input \in Nat, NEW min_input \in Nat,
         min_input < max_input, NEW peak \in min_input..max_input,
         Peaked(hops, min_input, max_input, peak), EnoughRounds(max_input, min_input),
         \A x \in min_input..max_input : simulate_cycle(hops, x) \in Int,
         \A x \in min_input..max_input : simulate_cycle(hops, x) <= simulate_cycle(hops, peak),
         NEW slope \in Nat, NoSteeper(hops, min_input, max_input, slope),
         NEW amount \in min_input..max_input
  PROVE  optimize_arb_amount(hops, max_input, min_input).profit
           >= simulate_cycle(hops, amount) - slope * Precision
<1>0. Precision \in Nat /\ peak \in Int
  BY MathAssumption
<1>1. PICK best : best = optimize_arb_amount(hops, max_input, min_input)
  OBVIOUS
<1>2. best.amount - peak < Precision /\ peak - best.amount < Precision
  BY <1>1, SearchFindsPeak
<1>3. PICK x \in min_input..max_input :
        best.amount = x /\ best.profit = simulate_cycle(hops, x)
  <2>1. PICK range : range = SearchRange(hops, max_input, min_input)
    OBVIOUS
  <2>2. /\ range[1] \in Int /\ range[2] \in Int
        /\ min_input <= range[1] /\ range[1] <= range[2] /\ range[2] <= max_input
    BY <2>1, SearchTyped
  <2>3. PICK x : x = (range[1] + range[2]) \div 2
    OBVIOUS
  <2>4. x \in min_input..max_input
    <3>1. PICK lo \in Int, hi \in Int : lo = range[1] /\ hi = range[2]
      BY <2>2
    <3>2. min_input <= lo /\ lo <= hi /\ hi <= max_input
      BY <2>2, <3>1
    <3>3. PICK mid \in Int : mid = (lo + hi) \div 2 /\ lo <= mid /\ mid <= hi
      BY <3>2
    <3>4. x = mid
      BY <2>3, <3>1, <3>3
    <3> QED BY <3>2, <3>3, <3>4
  <2>5. best = [amount |-> x, profit |-> simulate_cycle(hops, x)]
    BY <1>1, <2>1, <2>3 DEF optimize_arb_amount
  <2> QED BY <2>4, <2>5
<1>4. PICK d \in Nat : (peak = x + d \/ x = peak + d) /\ d < Precision
  <2>1. CASE x <= peak
    <3>1. peak - x \in Nat /\ peak = x + (peak - x)
      BY <1>0, <2>1
    <3> QED BY <1>2, <1>3, <3>1
  <2>2. CASE ~(x <= peak)
    <3>1. x - peak \in Nat /\ x = peak + (x - peak)
      BY <1>0, <2>2
    <3> QED BY <1>2, <1>3, <3>1
  <2> QED BY <2>1, <2>2
<1>5. simulate_cycle(hops, x) >= simulate_cycle(hops, peak) - slope * d
  BY <1>4, SlopeBounds
<1>6. PICK far \in Int, near \in Int : far = slope * Precision /\ near = slope * d
  BY <1>0
<1>7. near <= far
  BY <1>0, <1>4, <1>6
<1>8. PICK earned \in Int, most \in Int, other \in Int :
        /\ earned = simulate_cycle(hops, x)
        /\ most = simulate_cycle(hops, peak)
        /\ other = simulate_cycle(hops, amount)
  OBVIOUS
<1>9. other <= most
  BY <1>8
<1>10. earned >= most - near
  BY <1>5, <1>6, <1>8
<1>11. earned >= other - far
  BY <1>6, <1>7, <1>8, <1>9, <1>10
<1> QED BY <1>1, <1>3, <1>6, <1>8, <1>11
==============================================================
