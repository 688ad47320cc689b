-------------------------------- MODULE Lending --------------------------------
(***************************************************************************)
(* What the three lending adapters read out of an obligation, and what the *)
(* liquidation strategy makes of it.  An account is a record of the fields *)
(* read; "full" says that its data has the adapter's minimum size, "room"  *)
(* is the number of bytes from where the lists of positions start.  The    *)
(* health factor is below one exactly when the deposits count for less     *)
(* than the borrows.                                                       *)
(***************************************************************************)
EXTENDS Words, SeqFolds

CONSTANTS
  Scale,           \* 2^20, taken for the scale of the scaled fractions
  ShareUnit,       \* 2^48, of Marginfi's fixed-point shares
  LengthSize, CollateralSize, LiquiditySize,  \* 4, 56 and 80 bytes
  MaxItems,        \* 10
  MaxBalances,     \* 16
  BpsUnit,         \* 10000
  BonusOf,         \* the protocols' bonuses: 250, 250, 500 basis points
  MinBonus,        \* min_bonus_bps of the configuration
  MinBorrowValue,  \* 100000
  NoMint           \* Pubkey::default()

\* An item of the second list and the length before it take no less than one of the
\* first: 84 bytes, and 56.
ASSUME LendingAssumption ==
  /\ Scale \in Nat \ {0} /\ MaxItems \in Nat
  /\ {LengthSize, CollateralSize, LiquiditySize} \subseteq Nat \ {0}
  /\ CollateralSize <= LengthSize + LiquiditySize

Lesser(a, b) == IF a <= b THEN a ELSE b

\* A sum of u64s, as a u64.
Total(values) == AsU64(SumSeq(values))

\* Half of the first borrow, whatever its token.
CloseAmount(borrowed) == IF borrowed = <<>> THEN 0 ELSE borrowed[1] \div 2

\* A market value is cut to a u64 before it is scaled, an amount after.
MarketValuesRead(list, n) == [k \in 1..n |-> AsU64(list[k].market_value) \div Scale]
AmountsRead(list, n) == [k \in 1..n |-> AsU64(list[k].amount \div Scale)]

\* Items read: as many as announced, up to the end of the data.
ItemsRead_SkipsLast(announced, room, size) == Lesser(announced - 1, room \div size)
ItemsRead(announced, room, size) == Lesser(announced, room \div size)

\* The length of the borrows is read where the deposits ended.
BorrowsRead(account, deposits) ==
  LET left == account.room - deposits * CollateralSize
  IN  IF left < LengthSize THEN 0
      ELSE ItemsRead(Lesser(account.borrows_len, MaxItems), left - LengthSize, LiquiditySize)

ObligationState(protocol, total_deposit, total_borrow, max_liquidation) ==
  [protocol |-> protocol, total_deposit_usd |-> total_deposit, total_borrow_usd |-> total_borrow,
   max_liquidation_amount |-> max_liquidation, liquidation_bonus_bps |-> BonusOf[protocol]]

\* Any account of the program that is large enough is read as an obligation.
Kamino(account) ==
  LET deposits == ItemsRead(account.deposits_len, account.room, CollateralSize)
      borrows == BorrowsRead(account, deposits)
  IN  IF account.full /\ account.deposits_len <= MaxItems
      THEN {ObligationState("kamino",
              Total(MarketValuesRead(account.deposits, deposits)),
              Total(MarketValuesRead(account.borrows, borrows)),
              CloseAmount(AmountsRead(account.borrows, borrows)))}
      ELSE {}

\* The active balances: what they hold is added up as if all tokens were worth the
\* same.  Shares are signed.
Marginfi(account) ==
  LET Present(balance) == balance.active
      balances == SelectSeq(SubSeq(account.balances, 1, Lesser(MaxBalances, Len(account.balances))),
                            Present)
      Owes(balance) == balance.liability > 0
      owing == SelectSeq(balances, Owes)
      Amount(shares) == IF shares > 0 THEN Saturated(shares \div ShareUnit) ELSE 0
      borrowed == [k \in DOMAIN owing |-> Amount(owing[k].liability)]
  IN  IF account.full
      THEN {ObligationState("marginfi",
              Total([k \in DOMAIN balances |-> Amount(balances[k].asset)]),
              Total(borrowed), CloseAmount(borrowed))}
      ELSE {}

\* The totals come from the header; there may be no room for the lists.
Save(account) ==
  LET deposits == ItemsRead(Lesser(account.deposits_len, MaxItems), account.room, CollateralSize)
      borrows == IF account.room < 0 THEN 0 ELSE BorrowsRead(account, deposits)
  IN  IF account.full /\ account.version # 0
      THEN {ObligationState("save",
              AsU64(account.deposited_value \div Scale),
              AsU64(account.borrowed_value \div Scale),
              CloseAmount(AmountsRead(account.borrows, borrows)))}
      ELSE {}

decode_obligation(account) ==
  CASE account.owner = "kamino"   -> Kamino(account)
    [] account.owner = "marginfi" -> Marginfi(account)
    [] account.owner = "save"     -> Save(account)
    [] OTHER -> {}

is_liquidatable(obligation) ==
  /\ obligation.total_deposit_usd < obligation.total_borrow_usd
  /\ obligation.total_borrow_usd > 0

\* One step, with the obligation for a pool.  No adapter resolves the mints of its
\* positions, so the step names none.
LiquidationStep(address) ==
  [pool_address |-> address, input_mint |-> NoMint, output_mint |-> NoMint]

evaluate_obligation(address, obligation) ==
  LET repay_amount == obligation.max_liquidation_amount
  IN  IF /\ is_liquidatable(obligation)
         /\ obligation.liquidation_bonus_bps >= MinBonus
         /\ obligation.total_borrow_usd >= MinBorrowValue
         /\ repay_amount # 0
      THEN {[path |-> <<LiquidationStep(address)>>,
             amount_in |-> repay_amount,
             expected_profit |-> (repay_amount * obligation.liquidation_bonus_bps) \div BpsUnit]}
      ELSE {}

\* What may be in an account of the two protocols that value their positions: the
\* lists have the items that are read.
Positions == Seq([amount : Nat, market_value : Nat])
WellFormed(account) ==
  CASE account.owner = "kamino" ->
         LET deposits == ItemsRead(account.deposits_len, account.room, CollateralSize)
         IN  /\ account.deposits \in Positions /\ account.borrows \in Positions
             /\ {account.deposits_len, account.borrows_len, account.room} \subseteq Nat
             /\ deposits <= Len(account.deposits)
             /\ BorrowsRead(account, deposits) <= Len(account.borrows)
    [] account.owner = "save" -> {account.deposited_value, account.borrowed_value} \subseteq Nat
    [] OTHER -> TRUE

process_update(account) ==
  UNION {evaluate_obligation(account.address, obligation) : obligation \in decode_obligation(account)}
==============================================================================
