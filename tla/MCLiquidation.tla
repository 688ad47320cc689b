----------------------------- MODULE MCLiquidation -----------------------------
(* A small instance of Liquidation: one token and one pool beside an obligation, *)
(* and the obligation's contents under the three protocols.  Bytes and values are *)
(* scaled down: a list item takes 2 or 3 bytes, a u64 holds 0..31.              *)
EXTENDS Liquidation

MCTasks == {"dex_arb", "liquidation"}
MCTokens == {"TOKEN", "DEFAULT"}
MCPools == {"pool", "obligation"}
MCBonus == [kamino |-> 250, marginfi |-> 250, save |-> 500]
MCLists(tokens, pools) == [tokens |-> tokens, pools |-> pools]
MCInitial == {MCLists({"TOKEN"}, {}), MCLists({}, {"pool", "obligation"})}

MCStep(pool, input, output) == [pool_address |-> pool, input_mint |-> input, output_mint |-> output]
MCDexPaths == {<<MCStep("pool", "DEFAULT", "TOKEN")>>}
MCPaths == MCDexPaths \cup {<<MCStep("obligation", "DEFAULT", "DEFAULT")>>}

Items(values) == [k \in DOMAIN values |-> [amount |-> 8, market_value |-> values[k]]]

\* Values of deposits and borrows, the room for them, and the lengths announced.
KaminoAccount(deposits, borrows, room) ==
  [owner |-> "kamino", address |-> "obligation", full |-> TRUE, room |-> room,
   deposits |-> Items(deposits), deposits_len |-> Len(deposits),
   borrows |-> Items(borrows), borrows_len |-> Len(borrows)]

SaveAccount(deposited, borrowed, borrows, room) ==
  [owner |-> "save", address |-> "obligation", full |-> TRUE, version |-> 1, room |-> room,
   deposited_value |-> deposited, borrowed_value |-> borrowed,
   deposits |-> <<>>, deposits_len |-> 0,
   borrows |-> Items(borrows), borrows_len |-> Len(borrows)]

MarginfiAccount(assets, liabilities) ==
  [owner |-> "marginfi", address |-> "obligation", full |-> TRUE,
   balances |-> [k \in DOMAIN assets |->
     [active |-> TRUE, asset |-> assets[k], liability |-> liabilities[k]]]]

\* Among Kamino's: a value too large, a list of borrows cut at two items, healthy
\* accounts with one deposit too many to be read and with room for only one of two.
MCAccounts ==
  {KaminoAccount(<<5>>, <<12>>, 8), KaminoAccount(<<3, 12>>, <<5, 30>>, 11),
   KaminoAccount(<<3, 12>>, <<5, 1>>, 11), KaminoAccount(<<40>>, <<12>>, 11),
   KaminoAccount(<<3, 12>>, <<5, 12, 12>>, 14), KaminoAccount(<<8, 8, 8>>, <<18>>, 10),
   KaminoAccount(<<12, 12>>, <<20>>, 3),
   SaveAccount(5, 12, <<12>>, 4), SaveAccount(12, 5, <<5>>, 4), SaveAccount(5, 12, <<12>>, -1),
   MarginfiAccount(<<4, 0>>, <<0, 12>>)}
================================================================================
