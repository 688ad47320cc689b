---------------------------- MODULE MCDexStrategy ----------------------------
(* A small instance of DexStrategy: one pool of each DEX over three mints.  The *)
(* concentrated-liquidity pools change price, and are switched off or drained. *)
EXTENDS DexStrategy

Concentrated(owner, a, b, liquidity, price) ==
  [owner |-> owner, full |-> TRUE, token_a |-> a, token_b |-> b, status |-> 4,
   liquidity |-> liquidity, sqrt_price |-> price, fee_rate |-> 1]

MCPools == {"amm", "clmm", "orca", "dlmm", "phoenix"}
MCMints == {"SOL", "USDC", "RAY"}
MCContents ==
  [amm |-> {[owner |-> "raydium_amm", full |-> TRUE, token_a |-> "SOL", token_b |-> "USDC",
             status |-> 6, fee_num |-> 1, fee_den |-> 10]},
   clmm |-> {Concentrated("raydium_clmm", "RAY", "SOL", 40, <<1, 1>>),
             Concentrated("raydium_clmm", "RAY", "SOL", 40, <<2, 1>>),
             [Concentrated("raydium_clmm", "RAY", "SOL", 40, <<1, 1>>) EXCEPT !.status = 3]},
   orca |-> {Concentrated("orca_whirlpool", "USDC", "SOL", 40, <<1, 1>>),
             Concentrated("orca_whirlpool", "USDC", "SOL", 1, <<2, 1>>)},
   dlmm |-> {[owner |-> "meteora_dlmm", full |-> TRUE, token_a |-> "USDC", token_b |-> "RAY",
              bin_step |-> 30, base_factor |-> 10, price |-> <<3, 2>>]},
   phoenix |-> {[owner |-> "phoenix", full |-> TRUE, token_a |-> "SOL", token_b |-> "USDC",
                 status |-> 1, base_lot_size |-> 3, quote_lot_size |-> 2, tick_size |-> 3]}]

MCAnchors == <<"SOL", "USDC">>
MCFee == <<1, 10>>
MCRatio == <<7, 6>>
MCSlippage == <<9, 10>>
==============================================================================
