----------------------------- MODULE MCArbSearch -----------------------------
(* A small instance of PriceGraph and ArbSearch: three mints, two pools for   *)
(* one pair and one for each other pair, in either order of their mints.      *)
EXTENDS ArbSearch

MCPools == {"sol_usdc", "usdc_sol", "usdc_ray", "ray_sol"}
MCMints == {"SOL", "USDC", "RAY"}
MCMintsOf ==
  [p \in MCPools |->
     CASE p = "sol_usdc" -> <<"SOL", "USDC">>
       [] p = "usdc_sol" -> <<"USDC", "SOL">>
       [] p = "usdc_ray" -> <<"USDC", "RAY">>
       [] p = "ray_sol" -> <<"RAY", "SOL">>]
MCFeeOf == [p \in MCPools |-> IF p = "usdc_ray" THEN 1 ELSE 0]
==============================================================================
