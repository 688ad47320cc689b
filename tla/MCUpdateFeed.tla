----------------------------- MODULE MCUpdateFeed -----------------------------
(* A small instance of UpdateFeed: two pools whose data holds the reserves,   *)
(* and one whose reserves are in vaults.                                      *)
EXTENDS UpdateFeed

MCPools == {"p", "q"}
MCVaults == [p \in MCPools |-> {}]

MCPoolsWithVaults == {"p", "raydium"}
MCVaultsOfRaydium == [p \in MCPoolsWithVaults |-> IF p = "raydium" THEN {"va", "vb"} ELSE {}]
==============================================================================
