--------------------------- MODULE MCCircuitBreaker ---------------------------
(* A small instance of CircuitBreaker: two losses breach the limit, a profit *)
(* can hide a loss until it leaves the window.                               *)
EXTENDS CircuitBreaker

MCResults == {-2, -1, 2}
==============================================================================
