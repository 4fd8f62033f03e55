-------------------------- MODULE MCCircuitBreaker ---------------------------
(* CircuitBreaker with four requests in flight at most.                    *)
EXTENDS CircuitBreaker

CONSTANTS r1, r2, r3, r4

MCRequests == {r1, r2, r3, r4}
==============================================================================
