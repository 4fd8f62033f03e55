------------------------------ MODULE MCGateway ------------------------------
(* Gateway with two concurrent handlers.                                    *)
EXTENDS Gateway

CONSTANTS r1, r2

MCRequests == {r1, r2}
==============================================================================
