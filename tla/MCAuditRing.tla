----------------------------- MODULE MCAuditRing -----------------------------
(* AuditRing on a small instance for TLC.  The producers are not made       *)
(* symmetric: the run checks a liveness property.                           *)
EXTENDS AuditRing

CONSTANTS p1, p2

MCProducers == {p1, p2}
==============================================================================
