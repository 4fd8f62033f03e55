---------------------------- MODULE MCAuditLedger ----------------------------
(* AuditLedger with two request handlers, a crash and a failing write.      *)
EXTENDS AuditLedger

CONSTANTS p1, p2

MCProducers == {p1, p2}
==============================================================================
