---------------------------- MODULE MCRateLimiter ----------------------------
(* RateLimiter with two handlers and two tenants, one of which is configured *)
(* twice; the other has no limit.                                            *)
EXTENDS RateLimiter

CONSTANTS c1, c2, a, b

MCCallers == {c1, c2}
MCTenants == {a, b}
MCEntries == {[tenant |-> a, rpm |-> 1, tpm |-> 0],
              [tenant |-> a, rpm |-> 2, tpm |-> 1]}
MCDefaultLimit == [rpm |-> 0, tpm |-> 0]

\* Estimated at 1 and -2 tokens, and one that wraps around once it is added to
\* another.
MCPayloads == {[len |-> 0, max_tokens |-> 0], [len |-> 2, max_tokens |-> -3],
               [len |-> 2, max_tokens |-> 6]}
==============================================================================
