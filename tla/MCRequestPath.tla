---------------------------- MODULE MCRequestPath ----------------------------
(* RequestPath with two requests and two contexts.                           *)
EXTENDS RequestPath, TLC

CONSTANTS r1, r2, c1, c2, x, y

MCRequests == {r1, r2}
MCContexts == {c1, c2}
MCSecrets == {x, y}
MCStorers == MCRequests \X MCSecrets

Entry(id, key, enabled) == [id |-> id, key |-> key, enabled |-> enabled]

MCTenants ==
    {Entry(id, key, e) : id \in {<<"A">>, <<"B">>}, key \in {"k1", "k2"}, e \in BOOLEAN}
MCInitialTenants == <<Entry(<<"A">>, "k1", TRUE)>>
MCTenantUpdates == {<<Entry(<<"B">>, "k1", TRUE)>>}
MCAddedTenants == {Entry(<<"A">>, "k1", FALSE), Entry(<<"B">>, "k2", TRUE)}
MCKeys == {"k1"}

MCSessionOf == [r \in MCRequests |-> <<"s">>]
MCSessionKeys == {SessionKeyOf(t, <<"s">>) : t \in {<<"A">>, <<"B">>}}

\* The same secret in both payloads, and one that has another one besides.
MCSecretsIn == [r \in MCRequests |-> IF r = r1 THEN <<x>> ELSE <<y, x>>]

Stage(effect, failClosed, results) ==
    [effect |-> effect, failClosed |-> failClosed, results |-> results]

\* The built-in stages that change a context, and two fail-open ones.
MCPipeline ==
    <<Stage("inspect", FALSE, {"Panic"}),
      Stage("sanitize", TRUE, {"Continue", "Tripwire"}),
      Stage("redact", TRUE, {"Continue"}),
      Stage("inspect", FALSE, {"DryRun"}),
      Stage("canary", TRUE, {"Continue", "Unknown"})>>

Symmetric == Permutations(MCContexts)
==============================================================================
