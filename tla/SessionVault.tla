----------------------------- MODULE SessionVault -----------------------------
(***************************************************************************)
(* The vault of pseudonyms in internal/inbound/dlp.go.  Each session has a *)
(* mapping with its own mutex; Store and Destroy first find the mapping    *)
(* under the vault's mutex and then work on it under the mapping's, so     *)
(* that each of them is two steps.                                         *)
(*                                                                         *)
(* A mapping is named after the call of Store that created it, and the     *)
(* pseudonym [REDACTED_SECRET_n] is the number n.                          *)
(***************************************************************************)
EXTENDS Naturals, Sequences, FiniteSets, Functions

CONSTANTS Storers,      \* calls of Store, each of which may create a mapping
          SessionKeys,
          Secrets,
          NoMapping     \* the nil *SessionMapping

VARIABLES sessions,     \* the mapping of each session key
          forwardMap,   \* per mapping: secret -> pseudonym
          reverseMap,   \* per mapping: pseudonym -> secret
          destroying,   \* the mapping between the two halves of Destroy
          removed,      \* history: mappings taken out of the vault
          caught        \* history: Stores that held a mapping when it was removed

vaultVars == <<sessions, forwardMap, reverseMap, destroying, removed, caught>>

NoPairs == [x \in {} |-> 0]

\* The DLP scanner's session key.  An ID is a sequence of characters.
SessionKeyOf(tenant, session) ==
    IF session = << >> THEN tenant ELSE tenant \o <<":">> \o session

VaultInit ==
    /\ sessions = [k \in SessionKeys |-> NoMapping]
    /\ forwardMap = [m \in Storers |-> NoPairs]
    /\ reverseMap = [m \in Storers |-> NoPairs]
    /\ destroying = NoMapping
    /\ removed = {}
    /\ caught = {}

-----------------------------------------------------------------------------
(***************************************************************************)
(* Store                                                                   *)
(***************************************************************************)
\* getOrCreateSession; the mapping that p goes on with.
Found(p, key) == IF sessions[key] = NoMapping THEN p ELSE sessions[key]

GetOrCreateSession(p, key) ==
    /\ sessions' = [sessions EXCEPT ![key] = Found(p, key)]
    /\ UNCHANGED <<forwardMap, reverseMap, destroying, removed, caught>>

Known(m, secret) == secret \in DOMAIN forwardMap[m]

NextPseudonym(m) == Cardinality(DOMAIN forwardMap[m]) + 1

\* Mutant of PseudonymOf: the secret is not looked up first.
PseudonymAnew(m, secret) == NextPseudonym(m)

\* The pseudonym that Store returns.
PseudonymOf(m, secret) ==
    IF Known(m, secret) THEN forwardMap[m][secret] ELSE NextPseudonym(m)

\* The assignment f[x] = y to a Go map.
Assigned(f, x, y) == [z \in DOMAIN f \cup {x} |-> IF z = x THEN y ELSE f[z]]

StoreSecret(m, secret) ==
    LET n == PseudonymOf(m, secret) IN
    /\ forwardMap' = [forwardMap EXCEPT ![m] = Assigned(@, secret, n)]
    /\ reverseMap' = [reverseMap EXCEPT ![m] = Assigned(@, n, secret)]
    /\ UNCHANGED <<sessions, destroying, removed, caught>>

\* Resolve: whether pseudonym n of a session stands for secret.
Resolves(key, n, secret) ==
    /\ sessions[key] # NoMapping
    /\ n \in DOMAIN reverseMap[sessions[key]]
    /\ reverseMap[sessions[key]][n] = secret

-----------------------------------------------------------------------------
(***************************************************************************)
(* Destroy; holding is the set of the Stores between their two halves, and *)
(* mapping what each of them holds.                                        *)
(***************************************************************************)
DestroyRemoves(key, holding, mapping) ==
    /\ destroying = NoMapping
    /\ sessions[key] # NoMapping
    /\ destroying' = sessions[key]
    /\ sessions' = [sessions EXCEPT ![key] = NoMapping]
    /\ removed' = removed \cup {sessions[key]}
    /\ caught' = caught \cup {p \in holding : mapping[p] = sessions[key]}
    /\ UNCHANGED <<forwardMap, reverseMap>>

\* Mutant of DestroyWipes: only the reverse map is cleared.
DestroyWipesReverse ==
    /\ destroying # NoMapping
    /\ reverseMap' = [reverseMap EXCEPT ![destroying] = NoPairs]
    /\ destroying' = NoMapping
    /\ UNCHANGED <<sessions, forwardMap, removed, caught>>

DestroyWipes ==
    /\ destroying # NoMapping
    /\ forwardMap' = [forwardMap EXCEPT ![destroying] = NoPairs]
    /\ reverseMap' = [reverseMap EXCEPT ![destroying] = NoPairs]
    /\ destroying' = NoMapping
    /\ UNCHANGED <<sessions, removed, caught>>
==============================================================================
