---------------------------- MODULE Authenticator ----------------------------
(***************************************************************************)
(* The tenant list of internal/auth/auth.go.  The list is a slice, that is *)
(* a backing array in use; VerifyKey hands out a pointer to an element,    *)
(* which stays valid, and is read without the mutex, after the list has    *)
(* been changed.  So all arrays ever in use are kept, and a pointer is a   *)
(* pair of an array and an index.                                          *)
(***************************************************************************)
EXTENDS Naturals, Sequences, FiniteSetsExt

CONSTANTS Tenants,         \* entries: records with fields id, key, enabled
          InitialTenants,  \* the list that the configuration gives
          NoTenant         \* the nil pointer

ASSUME TenantsAssumption ==
    /\ \A t \in Tenants : t.enabled \in BOOLEAN
    /\ InitialTenants \in Seq(Tenants)

VARIABLES arrays,   \* the backing arrays, each with its entries and capacity
          current   \* the one that a.tenants is a slice of

tenantVars == <<arrays, current>>

ArrayOf(list) == [entries |-> list, cap |-> Len(list)]

\* NewAuthenticator copies the list.
TenantsInit ==
    /\ arrays = <<ArrayOf(InitialTenants)>>
    /\ current = 1

List == arrays[current].entries

\* What a pointer points to now.
Deref(p) == arrays[p[1]].entries[p[2]]

-----------------------------------------------------------------------------
(***************************************************************************)
(* VerifyKey: the full scan keeps the last match.                          *)
(***************************************************************************)
Matches(key) == {i \in 1 .. Len(List) : List[i].key = key}

KeyKnown(key) == Matches(key) # {}

Matched(key) == <<current, Max(Matches(key))>>

KeyAccepted(key) == KeyKnown(key) /\ Deref(Matched(key)).enabled

-----------------------------------------------------------------------------
\* Mutant of SetTenants: the new list is copied over the old one.
SetTenantsInPlace(list) ==
    /\ arrays' = [arrays EXCEPT ![current] = ArrayOf(list)]
    /\ UNCHANGED current

\* SetTenants puts a copy in place of the list.
SetTenants(list) ==
    /\ arrays' = Append(arrays, ArrayOf(list))
    /\ current' = Len(arrays) + 1

\* AddTenant overwrites the first entry with t's ID or key.
Conflicts(t) == {i \in 1 .. Len(List) : List[i].id = t.id \/ List[i].key = t.key}

UpdateTenant(t) ==
    /\ Conflicts(t) # {}
    /\ arrays' = [arrays EXCEPT ![current].entries[Min(Conflicts(t))] = t]
    /\ UNCHANGED current

\* append copies a full array into one of twice the size.
AppendTenant(t) ==
    /\ Conflicts(t) = {}
    /\ LET full == Len(List) = arrays[current].cap
           grown == [entries |-> Append(List, t), cap |-> Max({1, 2 * Len(List)})]
       IN IF full
          THEN arrays' = Append(arrays, grown) /\ current' = Len(arrays) + 1
          ELSE /\ arrays' = [arrays EXCEPT ![current].entries = Append(@, t)]
               /\ UNCHANGED current

AddTenant(t) == UpdateTenant(t) \/ AppendTenant(t)
==============================================================================
