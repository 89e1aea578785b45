------------------------------ MODULE Resources ------------------------------
(***************************************************************************)
(* The resource registry of SolarOS (src/services/solar_os_resources.c):   *)
(* a table of claims, each naming a resource and the owner that has it.    *)
(* Every call is one section under claims_mutex.  The services that use    *)
(* the registry (Pins) are built from these operators.                     *)
(*                                                                         *)
(* Owners are compared by name: every caller that uses the same name is    *)
(* the same owner to the registry.                                         *)
(***************************************************************************)
EXTENDS Naturals, FiniteSets

CONSTANTS
    Key,        \* resources: kind, primary and secondary together
    Owner,      \* owner names
    NoOwner,    \* the owner of a key nobody claimed
    Bundle,     \* the sets of resources that callers claim in one call
    NoClaim,    \* an entry that is not active
    ClaimMax    \* SOLAR_OS_RESOURCE_CLAIM_MAX

ASSUME ResourcesAssumption ==
    /\ ClaimMax \in Nat
    /\ NoOwner \notin Owner
    /\ Bundle \subseteq SUBSET Key
    /\ NoClaim \notin [key : Key, owner : Owner]

VARIABLE claims     \* the table

Entry == 1 .. ClaimMax
Claim == [key : Key, owner : Owner]

TableTypeOK == claims \in [Entry -> Claim \cup {NoClaim}]

TableInit == claims = [e \in Entry |-> NoClaim]

Active(e) == claims[e] # NoClaim
FreeEntries == {e \in Entry : ~Active(e)}
EntriesOf(k) == {e \in Entry : Active(e) /\ claims[e].key = k}

\* solar_os_resource_find_claim: k is claimed, and by o.
Claimed(k) == EntriesOf(k) # {}
ClaimedBy(k, o) == \E e \in EntriesOf(k) : claims[e].owner = o

\* Some other owner has a key of the bundle.  Fault: nobody looks.
ConflictIgnored(B, o) == FALSE
Conflict(B, o) == \E k \in B : \E e \in EntriesOf(k) : claims[e].owner # o

\* The keys of a bundle that need an entry, and the entries they may take: the
\* first free ones.  Which of these a key takes follows the order of the
\* request and is left open; it only shows in the order of a listing.  Fault:
\* a key the owner already has gets another entry.
MissingAll(B) == B
Missing(B) == {k \in B : ~Claimed(k)}
Places(B) == {at \in [Missing(B) -> FreeEntries] :
                 /\ \A j, k \in Missing(B) : at[j] = at[k] => j = k
                 /\ \A e \in FreeEntries, k \in Missing(B) :
                        e < at[k] => \E j \in Missing(B) : at[j] = e}

Fits(B) == Cardinality(Missing(B)) <= Cardinality(FreeEntries)
Grants(B, o) == ~Conflict(B, o) /\ Fits(B)

\* solar_os_resource_claim_bundle, when it succeeds; a refused call changes
\* nothing.
ClaimBundle(B, o) ==
    /\ Grants(B, o)
    /\ \E at \in Places(B) :
          claims' = [e \in Entry |->
              IF \E k \in Missing(B) : at[k] = e
              THEN [key |-> CHOOSE k \in Missing(B) : at[k] = e, owner |-> o]
              ELSE claims[e]]

\* solar_os_resource_release: refused (nothing changes) unless k is o's.
ReleaseKey(k, o) ==
    claims' = [e \in Entry |-> IF e \in EntriesOf(k) /\ claims[e].owner = o
                               THEN NoClaim ELSE claims[e]]

\* solar_os_resource_release_owner.  Fault: only the name of the entry is wiped.
ReleaseOwnerName(o) ==
    claims' = [e \in Entry |-> IF Active(e) /\ claims[e].owner = o
                               THEN [claims[e] EXCEPT !.owner = NoOwner] ELSE claims[e]]
ReleaseOwner(o) ==
    claims' = [e \in Entry |-> IF Active(e) /\ claims[e].owner = o
                               THEN NoClaim ELSE claims[e]]

TableNext == \E o \in Owner :
                 \/ \E B \in Bundle : ClaimBundle(B, o)
                 \/ \E k \in Key : ReleaseKey(k, o)
                 \/ ReleaseOwner(o)

TableSpec == TableInit /\ [][TableNext]_claims
-----------------------------------------------------------------------------
\* A resource never has two entries, so never two owners: the check for a
\* conflict, the search for an entry and the filling are separate scans.
OneEntryPerKey ==
    \A d, e \in Entry : Active(d) /\ Active(e) /\ claims[d].key = claims[e].key => d = e

HolderOf(k) == IF Claimed(k) THEN claims[CHOOSE e \in EntriesOf(k) : TRUE].owner
               ELSE NoOwner

\* The table keeps the registry's promise (OwnerMap): bundles are all or
\* nothing and a key passes from one owner to the next only through being free.
Map == INSTANCE OwnerMap WITH holder <- [k \in Key |-> HolderOf(k)]
MapSpec == Map!Spec
=============================================================================
