--------------------------- MODULE ResourcesProofs ---------------------------
(***************************************************************************)
(* Proofs about the resource registry (Resources), for every table size,   *)
(* every set of resources and every set of owners: the table has one entry *)
(* per resource at most, and it implements the map of owners (OwnerMap).   *)
(***************************************************************************)
EXTENDS Resources, TLAPS

USE DEF Entry

\* While a key has one entry, its holder is the owner of that entry, before a
\* step and after it.
LEMMA HolderOfEntry ==
    ASSUME OneEntryPerKey, NEW e \in Entry, Active(e), NEW k, claims[e].key = k
    PROVE  Claimed(k) /\ HolderOf(k) = claims[e].owner
<1>1. e \in EntriesOf(k)
  BY DEF EntriesOf
<1>2. \A d \in EntriesOf(k) : d = e
  BY DEF EntriesOf, OneEntryPerKey
<1>. QED  BY <1>1, <1>2 DEF HolderOf, Claimed

\* The same of the state after a step.
LEMMA HolderOfEntryNext ==
    ASSUME OneEntryPerKey', NEW e \in Entry, Active(e)', NEW k, claims'[e].key = k
    PROVE  Claimed(k)' /\ HolderOf(k)' = claims'[e].owner
<1>1. e \in EntriesOf(k)'
  BY DEF EntriesOf
<1>2. \A d \in EntriesOf(k)' : d = e
  BY DEF EntriesOf, OneEntryPerKey, Active
<1>. QED  BY <1>1, <1>2 DEF HolderOf, Claimed

\* Where a bundle's new entries go, as one step sees them.
LEMMA BundleEntries ==
    ASSUME TableTypeOK, NEW B \in SUBSET Key, NEW o \in Owner, ClaimBundle(B, o)
    PROVE  /\ ~Conflict(B, o)
           /\ \A e \in Entry : Active(e) => claims'[e] = claims[e]
           /\ \A e \in Entry : ~Active(e) =>
                 \/ claims'[e] = NoClaim
                 \/ \E k \in Missing(B) : claims'[e] = [key |-> k, owner |-> o]
           /\ \A k \in Missing(B) : \E e \in Entry :
                 ~Active(e) /\ claims'[e] = [key |-> k, owner |-> o]
           /\ \A d, e \in Entry :
                 (/\ ~Active(d) /\ ~Active(e)
                  /\ claims'[d] # NoClaim /\ claims'[e] # NoClaim
                  /\ claims'[d].key = claims'[e].key) => d = e
<1>1. PICK at \in Places(B) :
         claims' = [e \in Entry |->
              IF \E k \in Missing(B) : at[k] = e
              THEN [key |-> CHOOSE k \in Missing(B) : at[k] = e, owner |-> o]
              ELSE claims[e]]
  BY DEF ClaimBundle
<1>2. /\ at \in [Missing(B) -> FreeEntries]
      /\ \A j, k \in Missing(B) : at[j] = at[k] => j = k
  BY DEF Places
<1>3. \A k \in Missing(B) : at[k] \in Entry /\ ~Active(at[k])
  BY <1>2 DEF FreeEntries
<1>4. \A k \in Missing(B) : (CHOOSE j \in Missing(B) : at[j] = at[k]) = k
  BY <1>2
<1>5. \A k \in Missing(B) : claims'[at[k]] = [key |-> k, owner |-> o]
  BY <1>1, <1>3, <1>4
<1>6. \A e \in Entry : (~ \E k \in Missing(B) : at[k] = e) => claims'[e] = claims[e]
  BY <1>1
<1>7. ~Conflict(B, o)
  BY DEF ClaimBundle, Grants
<1>8. \A e \in Entry : Active(e) => claims'[e] = claims[e]
  BY <1>3, <1>6
<1>9. \A e \in Entry : ~Active(e) =>
          claims'[e] = NoClaim \/ \E k \in Missing(B) : at[k] = e /\ claims'[e] = [key |-> k, owner |-> o]
  BY <1>5, <1>6 DEF Active
<1>10. ASSUME NEW d \in Entry, NEW e \in Entry, ~Active(d), ~Active(e),
              claims'[d] # NoClaim, claims'[e] # NoClaim, claims'[d].key = claims'[e].key
       PROVE  d = e
  <2>1. PICK j \in Missing(B) : at[j] = d /\ claims'[d] = [key |-> j, owner |-> o]
    BY <1>9, <1>10
  <2>2. PICK k \in Missing(B) : at[k] = e /\ claims'[e] = [key |-> k, owner |-> o]
    BY <1>9, <1>10
  <2>3. claims'[d].key = j /\ claims'[e].key = k
    BY <2>1, <2>2
  <2>. QED  BY <1>10, <2>1, <2>2, <2>3
<1>11. \A k \in Missing(B) : \E e \in Entry : ~Active(e) /\ claims'[e] = [key |-> k, owner |-> o]
  BY <1>3, <1>5
<1>12. \A e \in Entry : ~Active(e) =>
          claims'[e] = NoClaim \/ \E k \in Missing(B) : claims'[e] = [key |-> k, owner |-> o]
  BY <1>9
<1>. QED  BY <1>7, <1>8, <1>10, <1>11, <1>12
-----------------------------------------------------------------------------
TableInv == TableTypeOK /\ OneEntryPerKey

\* The registry starts with no claim.
LEMMA InitTableInv == TableInit => TableInv
BY DEF TableInit, TableInv, TableTypeOK, OneEntryPerKey, Active

\* Claiming a bundle adds entries for keys that have none, each key once.
LEMMA ClaimKeepsTable ==
    ASSUME TableInv, NEW B \in SUBSET Key, NEW o \in Owner, ClaimBundle(B, o)
    PROVE  TableInv'
<1>. USE ResourcesAssumption DEF TableInv
<1>1. TableTypeOK'
  <2>1. ASSUME NEW e \in Entry PROVE claims'[e] \in Claim \cup {NoClaim}
    <3>1. CASE Active(e)
      BY <3>1, BundleEntries DEF TableTypeOK
    <3>2. CASE ~Active(e) /\ claims'[e] # NoClaim
      <4>1. PICK k \in Missing(B) : claims'[e] = [key |-> k, owner |-> o]
        BY <3>2, BundleEntries
      <4>. QED  BY <4>1 DEF Claim, Missing
    <3>. QED  BY <3>1, <3>2
  <2>2. PICK at \in Places(B) :
           claims' = [e \in Entry |->
                IF \E k \in Missing(B) : at[k] = e
                THEN [key |-> CHOOSE k \in Missing(B) : at[k] = e, owner |-> o]
                ELSE claims[e]]
    BY DEF ClaimBundle
  <2>3. claims' = [e \in Entry |-> claims'[e]]
    BY <2>2
  <2>. QED  BY <2>1, <2>3 DEF TableTypeOK
<1>2. ASSUME NEW d \in Entry, NEW e \in Entry, Active(d)', Active(e)',
             claims'[d].key = claims'[e].key
      PROVE  d = e
  <2>1. CASE Active(d) /\ Active(e)
    BY <1>2, <2>1, BundleEntries DEF OneEntryPerKey
  <2>2. CASE ~Active(d) /\ ~Active(e)
    BY <1>2, <2>2, BundleEntries DEF Active
  <2>3. ASSUME NEW a \in Entry, NEW n \in Entry, Active(a), ~Active(n), Active(n)'
        PROVE  claims'[a].key # claims'[n].key
    <3>1. claims'[a] = claims[a]
      BY <2>3, BundleEntries
    <3>2. PICK k \in Missing(B) : claims'[n] = [key |-> k, owner |-> o]
      BY <2>3, BundleEntries DEF Active
    <3>3. claims[a].key # k
      BY <2>3, <3>2 DEF Missing, Claimed, EntriesOf
    <3>. QED  BY <3>1, <3>2, <3>3
  <2>. QED  BY <1>2, <2>1, <2>2, <2>3
<1>. QED  BY <1>1, <1>2 DEF OneEntryPerKey

\* Giving back only empties entries.
LEMMA EmptyingKeepsTable ==
    ASSUME TableInv, NEW E \in SUBSET Entry,
           claims' = [e \in Entry |-> IF e \in E THEN NoClaim ELSE claims[e]]
    PROVE  TableInv'
<1>1. TableTypeOK'
  BY DEF TableInv, TableTypeOK
<1>2. OneEntryPerKey'
  BY DEF TableInv, OneEntryPerKey, Active
<1>. QED  BY <1>1, <1>2 DEF TableInv

Emptied(k, o) == {e \in EntriesOf(k) : claims[e].owner = o}
EmptiedOwner(o) == {e \in Entry : Active(e) /\ claims[e].owner = o}

\* So release of one key only empties entries.
LEMMA ReleaseKeyEmpties ==
    ASSUME NEW k, NEW o, ReleaseKey(k, o)
    PROVE  /\ Emptied(k, o) \in SUBSET Entry
           /\ claims' = [e \in Entry |-> IF e \in Emptied(k, o) THEN NoClaim ELSE claims[e]]
BY DEF ReleaseKey, Emptied, EntriesOf

\* And so does the release of everything an owner has.
LEMMA ReleaseOwnerEmpties ==
    ASSUME NEW o, ReleaseOwner(o)
    PROVE  /\ EmptiedOwner(o) \in SUBSET Entry
           /\ claims' = [e \in Entry |-> IF e \in EmptiedOwner(o) THEN NoClaim ELSE claims[e]]
BY DEF ReleaseOwner, EmptiedOwner

\* Every call of the registry keeps the table's invariant.
LEMMA NextTableInv == TableInv /\ [TableNext]_claims => TableInv'
<1>. SUFFICES ASSUME TableInv, [TableNext]_claims PROVE TableInv'
  OBVIOUS
<1>1. ASSUME NEW o \in Owner, NEW B \in Bundle, ClaimBundle(B, o) PROVE TableInv'
  BY <1>1, ClaimKeepsTable, ResourcesAssumption
<1>2. ASSUME NEW o \in Owner, NEW k \in Key, ReleaseKey(k, o) PROVE TableInv'
  BY <1>2, ReleaseKeyEmpties, EmptyingKeepsTable
<1>3. ASSUME NEW o \in Owner, ReleaseOwner(o) PROVE TableInv'
  BY <1>3, ReleaseOwnerEmpties, EmptyingKeepsTable
<1>4. CASE UNCHANGED claims
  BY <1>4 DEF TableInv, TableTypeOK, OneEntryPerKey, Active
<1>. QED  BY <1>1, <1>2, <1>3, <1>4 DEF TableNext

\* Every reachable table is well formed and gives each resource one entry: two
\* owners never have the same pin.
THEOREM TableInvariant == TableSpec => [](TableTypeOK /\ OneEntryPerKey)
<1>1. TableInv => TableTypeOK /\ OneEntryPerKey
  BY DEF TableInv
<1>. QED  BY <1>1, InitTableInv, NextTableInv, PTL DEF TableSpec
-----------------------------------------------------------------------------
\* The registry implements the map of owners.
LEMMA MapInit == TableInit => Map!Init
BY DEF TableInit, Map!Init, HolderOf, Claimed, EntriesOf, Active

\* A granted bundle is one claim of the whole bundle in the map.
LEMMA ClaimMaps ==
    ASSUME TableInv, TableInv', NEW B \in SUBSET Key, NEW o \in Owner, ClaimBundle(B, o)
    PROVE  Map!ClaimAll(B, o)
<1>. USE DEF TableInv
<1>1. ASSUME NEW k \in Key
      PROVE  /\ HolderOf(k)' = IF k \in B THEN o ELSE HolderOf(k)
             /\ k \in B => HolderOf(k) \in {NoOwner, o}
  <2>1. CASE Claimed(k)
    <3>1. PICK e \in Entry : Active(e) /\ claims[e].key = k
      BY <2>1 DEF Claimed, EntriesOf
    <3>2. HolderOf(k) = claims[e].owner
      BY <3>1, HolderOfEntry
    <3>3. claims'[e] = claims[e] /\ Active(e)'
      BY <3>1, BundleEntries DEF Active
    <3>4. HolderOf(k)' = claims[e].owner
      BY <3>1, <3>3, HolderOfEntryNext
    <3>5. k \in B => claims[e].owner = o
      BY <3>1, BundleEntries DEF Conflict, EntriesOf
    <3>. QED  BY <3>2, <3>4, <3>5
  <2>2. CASE ~Claimed(k) /\ k \in B
    <3>1. HolderOf(k) = NoOwner /\ k \in Missing(B)
      BY <2>2 DEF HolderOf, Missing
    <3>2. PICK e \in Entry : claims'[e] = [key |-> k, owner |-> o]
      BY <3>1, BundleEntries
    <3>3. Active(e)'
      BY <3>2, ResourcesAssumption DEF Active
    <3>4. HolderOf(k)' = o
      BY <3>2, <3>3, HolderOfEntryNext
    <3>. QED  BY <2>2, <3>1, <3>4
  <2>3. CASE ~Claimed(k) /\ k \notin B
    <3>1. HolderOf(k) = NoOwner
      BY <2>3 DEF HolderOf
    <3>2. ASSUME NEW e \in Entry, Active(e)', claims'[e].key = k
          PROVE  FALSE
      <4>1. CASE Active(e)
        BY <2>3, <3>2, <4>1, BundleEntries DEF Claimed, EntriesOf
      <4>2. CASE ~Active(e)
        <5>1. PICK j \in Missing(B) : claims'[e] = [key |-> j, owner |-> o]
          BY <3>2, <4>2, BundleEntries DEF Active
        <5>. QED  BY <2>3, <3>2, <5>1 DEF Missing
      <4>. QED  BY <4>1, <4>2
    <3>3. HolderOf(k)' = NoOwner
      BY <3>2 DEF HolderOf, Claimed, EntriesOf
    <3>. QED  BY <2>3, <3>1, <3>3
  <2>. QED  BY <2>1, <2>2, <2>3
<1>. QED  BY <1>1 DEF Map!ClaimAll, Map!Grantable

\* Emptying exactly the entries of owner o with a key of K takes those keys
\* from o and nothing from anybody else.
LEMMA EmptyingMaps ==
    ASSUME TableInv, TableInv', NEW o \in Owner, NEW K \in SUBSET Key,
           NEW E \in SUBSET Entry,
           \A e \in Entry : e \in E <=> Active(e) /\ claims[e].key \in K /\ claims[e].owner = o,
           claims' = [e \in Entry |-> IF e \in E THEN NoClaim ELSE claims[e]]
    PROVE  Map!GiveBack(K, o)
<1>. USE DEF TableInv
<1>1. ASSUME NEW k \in Key
      PROVE  HolderOf(k)' = IF k \in K /\ HolderOf(k) = o THEN NoOwner ELSE HolderOf(k)
  <2>1. CASE \E e \in Entry \ E : Active(e) /\ claims[e].key = k
    <3>1. PICK e \in Entry \ E : Active(e) /\ claims[e].key = k
      BY <2>1
    <3>2. claims'[e] = claims[e] /\ Active(e)'
      BY <3>1 DEF Active
    <3>3. HolderOf(k) = claims[e].owner /\ HolderOf(k)' = claims[e].owner
      BY <3>1, <3>2, HolderOfEntry, HolderOfEntryNext
    <3>4. ~(k \in K /\ claims[e].owner = o)
      BY <3>1
    <3>. QED  BY <3>3, <3>4
  <2>2. CASE ~ \E e \in Entry \ E : Active(e) /\ claims[e].key = k
    <3>1. ~Claimed(k)'
      BY <2>2 DEF Claimed, EntriesOf, Active
    <3>2. HolderOf(k)' = NoOwner
      BY <3>1 DEF HolderOf
    <3>3. ASSUME NEW e \in E, Active(e), claims[e].key = k
          PROVE  HolderOf(k) = o /\ k \in K
      BY <3>3, HolderOfEntry
    <3>4. (~ \E e \in E : Active(e) /\ claims[e].key = k) => HolderOf(k) = NoOwner
      BY <2>2 DEF HolderOf, Claimed, EntriesOf
    <3>. QED  BY <3>2, <3>3, <3>4
  <2>. QED  BY <2>1, <2>2
<1>. QED  BY <1>1 DEF Map!GiveBack

\* Every call of the registry is a step of the map or changes nothing in it.
LEMMA StepMaps ==
    ASSUME TableInv, TableInv', [TableNext]_claims
    PROVE  [Map!Next]_([k \in Key |-> HolderOf(k)])
<1>. DEFINE A == [k \in Key |-> HolderOf(k)]
<1>1. ASSUME NEW o \in Owner, NEW B \in Bundle, ClaimBundle(B, o)
      PROVE  Map!Next
  BY <1>1, ClaimMaps, ResourcesAssumption DEF Map!Next
<1>2. ASSUME NEW o \in Owner, NEW k \in Key, ReleaseKey(k, o)
      PROVE  Map!Next \/ UNCHANGED A
  <2>1. \A e \in Entry : e \in Emptied(k, o)
            <=> Active(e) /\ claims[e].key \in {k} /\ claims[e].owner = o
    BY DEF Emptied, EntriesOf
  <2>2. Map!GiveBack({k}, o)
    BY <1>2, <2>1, ReleaseKeyEmpties, EmptyingMaps
  <2>3. CASE HolderOf(k) = o
    BY <2>2, <2>3 DEF Map!Next, Map!Has
  <2>4. CASE HolderOf(k) # o
    BY <2>2, <2>4 DEF Map!GiveBack
  <2>. QED  BY <2>3, <2>4
<1>3. ASSUME NEW o \in Owner, ReleaseOwner(o)
      PROVE  Map!Next \/ UNCHANGED A
  <2>1. \A e \in Entry : e \in EmptiedOwner(o)
            <=> Active(e) /\ claims[e].key \in Key /\ claims[e].owner = o
    BY DEF EmptiedOwner, TableInv, TableTypeOK, Active, Claim
  <2>2. Map!GiveBack(Key, o)
    BY <1>3, <2>1, ReleaseOwnerEmpties, EmptyingMaps
  <2>3. CASE Map!Has(o) # {}
    BY <2>2, <2>3 DEF Map!Next
  <2>4. CASE Map!Has(o) = {}
    BY <2>2, <2>4 DEF Map!GiveBack, Map!Has
  <2>. QED  BY <2>3, <2>4
<1>4. CASE UNCHANGED claims
  BY <1>4 DEF HolderOf, Claimed, EntriesOf, Active
<1>. QED  BY <1>1, <1>2, <1>3, <1>4 DEF TableNext

\* The registry keeps its promise: bundles are granted whole, and a resource
\* passes from one owner to the next only through being free.
THEOREM TableImplementsMap == TableSpec => MapSpec
<1>1. TableInv /\ TableInv' /\ [TableNext]_claims => [Map!Next]_([k \in Key |-> HolderOf(k)])
  BY StepMaps
<1>. QED  BY <1>1, InitTableInv, NextTableInv, MapInit, PTL DEF TableSpec, MapSpec, Map!Spec
=============================================================================
