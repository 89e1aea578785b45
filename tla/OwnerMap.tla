------------------------------ MODULE OwnerMap ------------------------------
(***************************************************************************)
(* What the resource registry promises: every key (a pin, a bus            *)
(* controller, an address, a chip select) has at most one owner; a bundle  *)
(* of keys is granted as a whole or not at all; and only its owner's name  *)
(* takes a key back.                                                       *)
(***************************************************************************)
CONSTANTS Key,       \* the resources
          Owner,     \* the names that claim them
          NoOwner,   \* nobody, not a member of Owner
          Bundle     \* the sets of keys that are claimed together

VARIABLE holder      \* [Key -> Owner \cup {NoOwner}]

Init == holder = [k \in Key |-> NoOwner]

\* Nobody else has a key of the bundle.
Grantable(B, o) == \A k \in B : holder[k] \in {NoOwner, o}

ClaimAll(B, o) ==
    /\ Grantable(B, o)
    /\ holder' = [k \in Key |-> IF k \in B THEN o ELSE holder[k]]

\* Every key of K that o has becomes free.
GiveBack(K, o) ==
    holder' = [k \in Key |-> IF k \in K /\ holder[k] = o THEN NoOwner ELSE holder[k]]

Has(o) == {k \in Key : holder[k] = o}

\* An owner claims a bundle, or gives back one key or everything.
Next == \E o \in Owner :
            \/ \E B \in Bundle : ClaimAll(B, o)
            \/ \E k \in Has(o) : GiveBack({k}, o)
            \/ Has(o) # {} /\ GiveBack(Key, o)

Spec == Init /\ [][Next]_holder
=============================================================================
