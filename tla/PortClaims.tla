----------------------------- MODULE PortClaims -----------------------------
(***************************************************************************)
(* What the port registry promises to its users: a port is there or not,   *)
(* and while it is there at most one task owns it.  A port leaves only     *)
(* while nobody owns it, and passes from one owner to the next only        *)
(* through being free.                                                     *)
(***************************************************************************)
CONSTANTS Name,     \* the ports
          Client,   \* the tasks that use them
          NoClient  \* nobody, not a member of Client

VARIABLES there,    \* the ports a user can find
          owner     \* [Name -> Client \cup {NoClient}]

claimVars == <<there, owner>>

Init == /\ there = {}
        /\ owner = [n \in Name |-> NoClient]

\* A driver publishes its port.
Appear(n) == /\ n \notin there
             /\ there' = there \cup {n}
             /\ UNCHANGED owner

\* A driver takes its port back: never one that is in use.
Vanish(n) == /\ n \in there
             /\ owner[n] = NoClient
             /\ there' = there \ {n}
             /\ UNCHANGED owner

Acquire(c, n) == /\ n \in there
                 /\ owner[n] = NoClient
                 /\ owner' = [owner EXCEPT ![n] = c]
                 /\ UNCHANGED there

Release(c, n) == /\ owner[n] = c
                 /\ owner' = [owner EXCEPT ![n] = NoClient]
                 /\ UNCHANGED there

Next == \E n \in Name :
            \/ Appear(n)
            \/ Vanish(n)
            \/ \E c \in Client : Acquire(c, n) \/ Release(c, n)

Spec == Init /\ [][Next]_claimVars
=============================================================================
