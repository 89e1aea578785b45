------------------------------ MODULE MCLinkStream ------------------------------
(***************************************************************************)
(* Instances of LinkStream for TLC: two ends with odd and even sessions.   *)
(***************************************************************************)
EXTENDS LinkStream, TLC

CONSTANTS a, b          \* the ends

MCSessionsOf == a :> {1, 3, 5, 7, 9, 11, 13} @@ b :> {2, 4, 6, 8, 10, 12, 14}
=============================================================================
