------------------------------- MODULE MCPorts -------------------------------
(***************************************************************************)
(* Instances of Ports for TLC: the driver of port a, the driver of port b  *)
(* and a driver whose name is already taken by a stream of another         *)
(* service.                                                                *)
(***************************************************************************)
EXTENDS Ports, TLC

CONSTANTS a, b, mic,      \* names; mic is the stream of another service
          pa, pb, pm,     \* providers
          c1, c2          \* clients

MCDriverName == [p \in Provider |-> CASE p = pa -> a [] p = pb -> b [] p = pm -> mic]
MCSymmetry == Permutations({c1, c2})
=============================================================================
