------------------------------- MODULE MCPins -------------------------------
(***************************************************************************)
(* Instances of Pins for TLC: one ordinary pin, one input-only pin, and a  *)
(* table too small for everybody.                                          *)
(***************************************************************************)
EXTENDS Pins, TLC

CONSTANTS p, q,        \* pins
          u1, u2       \* users

MCKey == PinKeys
MCOwner == PinOwners
MCBundle == PinBundles
MCSymmetry == Permutations({u1, u2})
=============================================================================
