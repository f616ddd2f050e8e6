---------------------------- MODULE MCCoapSeparate ----------------------------
(***************************************************************************)
(* Instances of CoapSeparate for TLC.  NON requests are interchangeable.   *)
(***************************************************************************)
EXTENDS CoapSeparate, TLC

CONSTANTS r1, r2, r3

Symmetry == Permutations(Req \ Confirmable)
=============================================================================
