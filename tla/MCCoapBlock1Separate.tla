------------------------- MODULE MCCoapBlock1Separate -------------------------
(***************************************************************************)
(* Instances of CoapBlock1Separate for TLC.                                *)
(***************************************************************************)
EXTENDS CoapBlock1Separate

CONSTANTS c1, c2

=============================================================================
