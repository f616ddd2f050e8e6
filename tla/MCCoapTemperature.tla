--------------------------- MODULE MCCoapTemperature ---------------------------
(***************************************************************************)
(* Instances of CoapTemperature for TLC: one temperature below zero, for   *)
(* which the first subtraction is defined, and two for which it is not.    *)
(***************************************************************************)
EXTENDS CoapTemperature

CONSTANTS o1, o2

MCTemp == {-1, 0, 1}
=============================================================================
