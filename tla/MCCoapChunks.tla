----------------------------- MODULE MCCoapChunks -----------------------------
(***************************************************************************)
(* Instances of CoapChunks for TLC.  The source's 2050 bytes are one short *)
(* block past a multiple of every block size; a length that is a multiple  *)
(* itself is the other case.                                               *)
(***************************************************************************)
EXTENDS CoapChunks

MCBlockSize == {2, 4, 8}
=============================================================================
