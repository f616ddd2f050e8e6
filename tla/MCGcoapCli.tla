------------------------------ MODULE MCGcoapCli ------------------------------
(***************************************************************************)
(* Instances of GcoapCli for TLC: a resource of one block, one of three,   *)
(* and one of two blocks whose path does not fit _last_req_path.           *)
(***************************************************************************)
EXTENDS GcoapCli

CONSTANTS small, large, long

MCBlocks == [p \in {small, large, long} |->
               IF p = small THEN 1 ELSE IF p = large THEN 3 ELSE 2]
=============================================================================
