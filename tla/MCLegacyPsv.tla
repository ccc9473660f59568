---------------------------- MODULE MCLegacyPsv ----------------------------
(***************************************************************************)
(* LegacyPsv for TLC: capacities that fit every file, and ones that each   *)
(* array in turn can exceed, none at all included.                         *)
(***************************************************************************)
EXTENDS LegacyPsv

MCCapacities == {<<5, 5, 5>>, <<3, 5, 5>>, <<5, 1, 5>>, <<5, 5, 1>>, <<0, 0, 0>>}
=============================================================================
