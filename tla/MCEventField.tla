------------------------------ MODULE MCEventField ------------------------------
(***************************************************************************)
(* Instances of the event field for TLC.                                   *)
(***************************************************************************)
EXTENDS EventFieldProperties, TLC

CONSTANTS p1, p2, p3, es, ed

Symmetry == Permutations(Players)
=============================================================================
