--------------------------------- MODULE Club ---------------------------------
(***************************************************************************)
(* The people every other module talks about.                              *)
(***************************************************************************)
CONSTANTS
    Players,    \* players.id
    NoPlayer    \* an exec who is none of them, or a NULL player column

ASSUME ClubAssumption == NoPlayer \notin Players
=============================================================================
