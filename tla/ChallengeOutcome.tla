--------------------------- MODULE ChallengeOutcome ---------------------------
(***************************************************************************)
(* What the club promises about a challenge, whatever its status column    *)
(* says: it ends in at most one outcome, a played result or a forfeit; a   *)
(* forfeit is claimed before it is granted; and while a claim is open no   *)
(* result can be recorded.  Ladder implements this specification.          *)
(***************************************************************************)
CONSTANT Challenges

VARIABLE outcome

Outcomes == {"none", "claimed", "played", "forfeited"}

OutcomeInit == outcome = [c \in Challenges |-> "none"]

Become(c, from, to) ==
    /\ outcome[c] = from
    /\ outcome' = [outcome EXCEPT ![c] = to]

OutcomeNext ==
    \E c \in Challenges :
        \/ Become(c, "none", "played")
        \/ Become(c, "none", "claimed")
        \/ Become(c, "claimed", "none")
        \/ Become(c, "claimed", "forfeited")

OutcomeSpec == OutcomeInit /\ [][OutcomeNext]_outcome
=============================================================================
