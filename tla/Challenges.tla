------------------------------ MODULE Challenges ------------------------------
(***************************************************************************)
(* The challenge table and the answers of its participants, up to the      *)
(* moment the challenge is accepted, refused, cancelled or expired.  What  *)
(* happens to an accepted challenge (a result, a walkover) is in Ladder,   *)
(* which extends this module.                                              *)
(*                                                                         *)
(* A slot c of Challenges is a challenge that may be created between the   *)
(* players SideA[c] and SideB[c]; the order in which slots are created is  *)
(* free.  Every function here holds the challenge row FOR UPDATE, or       *)
(* updates it with the guard in the WHERE clause, so one call is one step. *)
(***************************************************************************)
EXTENDS Club, Integers, FiniteSets

CONSTANTS
    Challenges,     \* challenges.id
    DirectMatches,  \* matches an admin enters without a challenge
    SideA, SideB,   \* the two teams of each challenge and direct match
    Challenger,     \* who would create the challenge, on side a
    MaxActive       \* challenge_rules.max_active_challenges

Matches == Challenges \cup DirectMatches
Participants(m) == SideA[m] \cup SideB[m]

ASSUME TeamAssumption ==
    /\ Challenges \cap DirectMatches = {}
    /\ SideA \in [Matches -> SUBSET Players]
    /\ SideB \in [Matches -> SUBSET Players]
    /\ \A m \in Matches : SideA[m] # {} /\ SideB[m] # {} /\ SideA[m] \cap SideB[m] = {}
    /\ Challenger \in [Challenges -> Players]
    /\ \A c \in Challenges : Challenger[c] \in SideA[c]
    /\ MaxActive \in Nat \ {0}

VARIABLES
    cstatus,    \* challenges.status; "none" before the row exists
    creator,    \* challenges.created_by
    crated,     \* challenges.rated_flag
    conf        \* challenge_participants.confirmation_status

cvars == <<cstatus, creator, crated, conf>>

Open == {"proposed", "partially_confirmed"}
Active == Open \cup {"accepted"}
Dead == {"rejected", "cancelled", "expired"}
CStatuses == Active \cup Dead
    \cup {"none", "completed", "walkover_pending", "walkover_confirmed"}
Confirmations == {"none", "pending", "accepted", "rejected"}

ChallengeTypeOK ==
    /\ cstatus \in [Challenges -> CStatuses]
    /\ creator \in [Challenges -> Players \cup {NoPlayer}]
    /\ crated \in [Challenges -> BOOLEAN]
    /\ conf \in [Challenges -> [Players -> Confirmations]]

ChallengeInit ==
    /\ cstatus = [c \in Challenges |-> "none"]
    /\ creator = [c \in Challenges |-> NoPlayer]
    /\ crated = [c \in Challenges |-> FALSE]
    /\ conf = [c \in Challenges |-> [p \in Players |-> "none"]]

-----------------------------------------------------------------------------
SetStatus(c, s) == cstatus' = [cstatus EXCEPT ![c] = s]

\* v_active_count: a challenge under a pending walkover is not counted.
ActiveOf(p) == {c \in Challenges : creator[c] = p /\ cstatus[c] \in Active}

\* create_challenge_atomic, under an advisory lock per creator.  Of the checks
\* of validate_challenge_creation only the cap reads what this model changes.
CreateChallenge(c, rated) ==
    LET me == Challenger[c] IN
    /\ cstatus[c] = "none"
    /\ Cardinality(ActiveOf(me)) < MaxActive
    /\ SetStatus(c, "proposed")
    /\ creator' = [creator EXCEPT ![c] = me]
    /\ crated' = [crated EXCEPT ![c] = rated]
    /\ conf' = [conf EXCEPT ![c] =
         [p \in Players |-> IF p = me THEN "accepted"
                            ELSE IF p \in Participants(c) THEN "pending" ELSE "none"]]

\* adminCreateChallenge by the exec `by`: born accepted, on behalf of everyone,
\* and never held against the cap, though it counts towards the exec's own.
AdminCreateChallenge(c, rated, by) ==
    /\ cstatus[c] = "none"
    /\ SetStatus(c, "accepted")
    /\ creator' = [creator EXCEPT ![c] = by]
    /\ crated' = [crated EXCEPT ![c] = rated]
    /\ conf' = [conf EXCEPT ![c] =
         [p \in Players |-> IF p \in Participants(c) THEN "accepted" ELSE "none"]]

\* Mutant: the first acceptance accepts for everyone.
RespondForAll(c, p, answer) ==
    /\ p # creator[c]
    /\ cstatus[c] \in Open
    /\ conf[c][p] = "pending"
    /\ conf' = [conf EXCEPT ![c] = [@ EXCEPT ![p] = answer]]
    /\ SetStatus(c, answer)
    /\ UNCHANGED <<creator, crated>>

\* respond_to_challenge
Respond(c, p, answer) ==
    /\ p # creator[c]
    /\ cstatus[c] \in Open
    /\ conf[c][p] = "pending"
    /\ conf' = [conf EXCEPT ![c] = [@ EXCEPT ![p] = answer]]
    /\ SetStatus(c, IF answer = "rejected" THEN "rejected"
                    ELSE IF \E q \in Players \ {p} : conf[c][q] = "pending"
                         THEN "partially_confirmed" ELSE "accepted")
    /\ UNCHANGED <<creator, crated>>

\* Mutant: the UPDATE loses its filter on the status.
CancelAnyChallenge(c) ==
    /\ cstatus[c] # "none"
    /\ SetStatus(c, "cancelled")
    /\ UNCHANGED <<creator, crated, conf>>

\* cancelChallenge: an UPDATE filtered on the open statuses.
CancelChallenge(c) ==
    /\ cstatus[c] \in Open
    /\ SetStatus(c, "cancelled")
    /\ UNCHANGED <<creator, crated, conf>>

\* The expire-challenges cron: one UPDATE over the overdue open challenges S.
ExpireChallenges(S) ==
    /\ S # {}
    /\ \A c \in S : cstatus[c] \in Open
    /\ cstatus' = [c \in Challenges |-> IF c \in S THEN "expired" ELSE cstatus[c]]
    /\ UNCHANGED <<creator, crated, conf>>

\* forceExpireChallenge: the UPDATE names the id and nothing else.
ForceExpireChallenge(c) ==
    /\ cstatus[c] # "none"
    /\ SetStatus(c, "expired")
    /\ UNCHANGED <<creator, crated, conf>>
=============================================================================
