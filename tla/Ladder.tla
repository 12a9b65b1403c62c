-------------------------------- MODULE Ladder --------------------------------
(***************************************************************************)
(* The club ladder: from a challenge to a rated result, with the ways back *)
(* (dispute, void, conversion to casual, walkover) and the season that may *)
(* roll over in the middle.  Composes Challenges and SeasonRatings with    *)
(* the tables matches, match_participants, walkovers and disputes.         *)
(*                                                                         *)
(* Each RPC is one transaction that locks the row it decides on, so it is  *)
(* one step.  adminCreateMatch is not: it writes through PostgREST in      *)
(* several requests, and is several steps here.                            *)
(***************************************************************************)
EXTENDS Challenges, SeasonRatings

CONSTANTS
    Admins,         \* players for whom is_admin() holds
    Points,         \* the sizes of a rating change calculate_elo_update asks for
    MaxDisputes     \* bound: disputes raised on one match

ASSUME LadderAssumption ==
    /\ Admins \subseteq Players
    /\ Points \subseteq Nat
    /\ MaxDisputes \in Nat

VARIABLES
    match,      \* matches, one row per challenge (matches_challenge_id_unique)
    delta,      \* match_participants.rating_delta; 0 stands for NULL as well
    walkover,   \* the latest walkovers row of each challenge
    dispute,    \* status of the latest disputes row of each match
    raised,     \* how many disputes a match has had (only to bound them)
    entering    \* direct matches whose adminCreateMatch request still runs

mvars == <<match, delta>>
dvars == <<dispute, raised>>
vars == <<cvars, rvars, mvars, walkover, dvars, entering>>

Sides == {"a", "b"}
Side(m, p) == IF p \in SideA[m] THEN "a" ELSE "b"
Opposite(side) == IF side = "a" THEN "b" ELSE "a"

MStatuses == {"none", "incomplete", "pending_confirmation", "confirmed",
              "disputed", "voided", "walkover"}
Events == {"rated_challenge", "casual", "admin_entered"}

MatchRows == [status: MStatuses, season: Seasons \cup {NoSeason}, event: Events,
              rated: BOOLEAN, forfeit: BOOLEAN, submitter: Players \cup {NoPlayer},
              winner: Sides, boosted: BOOLEAN]

NoRow == [status |-> "none", season |-> NoSeason, event |-> "casual",
          rated |-> FALSE, forfeit |-> FALSE, submitter |-> NoPlayer,
          winner |-> "a", boosted |-> FALSE]

\* weighted: elo_weight_override > 0, i.e. not a withdrawal with enough notice.
WalkoverRows == [status: {"none", "pending", "confirmed", "rejected"},
                 winner: Sides, weighted: BOOLEAN]

LadderTypeOK ==
    /\ match \in [Matches -> MatchRows]
    /\ delta \in [Matches -> [Players -> Int]]
    /\ walkover \in [Challenges -> WalkoverRows]
    /\ dispute \in [Matches -> {"none", "open", "resolved"}]
    /\ raised \in [Matches -> Nat]
    /\ entering \in [DirectMatches -> {"no", "rated", "unrated"}]

TypeOK == ChallengeTypeOK /\ RatingTypeOK /\ LadderTypeOK

Init ==
    /\ ChallengeInit
    /\ RatingInit
    /\ match = [m \in Matches |-> NoRow]
    /\ delta = [m \in Matches |-> Zero]
    /\ walkover = [c \in Challenges |->
                     [status |-> "none", winner |-> "a", weighted |-> FALSE]]
    /\ dispute = [m \in Matches |-> "none"]
    /\ raised = [m \in Matches |-> 0]
    /\ entering = [m \in DirectMatches |-> "no"]

-----------------------------------------------------------------------------
(* Shared pieces of the match functions.                                   *)

Status(m) == match[m].status
SetMatch(m, row) == match' = [match EXCEPT ![m] = row]
\* UPDATE challenges ... WHERE id = v_match.challenge_id: no row for a direct match.
SetChallenge(m, s) ==
    IF m \in Challenges THEN SetStatus(m, s) ELSE UNCHANGED cstatus

Asked(m, winner, ask) ==
    [p \in Players |-> IF p \notin Participants(m) THEN 0
                       ELSE IF Side(m, p) = winner THEN ask[p] ELSE -ask[p]]

\* History: a delta of m is part of what the ratings hold now.
Posted(m) == Status(m) \in {"confirmed", "disputed"} /\ delta[m] # Zero

\* Mutant: the ratings move and the row is left unconfirmed.
ApplyWithoutConfirming(m, row, ask, final) ==
    LET gain == Landing(Participants(m), Asked(m, row.winner, ask)) IN
    /\ SetMatch(m, row)
    /\ SetChallenge(m, final)
    /\ live' = Plus(live, gain)
    /\ delta' = [delta EXCEPT ![m] = gain]
    /\ UNCHANGED <<archive, active, openings, opening, books>>

\* apply_match_result on a row that is pending_confirmation.  `final` is where
\* the challenge ends up.  The delta lands on the live ratings whatever season
\* the row carries, and rating_delta records what landed.  `ask` is what
\* calculate_elo_update returns: the winner gains, the loser drops.
ApplyResult(m, row, ask, final) ==
    /\ SetMatch(m, [row EXCEPT !.status = "confirmed"])
    /\ SetChallenge(m, final)
    /\ IF row.event = "casual"
       THEN /\ books' = IF delta[m] # Zero /\ ~Posted(m)
                        THEN Disturbed({row.season, active}) ELSE books
            /\ UNCHANGED <<live, delta>>
       ELSE LET gain == Landing(Participants(m), Asked(m, row.winner, ask)) IN
            /\ live' = Plus(live, gain)
            /\ delta' = [delta EXCEPT ![m] = gain]
            /\ books' = IF row.season # active \/ Posted(m)
                        THEN Disturbed({row.season, active}) ELSE books
    /\ UNCHANGED <<archive, active, openings, opening>>

\* void_club_match: only a confirmed match is reversed.
VoidMatchRow(m) ==
    /\ Status(m) # "none"
    /\ IF Status(m) = "confirmed"
       THEN Reverse(match[m].season, delta[m]) /\ UNCHANGED books
       ELSE /\ books' = IF Posted(m) THEN Disturbed({match[m].season, active}) ELSE books
            /\ UNCHANGED <<live, archive>>
    /\ SetMatch(m, [match[m] EXCEPT !.status = "voided"])
    /\ UNCHANGED <<active, openings, opening, delta, cstatus>>

\* convert_club_match_to_casual and its four arms.
ConvertMatchRow(m) ==
    LET row    == match[m]
        casual == [row EXCEPT !.rated = FALSE, !.event = "casual"]
        noElo  == [p \in Participants(m) |-> 0]
    IN
    /\ row.status # "none"
    /\ \/ /\ row = casual /\ row.status \in {"confirmed", "voided"}
          /\ UNCHANGED <<match, delta, rvars, cstatus>>
       \/ /\ row # casual /\ row.status = "voided"
          /\ SetMatch(m, casual)
          /\ UNCHANGED <<delta, rvars, cstatus>>
       \/ /\ row # casual /\ row.status = "confirmed"
          /\ Reverse(row.season, delta[m])
          /\ SetMatch(m, [casual EXCEPT !.status = "voided"])
          /\ UNCHANGED <<active, openings, opening, books, delta, cstatus>>
       \/ /\ row.status \notin {"confirmed", "voided"}
          /\ ApplyResult(m, [casual EXCEPT !.status = "pending_confirmation"],
                         noElo, "completed")

CloseDispute(m) == dispute' = [dispute EXCEPT ![m] = "resolved"]

-----------------------------------------------------------------------------
(* Challenges: what does not touch a match.                                *)

ChallengeStep ==
    /\ \/ \E c \in Challenges, r \in BOOLEAN :
            \/ CreateChallenge(c, r)
            \/ \E by \in Admins \cup {NoPlayer} : AdminCreateChallenge(c, r, by)
       \/ \E c \in Challenges, p \in Players, answer \in {"accepted", "rejected"} :
            Respond(c, p, answer)
       \/ \E c \in Challenges : CancelChallenge(c) \/ ForceExpireChallenge(c)
       \/ \E S \in SUBSET Challenges : ExpireChallenges(S)
    /\ UNCHANGED <<rvars, mvars, walkover, dvars, entering>>

(* Seasons.                                                                *)

Season(s, policy, mean, k) ==
    /\ ActivateSeason(s, policy, mean, k)
    /\ UNCHANGED <<cvars, mvars, walkover, dvars, entering>>

-----------------------------------------------------------------------------
(* Results.                                                                *)

\* Mutant: the status of the challenge is not looked at.
SubmitWhateverStatus(c, p, completed, winner) ==
    /\ p \in Participants(c)
    /\ Status(c) = "none"
    /\ active # NoSeason
    /\ SetMatch(c, [NoRow EXCEPT
         !.status = IF completed THEN "pending_confirmation" ELSE "incomplete",
         !.season = active, !.rated = crated[c], !.submitter = p, !.winner = winner])
    /\ UNCHANGED <<cvars, rvars, delta, walkover, dvars, entering>>

\* submit_match_result
SubmitResult(c, p, completed, winner) ==
    /\ cstatus[c] = "accepted"
    /\ p \in Participants(c)
    /\ Status(c) = "none"
    /\ active # NoSeason
    /\ SetMatch(c, [NoRow EXCEPT
         !.status = IF completed THEN "pending_confirmation" ELSE "incomplete",
         !.season = active, !.rated = crated[c], !.submitter = p, !.winner = winner,
         !.event = IF crated[c] THEN "rated_challenge" ELSE "casual"])
    /\ UNCHANGED <<cvars, rvars, delta, walkover, dvars, entering>>

\* apply_match_result called by a member.
ConfirmResult(m, p, ask) ==
    /\ Status(m) = "pending_confirmation"
    /\ \/ p \in Admins
       \/ /\ p \in Participants(m)
          /\ p # match[m].submitter
          /\ match[m].submitter \in Participants(m)
               => Side(m, p) # Side(m, match[m].submitter)
    /\ ApplyResult(m, match[m], ask, "completed")
    /\ UNCHANGED <<creator, crated, conf, walkover, dvars, entering>>

\* adminCreateMatch, first request: the row is committed unconfirmed.
DirectInsert(m, rated, winner) ==
    /\ Status(m) = "none"
    /\ active # NoSeason
    /\ SetMatch(m, [NoRow EXCEPT
         !.status = IF rated THEN "pending_confirmation" ELSE "incomplete",
         !.season = active, !.event = "admin_entered", !.rated = rated, !.winner = winner])
    /\ entering' = [entering EXCEPT ![m] = IF rated THEN "rated" ELSE "unrated"]
    /\ UNCHANGED <<cvars, rvars, delta, walkover, dvars>>

\* adminCreateMatch, last request: a rated match is applied; an unrated one is
\* confirmed by an UPDATE that names the id and nothing else.
DirectFinish(m, ask) ==
    /\ entering[m] # "no"
    /\ \/ /\ entering[m] = "rated"
          /\ Status(m) = "pending_confirmation"
          /\ ApplyResult(m, match[m], ask, "completed")
       \/ /\ entering[m] = "unrated"
          /\ SetMatch(m, [match[m] EXCEPT !.status = "confirmed"])
          /\ UNCHANGED <<cstatus, rvars, delta>>
    /\ entering' = [entering EXCEPT ![m] = "no"]
    /\ UNCHANGED <<creator, crated, conf, walkover, dvars>>

\* discardIncompleteMatch, when the participants or the games could not be
\* written: the row goes (its disputes cascade), unless its status has moved.
DirectDiscard(m) ==
    /\ entering[m] # "no"
    /\ IF Status(m) = (IF entering[m] = "rated" THEN "pending_confirmation" ELSE "incomplete")
       THEN /\ SetMatch(m, NoRow)
            /\ dispute' = [dispute EXCEPT ![m] = "none"]
       ELSE UNCHANGED <<match, dispute>>
    /\ entering' = [entering EXCEPT ![m] = "no"]
    /\ UNCHANGED <<cvars, rvars, delta, walkover, raised>>

\* The request dies, or its last call is refused: the row stays as it is.
DirectLost(m) ==
    /\ entering[m] # "no"
    /\ entering' = [entering EXCEPT ![m] = "no"]
    /\ UNCHANGED <<cvars, rvars, mvars, walkover, dvars>>

\* Mutant: rating_delta does not learn of the boost.
BoostUnrecorded(m, b) ==
    /\ ~match[m].boosted
    /\ Status(m) = "confirmed"
    /\ match[m].rated /\ match[m].season = active
    /\ live' = Plus(live, Landing(Participants(m),
                                  [p \in Players |-> Scaled(delta[m][p], b)]))
    /\ SetMatch(m, [match[m] EXCEPT !.boosted = TRUE])
    /\ UNCHANGED <<cvars, archive, active, openings, opening, books, delta, walkover,
                   dvars, entering>>

\* boost_match_rating, by a factor 1 + b/Grain
BoostMatch(m, b) ==
    LET extra == Landing(Participants(m), [p \in Players |-> Scaled(delta[m][p], b)]) IN
    /\ ~match[m].boosted
    /\ Status(m) = "confirmed"
    /\ match[m].event # "casual" /\ match[m].rated
    /\ ~match[m].forfeit
    /\ match[m].season = active
    /\ live' = Plus(live, extra)
    /\ delta' = [delta EXCEPT ![m] = Plus(@, extra)]
    /\ SetMatch(m, [match[m] EXCEPT !.boosted = TRUE])
    /\ UNCHANGED <<cvars, archive, active, openings, opening, books, walkover, dvars, entering>>

\* voidMatch and convertMatchToCasual from the console's match list
VoidMatch(m) ==
    /\ VoidMatchRow(m)
    /\ UNCHANGED <<creator, crated, conf, walkover, dvars, entering>>

ConvertMatch(m) ==
    /\ ConvertMatchRow(m)
    /\ UNCHANGED <<creator, crated, conf, walkover, dvars, entering>>

-----------------------------------------------------------------------------
(* Disputes.                                                               *)

\* Mutant: a match in any status can be disputed.
DisputeAnyResult(m, p) ==
    /\ raised[m] < MaxDisputes
    /\ p \in Participants(m)
    /\ Status(m) # "none"
    /\ SetMatch(m, [match[m] EXCEPT !.status = "disputed"])
    /\ dispute' = [dispute EXCEPT ![m] = "open"]
    /\ raised' = [raised EXCEPT ![m] = @ + 1]
    /\ UNCHANGED <<cvars, rvars, delta, walkover, entering>>

\* dispute_match_result: the ratings are left where they are.
DisputeResult(m, p) ==
    /\ raised[m] < MaxDisputes
    /\ p \in Participants(m)
    /\ Status(m) \in {"pending_confirmation", "confirmed"}
    /\ dispute[m] # "open"
    /\ SetMatch(m, [match[m] EXCEPT !.status = "disputed"])
    /\ dispute' = [dispute EXCEPT ![m] = "open"]
    /\ raised' = [raised EXCEPT ![m] = @ + 1]
    /\ UNCHANGED <<cvars, rvars, delta, walkover, entering>>

\* Mutant: a match that was rated before the dispute is not applied again, and
\* its dispute is closed all the same.
ResolveRatedOnce(m, winner, ask) ==
    /\ dispute[m] = "open"
    /\ IF delta[m] = Zero
       THEN ApplyResult(m, [match[m] EXCEPT !.winner = winner], ask, "completed")
       ELSE UNCHANGED <<cstatus, rvars, mvars>>
    /\ CloseDispute(m)
    /\ UNCHANGED <<creator, crated, conf, walkover, raised, entering>>

\* resolve_dispute_rated: `accepted` keeps the winner, `edited` replaces it.
ResolveRated(m, winner, ask) ==
    /\ dispute[m] = "open"
    /\ Status(m) # "confirmed"
    /\ ApplyResult(m, [match[m] EXCEPT !.winner = winner], ask, "completed")
    /\ CloseDispute(m)
    /\ UNCHANGED <<creator, crated, conf, walkover, raised, entering>>

\* resolve_dispute_unrated, its two arms
ResolveVoided(m) ==
    /\ dispute[m] = "open"
    /\ VoidMatchRow(m)
    /\ CloseDispute(m)
    /\ UNCHANGED <<creator, crated, conf, walkover, raised, entering>>

ResolveCasual(m) ==
    /\ dispute[m] = "open"
    /\ ConvertMatchRow(m)
    /\ CloseDispute(m)
    /\ UNCHANGED <<creator, crated, conf, walkover, raised, entering>>

-----------------------------------------------------------------------------
(* Walkovers.                                                              *)

\* Mutant: a forfeit can be claimed over a submitted result.
ReportOverResult(c, p, kind) ==
    /\ cstatus[c] \in {"accepted", "partially_confirmed"}
    /\ p \in Participants(c)
    /\ walkover[c].status # "pending"
    /\ walkover' = [walkover EXCEPT ![c] =
         [status |-> "pending", weighted |-> kind # "early", winner |-> Side(c, p)]]
    /\ SetStatus(c, "walkover_pending")
    /\ UNCHANGED <<creator, crated, conf, rvars, mvars, dvars, entering>>

\* report_walkover_atomic: a withdrawal forfeits the reporter's side, with
\* enough notice ("early") or not ("late"); a no-show forfeits the other side.
ReportWalkover(c, p, kind) ==
    /\ cstatus[c] \in {"accepted", "partially_confirmed"}
    /\ Status(c) = "none"
    /\ p \in Participants(c)
    /\ walkover[c].status # "pending"
    /\ walkover' = [walkover EXCEPT ![c] =
         [status |-> "pending", weighted |-> kind # "early",
          winner |-> IF kind = "no_show" THEN Side(c, p) ELSE Opposite(Side(c, p))]]
    /\ SetStatus(c, "walkover_pending")
    /\ UNCHANGED <<creator, crated, conf, rvars, mvars, dvars, entering>>

\* apply_walkover_result: the forfeit becomes a match, rated at a reduced
\* weight when the challenge is rated and the withdrawal was not an early one.
ConfirmWalkover(c, ask) ==
    LET rated == crated[c] /\ walkover[c].weighted
        row == [NoRow EXCEPT
                  !.status = "walkover", !.season = active, !.forfeit = TRUE,
                  !.event = IF crated[c] THEN "rated_challenge" ELSE "casual",
                  !.rated = rated, !.winner = walkover[c].winner]
    IN
    /\ walkover[c].status = "pending"
    /\ Status(c) = "none"            \* matches_challenge_id_unique
    /\ active # NoSeason
    /\ IF rated
       THEN ApplyResult(c, row, ask, "walkover_confirmed")
       ELSE /\ SetMatch(c, row)
            /\ SetStatus(c, "walkover_confirmed")
            /\ UNCHANGED <<rvars, delta>>
    /\ walkover' = [walkover EXCEPT ![c].status = "confirmed"]
    /\ UNCHANGED <<creator, crated, conf, dvars, entering>>

\* Mutants: the challenge reopens whatever happened to it meanwhile; an answered
\* walkover can be rejected too; the reopened challenge gets a status of matches.
RejectAndReopen(c) ==
    /\ walkover[c].status = "pending"
    /\ walkover' = [walkover EXCEPT ![c].status = "rejected"]
    /\ SetStatus(c, "accepted")
    /\ UNCHANGED <<creator, crated, conf, rvars, mvars, dvars, entering>>

RejectAnswered(c) ==
    /\ walkover[c].status # "none"
    /\ walkover' = [walkover EXCEPT ![c].status = "rejected"]
    /\ UNCHANGED <<cvars, rvars, mvars, dvars, entering>>

RejectAsMatch(c) ==
    /\ walkover[c].status = "pending"
    /\ walkover' = [walkover EXCEPT ![c].status = "rejected"]
    /\ SetStatus(c, "pending_confirmation")
    /\ UNCHANGED <<creator, crated, conf, rvars, mvars, dvars, entering>>

\* reject_walkover_atomic: the challenge reopens as accepted, whatever it was
\* before the report, if the report is still what holds it.
RejectWalkover(c) ==
    /\ walkover[c].status = "pending"
    /\ walkover' = [walkover EXCEPT ![c].status = "rejected"]
    /\ cstatus' = IF cstatus[c] = "walkover_pending"
                  THEN [cstatus EXCEPT ![c] = "accepted"] ELSE cstatus
    /\ UNCHANGED <<creator, crated, conf, rvars, mvars, dvars, entering>>

-----------------------------------------------------------------------------
Asks(m) == [Participants(m) -> Points]

MatchStep(m) ==
    \/ \E ask \in Asks(m), p \in Players : ConfirmResult(m, p, ask)
    \/ \E b \in 1..Grain : BoostMatch(m, b)
    \/ VoidMatch(m)
    \/ ConvertMatch(m)
    \/ \E p \in Players : DisputeResult(m, p)
    \/ \E winner \in Sides, ask \in Asks(m) : ResolveRated(m, winner, ask)
    \/ ResolveVoided(m)
    \/ ResolveCasual(m)

DirectStep(m) ==
    \/ \E rated \in BOOLEAN, winner \in Sides : DirectInsert(m, rated, winner)
    \/ \E ask \in Asks(m) : DirectFinish(m, ask)
    \/ DirectDiscard(m)
    \/ DirectLost(m)

PlayStep(c) ==
    \/ \E p \in Players, done \in BOOLEAN, winner \in Sides : SubmitResult(c, p, done, winner)
    \/ \E p \in Players, kind \in {"early", "late", "no_show"} : ReportWalkover(c, p, kind)
    \/ \E ask \in Asks(c) : ConfirmWalkover(c, ask)
    \/ RejectWalkover(c)

\* Only the soft reset reads the mean, the average of the (established) ratings,
\* which is any number of the rating range here, and the compression factor.
SeasonStep ==
    \E s \in Seasons :
        \/ \E policy \in {"carry", "full"} : Season(s, policy, Lo, 0)
        \/ \E mean \in Lo..Hi, k \in 0..Grain : Season(s, "soft", mean, k)

Next ==
    \/ ChallengeStep
    \/ SeasonStep
    \/ \E m \in Matches : MatchStep(m)
    \/ \E m \in DirectMatches : DirectStep(m)
    \/ \E c \in Challenges : PlayStep(c)

Spec == Init /\ [][Next]_vars
=============================================================================
