--------------------------- MODULE LadderProperties ---------------------------
(***************************************************************************)
(* What makes the ladder correct.  All of it holds and is checked and      *)
(* partly proved, but for the last property: the repository says it, and   *)
(* it is refuted.                                                          *)
(***************************************************************************)
EXTENDS Ladder, Functions

\* A played result is never buried under a forfeit: while a walkover waits for
\* an exec, its challenge has no match, whoever submitted, expired or disputed
\* in between.  (report_walkover_atomic against submit_match_result_for.)
NoBuriedResult ==
    \A c \in Challenges : walkover[c].status = "pending" => Status(c) = "none"

\* A forfeited match and a confirmed walkover are the same event: neither
\* exists without the other, through every later void, dispute or conversion.
ForfeitAnswered ==
    \A c \in Challenges :
        walkover[c].status = "confirmed" <=> (Status(c) # "none" /\ match[c].forfeit)

\* A challenge can be played only once everyone it names has agreed to it; the
\* one way around is a forfeit report that was refused, because
\* reject_walkover_atomic reopens as accepted what may only have been
\* partially confirmed.
PlayedByAgreement ==
    \A c \in Challenges :
        (cstatus[c] = "accepted" \/ Status(c) # "none") =>
            \/ \A p \in Participants(c) : conf[c][p] = "accepted"
            \/ walkover[c].status \in {"rejected", "confirmed"}

\* A disputed match is always on the dispute queue: no sequence of console
\* calls closes the dispute and leaves the match disputed.
DisputedIsQueued ==
    \A m \in Matches : Status(m) = "disputed" => dispute[m] = "open"

\* A result nobody has confirmed yet has moved nobody's rating.
UnconfirmedMovesNoRating ==
    \A m \in Matches :
        Status(m) \in {"none", "incomplete", "pending_confirmation", "walkover"}
            => delta[m] = Zero

-----------------------------------------------------------------------------
(* The inductive invariant: the five above and what they lean on.          *)

\* The status of a challenge under a pending claim keeps submit_match_result
\* and the other answers out; an expiry forced by the console does too.
HeldByClaim ==
    \A c \in Challenges :
        walkover[c].status = "pending" => cstatus[c] \in {"walkover_pending", "expired"}

QueuedHasMatch == \A m \in Matches : dispute[m] = "open" => Status(m) # "none"

OpenUnplayed == \A c \in Challenges : cstatus[c] \in Open \cup {"none"} => Status(c) = "none"

OpenUnrefused ==
    \A c \in Challenges : cstatus[c] \in Open =>
        \A p \in Participants(c) : conf[c][p] \in {"accepted", "pending"}

LadderInv ==
    /\ TypeOK
    /\ NoBuriedResult /\ ForfeitAnswered /\ PlayedByAgreement
    /\ DisputedIsQueued /\ UnconfirmedMovesNoRating
    /\ HeldByClaim /\ QueuedHasMatch /\ OpenUnplayed /\ OpenUnrefused

-----------------------------------------------------------------------------
RatingIn(s) == IF s = active THEN live ELSE archive[s]
OnTheBooks(s) == {m \in Matches : match[m].season = s /\ Status(m) \in {"confirmed", "disputed"}}
Earned(s, p) == SumFunctionOnSet([m \in Matches |-> delta[m][p]], OnTheBooks(s))

\* The books balance: in every season that was opened once and saw no
\* irregular posting, a player's rating is the opening rating plus the deltas
\* of that season's standing matches.  Clamped results, boosts, walkovers,
\* voids before and after the rollover and conversions all keep it.
\* The irregular postings are named in ApplyResult and VoidMatchRow (history
\* variable books).
BooksBalance ==
    \A s \in Seasons : books[s] = "clean" =>
        \A p \in Players : RatingIn(s)[p] = opening[s][p] + Earned(s, p)

\* What the books lean on.  Only finitely many matches are ever recorded.
RecordedFinite == IsFiniteSet({m \in Matches : Status(m) # "none"})

\* Every recorded match belongs to a season that was opened, and so does the present.
RecordedInOpened ==
    /\ \A m \in Matches :
          Status(m) # "none" => match[m].season \in Seasons /\ books[match[m].season] # "unopened"
    /\ IF active = NoSeason THEN \A s \in Seasons : books[s] = "unopened"
                            ELSE books[active] # "unopened"

\* The last request of an unrated entry can confirm a match in any status, but never
\* one that holds a rating change: until it has run, the match can be rated only by
\* first becoming casual.
UnratedHoldsNothing ==
    \A m \in DirectMatches : entering[m] = "unrated" =>
        /\ Status(m) # "none" /\ delta[m] = Zero
        /\ \/ match[m].event = "casual"
           \/ Status(m) \in {"incomplete", "voided"} /\ dispute[m] # "open"

BooksInv == BooksBalance /\ RecordedFinite /\ RecordedInOpened /\ UnratedHoldsNothing

-----------------------------------------------------------------------------
\* A closed season's final ratings change only to take off a match of that
\* season that has just been voided.
ArchiveOnlyCorrected ==
    [][\A s \in Seasons : archive'[s] # archive[s] =>
         \/ s = active
         \/ \E m \in Matches : /\ match[m].season = s
                               /\ Status(m) = "confirmed"
                               /\ match'[m].status = "voided"]_vars

\* A challenge that is over never becomes playable again, although the refusal
\* of a walkover reopens a challenge and three actors can end it meanwhile.
OverStaysOver ==
    [][\A c \in Challenges :
         cstatus[c] \in Dead \cup {"completed", "walkover_confirmed"}
           => cstatus'[c] \notin Active \cup {"none", "walkover_pending"}]_vars

\* A void stands: nothing but the resolution of a dispute that was open when
\* the match was voided brings a voided challenge match back.
VoidStands ==
    [][\A c \in Challenges : (Status(c) = "voided" /\ dispute[c] # "open")
         => match'[c].status = "voided"]_vars

\* The ladder implements ChallengeOutcome: the outcome is read off the match
\* and walkover tables, and challenges.status has no say in it.
OutcomeOf(c) ==
    IF Status(c) # "none" THEN (IF match[c].forfeit THEN "forfeited" ELSE "played")
    ELSE IF walkover[c].status = "pending" THEN "claimed" ELSE "none"

Promise == INSTANCE ChallengeOutcome WITH outcome <- [c \in Challenges |-> OutcomeOf(c)]

OneOutcomePerChallenge == Promise!OutcomeSpec

-----------------------------------------------------------------------------
(* Said of the program, and refuted by what it does.                       *)

\* "refusing to rate a match twice is the safe direction"
\* (00178_resolve_dispute_atomically.sql:36-37).
NeverRatedTwice ==
    [][\A m \in Matches : (Posted(m) /\ match'[m].status = "confirmed") =>
         (live' = live \/ match'[m].boosted # match[m].boosted)]_vars
=============================================================================
