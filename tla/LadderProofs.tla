----------------------------- MODULE LadderProofs -----------------------------
(***************************************************************************)
(* The ladder for every club: any players, teams, seasons, rating bounds   *)
(* and number of challenges.  The argument is one inductive invariant,     *)
(* LadderInv.  All the functions that work on an existing match (confirm,  *)
(* boost, void, convert, dispute and the resolutions) leave the tables in  *)
(* the relation Moved, so the invariant is proved once for Moved and each  *)
(* function is proved to be a Moved step.                                  *)
(***************************************************************************)
EXTENDS LadderProperties, TLAPS

USE DEF Matches

-----------------------------------------------------------------------------
(* The arithmetic stays among the integers.                                *)

\* What apply_rating_delta stores is a number.
LEMMA ClampInt == ASSUME NEW x \in Int PROVE Clamp(x) \in Int
  BY RatingAssumption DEF Clamp

\* A boosted delta is a number.
LEMMA ScaledInt == ASSUME NEW d \in Int, NEW b \in Nat PROVE Scaled(d, b) \in Int
  BY RatingAssumption DEF Scaled

\* What lands of the deltas asked for is a delta for every player.
LEMMA LandingType ==
  ASSUME RatingTypeOK, NEW who, NEW asked \in [Players -> Int]
  PROVE  Landing(who, asked) \in [Players -> Int]
  BY ClampInt DEF Landing, RatingTypeOK

\* Posting and reversing deltas give ratings.
LEMMA PlusMinusType ==
  ASSUME NEW r \in [Players -> Int], NEW d \in [Players -> Int]
  PROVE  Plus(r, d) \in [Players -> Int] /\ Minus(r, d) \in [Players -> Int]
  BY DEF Plus, Minus

\* The bookkeeping of irregular seasons is well typed.
LEMMA DisturbedType ==
  ASSUME RatingTypeOK, NEW S PROVE Disturbed(S) \in [Seasons -> BookStates]
  BY DEF Disturbed, RatingTypeOK, BookStates

\* Every rollover policy gives ratings.
LEMMA ResetType ==
  ASSUME RatingTypeOK, NEW policy, NEW mean \in Int, NEW k \in Int
  PROVE  Reset(policy, mean, k) \in [Players -> Int]
<1>1. \A r \in Int : TierFloor(r) \in Int
  BY RatingAssumption DEF TierFloor
<1>2. \A r \in Int : Compressed(r, mean, k) \in Int
  BY <1>1, RatingAssumption DEF Compressed
<1>3. Baseline \in Int
  BY RatingAssumption
<1> QED
  BY <1>2, <1>3 DEF Reset, RatingTypeOK

\* A reversal keeps both rating tables well typed.
LEMMA ReverseType ==
  ASSUME RatingTypeOK, NEW s \in Seasons \cup {NoSeason}, NEW d \in [Players -> Int],
         Reverse(s, d)
  PROVE  live' \in [Players -> Int] /\ archive' \in [Seasons -> [Players -> Int]]
<1>1. CASE active # NoSeason /\ s # NoSeason /\ s # active
  <2>1. Minus(archive[s], d) \in [Players -> Int]
    BY <1>1, PlusMinusType DEF RatingTypeOK
  <2> QED BY <1>1, <2>1 DEF Reverse, RatingTypeOK
<1>2. CASE ~(active # NoSeason /\ s # NoSeason /\ s # active)
  BY <1>2, PlusMinusType DEF Reverse, RatingTypeOK
<1> QED BY <1>1, <1>2

\* What a match asks of the ratings is a delta for every player.
LEMMA AskedType ==
  ASSUME NEW m \in Matches, NEW winner, NEW ask \in [Participants(m) -> Int]
  PROVE  Asked(m, winner, ask) \in [Players -> Int]
  BY DEF Asked

-----------------------------------------------------------------------------
(* Steps on an existing match.                                             *)

\* m changed and nothing else in the match table did; the row did not come
\* back to life; at most the challenge of m was completed.
Moved(m) ==
    /\ m \in Challenges => Status(m) # "none"
    /\ match' \in [Matches -> MatchRows]
    /\ delta' \in [Matches -> [Players -> Int]]
    /\ \A n \in Matches \ {m} : match'[n] = match[n] /\ delta'[n] = delta[n]
    /\ match'[m].status \in {"confirmed", "voided", "disputed"}
    /\ match'[m].forfeit = match[m].forfeit
    /\ RatingTypeOK'
    /\ \/ cstatus' = cstatus
       \/ m \in Challenges /\ cstatus' = [cstatus EXCEPT ![m] = "completed"]

\* apply_match_result posts the row, and ends the challenge as it is told to.
LEMMA ApplyEffect ==
  ASSUME TypeOK, NEW m \in Matches, NEW row \in MatchRows,
         NEW ask \in [Participants(m) -> Int], NEW final,
         ApplyResult(m, row, ask, final)
  PROVE  /\ match' = [match EXCEPT ![m] = [row EXCEPT !.status = "confirmed"]]
         /\ match' \in [Matches -> MatchRows]
         /\ delta' \in [Matches -> [Players -> Int]]
         /\ \A n \in Matches \ {m} : delta'[n] = delta[n]
         /\ RatingTypeOK'
         /\ cstatus' = IF m \in Challenges THEN [cstatus EXCEPT ![m] = final] ELSE cstatus
<1> DEFINE gain == Landing(Participants(m), Asked(m, row.winner, ask))
<1> USE DEF TypeOK
<1>1. match' = [match EXCEPT ![m] = [row EXCEPT !.status = "confirmed"]]
  BY DEF ApplyResult, SetMatch
<1>2. [row EXCEPT !.status = "confirmed"] \in MatchRows
  BY DEF MatchRows, MStatuses
<1>3. match' \in [Matches -> MatchRows]
  BY <1>1, <1>2 DEF LadderTypeOK
<1>4. gain \in [Players -> Int]
  BY AskedType, LandingType
<1>5. Plus(live, gain) \in [Players -> Int]
  BY <1>4, PlusMinusType DEF RatingTypeOK
<1> HIDE DEF gain
<1>6. \/ live' = live /\ delta' = delta
      \/ live' = Plus(live, gain) /\ delta' = [delta EXCEPT ![m] = gain]
  BY DEF ApplyResult, gain
<1>7. books' = books \/ books' = Disturbed({row.season, active})
  BY DEF ApplyResult
<1>8. RatingTypeOK'
  <2>1. live' \in [Players -> Int]
    BY <1>5, <1>6 DEF RatingTypeOK
  <2>2. books' \in [Seasons -> BookStates]
    BY <1>7, DisturbedType DEF RatingTypeOK
  <2>3. UNCHANGED <<archive, active, openings, opening>>
    BY DEF ApplyResult
  <2> QED BY <2>1, <2>2, <2>3 DEF RatingTypeOK
<1>9. delta' \in [Matches -> [Players -> Int]] /\ \A n \in Matches \ {m} : delta'[n] = delta[n]
  BY <1>4, <1>6 DEF LadderTypeOK
<1>10. cstatus' = IF m \in Challenges THEN [cstatus EXCEPT ![m] = final] ELSE cstatus
  BY DEF ApplyResult, SetChallenge, SetStatus
<1> QED BY <1>1, <1>3, <1>8, <1>9, <1>10

\* apply_match_result on a row that keeps the forfeit flag of an existing match.
LEMMA ApplyMoves ==
  ASSUME TypeOK, NEW m \in Matches, NEW row \in MatchRows,
         NEW ask \in [Participants(m) -> Int],
         ApplyResult(m, row, ask, "completed"),
         row.forfeit = match[m].forfeit, m \in Challenges => Status(m) # "none"
  PROVE  Moved(m)
<1>1. /\ match' = [match EXCEPT ![m] = [row EXCEPT !.status = "confirmed"]]
      /\ match' \in [Matches -> MatchRows]
      /\ delta' \in [Matches -> [Players -> Int]]
      /\ \A n \in Matches \ {m} : delta'[n] = delta[n]
      /\ RatingTypeOK'
      /\ cstatus' = IF m \in Challenges THEN [cstatus EXCEPT ![m] = "completed"] ELSE cstatus
  BY ApplyEffect
<1>2. match'[m].status = "confirmed" /\ match'[m].forfeit = match[m].forfeit
  BY <1>1 DEF TypeOK, LadderTypeOK, MatchRows
<1>3. \A n \in Matches \ {m} : match'[n] = match[n]
  BY <1>1 DEF TypeOK, LadderTypeOK
<1> QED BY <1>1, <1>2, <1>3 DEF Moved

\* void_club_match
LEMMA VoidMoves ==
  ASSUME TypeOK, NEW m \in Matches, VoidMatchRow(m)
  PROVE  Moved(m) /\ delta' = delta
<1> USE DEF TypeOK
<1>1. match' = [match EXCEPT ![m] = [match[m] EXCEPT !.status = "voided"]]
      /\ Status(m) # "none" /\ UNCHANGED <<active, openings, opening, delta, cstatus>>
  BY DEF VoidMatchRow, SetMatch
<1>2. match[m] \in MatchRows
  BY DEF LadderTypeOK
<1>3. [match[m] EXCEPT !.status = "voided"] \in MatchRows
  BY <1>2 DEF MatchRows, MStatuses
<1>4. match' \in [Matches -> MatchRows]
  BY <1>1, <1>3 DEF LadderTypeOK
<1>5. match'[m].status = "voided" /\ match'[m].forfeit = match[m].forfeit
  BY <1>1, <1>2 DEF LadderTypeOK, MatchRows
<1>6. \A n \in Matches \ {m} : match'[n] = match[n]
  BY <1>1 DEF LadderTypeOK
<1>7. RatingTypeOK'
  <2>1. match[m].season \in Seasons \cup {NoSeason} /\ delta[m] \in [Players -> Int]
    BY <1>2 DEF MatchRows, LadderTypeOK
  <2>2. live' \in [Players -> Int] /\ archive' \in [Seasons -> [Players -> Int]]
    <3>1. CASE Status(m) = "confirmed"
      BY <3>1, <2>1, ReverseType DEF VoidMatchRow
    <3>2. CASE Status(m) # "confirmed"
      BY <3>2 DEF VoidMatchRow, RatingTypeOK
    <3> QED BY <3>1, <3>2
  <2>3. books' = books \/ books' = Disturbed({match[m].season, active})
    BY DEF VoidMatchRow
  <2>4. books' \in [Seasons -> BookStates]
    BY <2>3, DisturbedType DEF RatingTypeOK
  <2> QED BY <1>1, <2>2, <2>4 DEF RatingTypeOK
<1> QED BY <1>1, <1>4, <1>5, <1>6, <1>7 DEF Moved, LadderTypeOK

\* The arms of convert_club_match_to_casual that do not apply the result.
LEMMA CasualRowMoves ==
  ASSUME TypeOK, NEW m \in Matches, NEW row \in MatchRows,
         match' = [match EXCEPT ![m] = row], row.status \in {"confirmed", "voided"},
         row.forfeit = match[m].forfeit, Status(m) # "none",
         UNCHANGED <<delta, cstatus>>, RatingTypeOK'
  PROVE  Moved(m)
<1>1. match' \in [Matches -> MatchRows] /\ match'[m] = row
  BY DEF TypeOK, LadderTypeOK
<1>2. \A n \in Matches \ {m} : match'[n] = match[n]
  BY DEF TypeOK, LadderTypeOK
<1> QED BY <1>1, <1>2 DEF Moved, TypeOK, LadderTypeOK

\* convert_club_match_to_casual
LEMMA ConvertMoves ==
  ASSUME TypeOK, NEW m \in Matches, ConvertMatchRow(m)
  PROVE  Moved(m)
<1> DEFINE row    == match[m]
           casual == [row EXCEPT !.rated = FALSE, !.event = "casual"]
           noElo  == [p \in Participants(m) |-> 0]
<1>1. row \in MatchRows /\ Status(m) # "none" /\ row.status = Status(m)
  BY DEF TypeOK, LadderTypeOK, ConvertMatchRow, Status
<1>2. casual \in MatchRows /\ casual.status = row.status /\ casual.forfeit = row.forfeit
  BY <1>1 DEF MatchRows, Events
<1>3. CASE row = casual /\ row.status \in {"confirmed", "voided"}
           /\ UNCHANGED <<match, delta, rvars, cstatus>>
  <2>1. match' = [match EXCEPT ![m] = row]
    BY <1>3 DEF TypeOK, LadderTypeOK
  <2>2. RatingTypeOK'
    BY <1>3 DEF TypeOK, RatingTypeOK, rvars
  <2> QED BY <1>1, <1>3, <2>1, <2>2, CasualRowMoves
<1>4. CASE row # casual /\ row.status = "voided" /\ SetMatch(m, casual)
           /\ UNCHANGED <<delta, rvars, cstatus>>
  <2>1. RatingTypeOK'
    BY <1>4 DEF TypeOK, RatingTypeOK, rvars
  <2>2. match' = [match EXCEPT ![m] = casual]
    BY <1>4 DEF SetMatch
  <2> QED BY <1>1, <1>2, <1>4, <2>1, <2>2, CasualRowMoves
<1>5. CASE row # casual /\ row.status = "confirmed" /\ Reverse(row.season, delta[m])
           /\ SetMatch(m, [casual EXCEPT !.status = "voided"])
           /\ UNCHANGED <<active, openings, opening, books, delta, cstatus>>
  <2>1. row.season \in Seasons \cup {NoSeason} /\ delta[m] \in [Players -> Int]
    BY <1>1 DEF MatchRows, TypeOK, LadderTypeOK
  <2>2. RatingTypeOK'
    BY <1>5, <2>1, ReverseType DEF TypeOK, RatingTypeOK
  <2> DEFINE gone == [casual EXCEPT !.status = "voided"]
  <2>3. gone \in MatchRows /\ gone.status = "voided" /\ gone.forfeit = row.forfeit
    BY <1>2 DEF MatchRows, MStatuses
  <2>4. match' = [match EXCEPT ![m] = gone]
    BY <1>5 DEF SetMatch
  <2> HIDE DEF gone
  <2> QED BY <1>1, <1>5, <2>2, <2>3, <2>4, CasualRowMoves
<1>6. CASE row.status \notin {"confirmed", "voided"}
           /\ ApplyResult(m, [casual EXCEPT !.status = "pending_confirmation"],
                          noElo, "completed")
  <2> DEFINE again == [casual EXCEPT !.status = "pending_confirmation"]
  <2>1. again \in MatchRows /\ again.forfeit = row.forfeit
    BY <1>2 DEF MatchRows, MStatuses
  <2>2. noElo \in [Participants(m) -> Int]
    OBVIOUS
  <2>3. ApplyResult(m, again, noElo, "completed")
    BY <1>6
  <2> HIDE DEF again, noElo
  <2> QED BY <1>1, <2>1, <2>2, <2>3, ApplyMoves
<1> QED BY <1>3, <1>4, <1>5, <1>6 DEF ConvertMatchRow

\* The tables beside the match table, when a function works on match m.
Beside(m) ==
    /\ UNCHANGED <<creator, crated, conf, walkover>>
    /\ dispute' \in [Matches -> {"none", "open", "resolved"}]
    /\ raised' \in [Matches -> Nat]
    /\ entering' \in [DirectMatches -> {"no", "rated", "unrated"}]
    /\ \A n \in Matches \ {m} : dispute'[n] = dispute[n]
    /\ match'[m].status = "disputed" => dispute'[m] = "open"

\* Every function on an existing match keeps the invariant.
LEMMA MovedKeeps ==
  ASSUME LadderInv, NEW m \in Matches, Moved(m), Beside(m)
  PROVE  LadderInv'
<1> USE DEF LadderInv
<1>1. TypeOK'
  <2>1. ChallengeTypeOK'
    BY DEF Moved, Beside, TypeOK, ChallengeTypeOK, CStatuses
  <2>2. LadderTypeOK'
    BY DEF Moved, Beside, TypeOK, LadderTypeOK
  <2> QED BY <2>1, <2>2 DEF Moved, TypeOK
<1>2. \A n \in Matches : n # m => match'[n] = match[n] /\ dispute'[n] = dispute[n]
  BY DEF Moved, Beside
<1>3. \A c \in Challenges : Status(c)' # "none" <=> Status(c) # "none"
  BY <1>2 DEF Moved, Status
<1>4. \A c \in Challenges : match'[c].forfeit = match[c].forfeit
  BY <1>2 DEF Moved
<1>5. \A c \in Challenges : cstatus'[c] = cstatus[c] \/ (cstatus'[c] = "completed" /\ Status(c) # "none")
  BY DEF Moved, TypeOK, ChallengeTypeOK
<1>6. walkover' = walkover /\ conf' = conf
  BY DEF Beside
<1>7. NoBuriedResult' /\ ForfeitAnswered'
  BY <1>3, <1>4, <1>6 DEF NoBuriedResult, ForfeitAnswered
<1>8. PlayedByAgreement'
  BY <1>3, <1>5, <1>6 DEF PlayedByAgreement
<1>9. DisputedIsQueued' /\ QueuedHasMatch'
  BY <1>2 DEF DisputedIsQueued, QueuedHasMatch, Moved, Beside, Status
<1>10. UnconfirmedMovesNoRating'
  <2>1. Status(m)' \in {"confirmed", "voided", "disputed"}
    BY DEF Moved, Status
  <2>2. \A n \in Matches : n # m => Status(n)' = Status(n) /\ delta'[n] = delta[n]
    BY DEF Moved, Status
  <2> QED BY <2>1, <2>2 DEF UnconfirmedMovesNoRating, Zero
<1>11. HeldByClaim' /\ OpenUnplayed' /\ OpenUnrefused'
  BY <1>3, <1>5, <1>6 DEF HeldByClaim, OpenUnplayed, OpenUnrefused, NoBuriedResult, Open
<1> QED BY <1>1, <1>7, <1>8, <1>9, <1>10, <1>11

-----------------------------------------------------------------------------
(* Each function on an existing match is such a step.                      *)

\* What the points of a rating change are.
LEMMA AsksType ==
  ASSUME NEW m \in Matches, NEW ask \in Asks(m) PROVE ask \in [Participants(m) -> Int]
<1>1. Points \subseteq Int
  BY LadderAssumption
<1> QED BY <1>1 DEF Asks

\* Confirm, boost, void, convert, dispute, and the three resolutions.
LEMMA MatchStepMoves ==
  ASSUME LadderInv, NEW m \in Matches, MatchStep(m)
  PROVE  Moved(m) /\ Beside(m)
<1>0. TypeOK /\ match[m] \in MatchRows /\ QueuedHasMatch /\ delta[m] \in [Players -> Int]
  BY DEF LadderInv, TypeOK, LadderTypeOK
<1> DEFINE tables == /\ dispute \in [Matches -> {"none", "open", "resolved"}]
                     /\ raised \in [Matches -> Nat]
                     /\ entering \in [DirectMatches -> {"no", "rated", "unrated"}]
<1>00. tables
  BY <1>0 DEF TypeOK, LadderTypeOK
<1>1. ASSUME NEW ask \in Asks(m), NEW p \in Players, ConfirmResult(m, p, ask)
      PROVE  Moved(m) /\ Beside(m)
  <2>1. ApplyResult(m, match[m], ask, "completed") /\ Status(m) # "none"
    BY <1>1 DEF ConfirmResult
  <2>2. Moved(m)
    BY <1>0, <2>1, AsksType, ApplyMoves
  <2>3. match'[m].status = "confirmed"
    <3>1. match' = [match EXCEPT ![m] = [match[m] EXCEPT !.status = "confirmed"]]
      BY <2>1 DEF ApplyResult, SetMatch
    <3> QED BY <1>0, <3>1 DEF TypeOK, LadderTypeOK, MatchRows
  <2> QED BY <1>00, <1>1, <2>2, <2>3 DEF ConfirmResult, Beside, dvars
<1>2. ASSUME NEW b \in 1..Grain, BoostMatch(m, b)
      PROVE  Moved(m) /\ Beside(m)
  <2> DEFINE extra == Landing(Participants(m), [p \in Players |-> Scaled(delta[m][p], b)])
  <2>1. [p \in Players |-> Scaled(delta[m][p], b)] \in [Players -> Int]
    BY <1>0, ScaledInt, RatingAssumption
  <2>2. extra \in [Players -> Int]
    BY <1>0, <2>1, LandingType DEF TypeOK
  <2> HIDE DEF extra
  <2>3. /\ Status(m) = "confirmed" /\ live' = Plus(live, extra)
        /\ delta' = [delta EXCEPT ![m] = Plus(@, extra)]
        /\ match' = [match EXCEPT ![m] = [match[m] EXCEPT !.boosted = TRUE]]
        /\ UNCHANGED <<cvars, archive, active, openings, opening, books, walkover, dvars, entering>>
    BY <1>2 DEF BoostMatch, extra, SetMatch
  <2>4. Plus(live, extra) \in [Players -> Int] /\ Plus(delta[m], extra) \in [Players -> Int]
    BY <1>0, <2>2, PlusMinusType DEF TypeOK, RatingTypeOK
  <2>5. RatingTypeOK'
    BY <1>0, <2>3, <2>4 DEF TypeOK, RatingTypeOK
  <2>6. /\ match' \in [Matches -> MatchRows] /\ match'[m].status = "confirmed"
        /\ match'[m].forfeit = match[m].forfeit
        /\ \A n \in Matches \ {m} : match'[n] = match[n]
    BY <1>0, <2>3 DEF TypeOK, LadderTypeOK, MatchRows, Status
  <2>7. /\ delta' \in [Matches -> [Players -> Int]]
        /\ \A n \in Matches \ {m} : delta'[n] = delta[n]
    BY <1>0, <2>3, <2>4 DEF TypeOK, LadderTypeOK
  <2> QED BY <1>00, <2>3, <2>5, <2>6, <2>7 DEF Moved, Beside, cvars, dvars
<1>3. ASSUME VoidMatch(m) PROVE Moved(m) /\ Beside(m)
  <2>1. VoidMatchRow(m)
    BY <1>3 DEF VoidMatch
  <2>2. match'[m].status = "voided"
    BY <1>0, <2>1 DEF VoidMatchRow, SetMatch, TypeOK, LadderTypeOK, MatchRows
  <2> QED BY <1>0, <1>00, <1>3, <2>1, <2>2, VoidMoves DEF VoidMatch, Beside, dvars
<1>4. ConvertMatchRow(m) => Moved(m) /\ match'[m].status # "disputed"
  <2>1. ConvertMatchRow(m) => Moved(m)
    BY <1>0, ConvertMoves
  <2> DEFINE casual == [match[m] EXCEPT !.rated = FALSE, !.event = "casual"]
             again == [casual EXCEPT !.status = "pending_confirmation"]
             gone == [casual EXCEPT !.status = "voided"]
             row == [again EXCEPT !.status = "confirmed"]
  <2>2. casual.status = match[m].status /\ gone.status = "voided" /\ row.status = "confirmed"
    BY <1>0 DEF MatchRows
  <2>3. ConvertMatchRow(m) =>
          \/ match' = match /\ match[m].status \in {"confirmed", "voided"}
          \/ match' = [match EXCEPT ![m] = casual] /\ match[m].status = "voided"
          \/ match' = [match EXCEPT ![m] = gone]
          \/ match' = [match EXCEPT ![m] = row]
    BY DEF ConvertMatchRow, SetMatch, ApplyResult
  <2> HIDE DEF casual, gone, row
  <2> QED BY <1>0, <2>1, <2>2, <2>3 DEF TypeOK, LadderTypeOK
<1>5. ASSUME ConvertMatch(m) PROVE Moved(m) /\ Beside(m)
  BY <1>00, <1>4, <1>5 DEF ConvertMatch, Beside, dvars
<1>6. ASSUME NEW p \in Players, DisputeResult(m, p) PROVE Moved(m) /\ Beside(m)
  <2>1. /\ Status(m) # "none"
        /\ match' = [match EXCEPT ![m] = [match[m] EXCEPT !.status = "disputed"]]
        /\ dispute' = [dispute EXCEPT ![m] = "open"]
        /\ raised' = [raised EXCEPT ![m] = @ + 1]
        /\ UNCHANGED <<cvars, rvars, delta, walkover, entering>>
    BY <1>6 DEF DisputeResult, SetMatch
  <2>2. /\ match' \in [Matches -> MatchRows] /\ match'[m].status = "disputed"
        /\ match'[m].forfeit = match[m].forfeit
        /\ \A n \in Matches \ {m} : match'[n] = match[n]
    BY <1>0, <2>1 DEF TypeOK, LadderTypeOK, MatchRows, MStatuses
  <2>3. RatingTypeOK' /\ cstatus' = cstatus
    BY <1>0, <2>1 DEF TypeOK, RatingTypeOK, rvars, cvars
  <2>4. Moved(m)
    BY <1>0, <2>1, <2>2, <2>3 DEF Moved, TypeOK, LadderTypeOK
  <2>5. Beside(m)
    BY <1>00, <2>1, <2>2 DEF Beside, cvars
  <2> QED BY <2>4, <2>5
<1>7. ASSUME dispute[m] = "open", CloseDispute(m), match'[m].status # "disputed",
             UNCHANGED <<creator, crated, conf, walkover, raised, entering>>
      PROVE  Beside(m)
  BY <1>00, <1>7 DEF Beside, CloseDispute
<1>8. ASSUME NEW winner \in Sides, NEW ask \in Asks(m), ResolveRated(m, winner, ask)
      PROVE  Moved(m) /\ Beside(m)
  <2> DEFINE row == [match[m] EXCEPT !.winner = winner]
  <2>1. row \in MatchRows /\ row.forfeit = match[m].forfeit
    BY <1>0 DEF MatchRows
  <2>2. ApplyResult(m, row, ask, "completed") /\ Status(m) # "none"
    BY <1>0, <1>8 DEF ResolveRated, QueuedHasMatch
  <2> HIDE DEF row
  <2>3. Moved(m)
    BY <1>0, <2>1, <2>2, AsksType, ApplyMoves
  <2>4. match'[m].status = "confirmed"
    <3>1. match' = [match EXCEPT ![m] = [row EXCEPT !.status = "confirmed"]]
      BY <2>2 DEF ApplyResult, SetMatch
    <3> QED BY <1>0, <2>1, <3>1 DEF TypeOK, LadderTypeOK, MatchRows
  <2> QED BY <1>7, <1>8, <2>3, <2>4 DEF ResolveRated
<1>9. ASSUME ResolveVoided(m) PROVE Moved(m) /\ Beside(m)
  <2>1. VoidMatchRow(m)
    BY <1>9 DEF ResolveVoided
  <2>2. match'[m].status = "voided"
    BY <1>0, <2>1 DEF VoidMatchRow, SetMatch, TypeOK, LadderTypeOK, MatchRows
  <2> QED BY <1>0, <1>7, <1>9, <2>1, <2>2, VoidMoves DEF ResolveVoided
<1>10. ASSUME ResolveCasual(m) PROVE Moved(m) /\ Beside(m)
  BY <1>4, <1>7, <1>10 DEF ResolveCasual
<1> QED BY <1>1, <1>2, <1>3, <1>5, <1>6, <1>8, <1>9, <1>10 DEF MatchStep

-----------------------------------------------------------------------------
(* Steps on a challenge, a season, a direct match, a walkover.             *)

\* The parts of the invariant that a change of the challenge table can disturb.
Agreed == /\ ChallengeTypeOK
          /\ PlayedByAgreement
          /\ HeldByClaim
          /\ OpenUnplayed
          /\ OpenUnrefused

\* Creating, answering, cancelling and expiring a challenge.
LEMMA ChallengeStepKeeps ==
  ASSUME LadderInv, ChallengeStep
  PROVE  LadderInv'
<1> USE DEF LadderInv
<1>0. UNCHANGED <<rvars, mvars, walkover, dvars, entering>>
  BY DEF ChallengeStep
<1>1. Agreed /\ ChallengeTypeOK
  BY DEF Agreed, TypeOK
<1>2. \A c \in Challenges : Status(c)' = Status(c) /\ walkover'[c] = walkover[c]
  BY <1>0 DEF mvars, Status
<1> USE DEF Agreed, ChallengeTypeOK, CStatuses, Active, Open, Dead, Confirmations, SetStatus,
        PlayedByAgreement, HeldByClaim, OpenUnplayed, OpenUnrefused
<1>3. ASSUME NEW c \in Challenges, NEW r \in BOOLEAN, CreateChallenge(c, r) PROVE Agreed'
  <2> DEFINE me == Challenger[c]
             answers == [p \in Players |-> IF p = me THEN "accepted"
                            ELSE IF p \in Participants(c) THEN "pending" ELSE "none"]
  <2>1. /\ cstatus[c] = "none" /\ cstatus' = [cstatus EXCEPT ![c] = "proposed"]
        /\ creator' = [creator EXCEPT ![c] = me] /\ crated' = [crated EXCEPT ![c] = r]
        /\ conf' = [conf EXCEPT ![c] = answers]
    BY <1>3 DEF CreateChallenge
  <2>2. me \in Players /\ Participants(c) \subseteq Players
    BY TeamAssumption DEF Participants
  <2>3. answers \in [Players -> Confirmations]
        /\ \A p \in Participants(c) : answers[p] \in {"accepted", "pending"}
    BY <2>2
  <2> HIDE DEF answers, me
  <2> QED BY <1>1, <1>2, <2>1, <2>2, <2>3
<1>4. ASSUME NEW c \in Challenges, NEW r \in BOOLEAN, NEW by \in Admins \cup {NoPlayer},
             AdminCreateChallenge(c, r, by)
      PROVE  Agreed'
  <2> DEFINE answers == [p \in Players |-> IF p \in Participants(c) THEN "accepted" ELSE "none"]
  <2>1. /\ cstatus[c] = "none" /\ cstatus' = [cstatus EXCEPT ![c] = "accepted"]
        /\ creator' = [creator EXCEPT ![c] = by] /\ crated' = [crated EXCEPT ![c] = r]
        /\ conf' = [conf EXCEPT ![c] = answers]
    BY <1>4 DEF AdminCreateChallenge
  <2>2. Participants(c) \subseteq Players
    BY TeamAssumption DEF Participants
  <2>3. answers \in [Players -> Confirmations]
        /\ \A p \in Participants(c) : answers[p] = "accepted"
    BY <2>2
  <2> HIDE DEF answers
  <2>0. by \in Players \cup {NoPlayer}
    BY LadderAssumption
  <2>4. ChallengeTypeOK'
    BY <1>1, <2>0, <2>1, <2>3
  <2>5. \A d \in Challenges \ {c} : cstatus'[d] = cstatus[d] /\ conf'[d] = conf[d]
    BY <1>1, <2>1
  <2>6. cstatus'[c] = "accepted" /\ \A p \in Participants(c) : conf'[c][p] = "accepted"
    BY <1>1, <2>1, <2>3
  <2>7. walkover[c].status # "pending"
    BY <1>1, <2>1
  <2>8. PlayedByAgreement'
    BY <1>1, <1>2, <2>5, <2>6
  <2>9. HeldByClaim' /\ OpenUnplayed'
    BY <1>1, <1>2, <2>5, <2>6, <2>7
  <2>10. OpenUnrefused'
    BY <1>1, <2>5, <2>6
  <2> QED BY <2>4, <2>8, <2>9, <2>10
<1>5. ASSUME NEW c \in Challenges, NEW p \in Players, NEW answer \in {"accepted", "rejected"},
             Respond(c, p, answer)
      PROVE  Agreed'
  <2> DEFINE new == IF answer = "rejected" THEN "rejected"
                    ELSE IF \E q \in Players \ {p} : conf[c][q] = "pending"
                         THEN "partially_confirmed" ELSE "accepted"
  <2>1. /\ cstatus[c] \in Open /\ conf[c][p] = "pending"
        /\ conf' = [conf EXCEPT ![c] = [conf[c] EXCEPT ![p] = answer]]
        /\ cstatus' = [cstatus EXCEPT ![c] = new]
        /\ UNCHANGED <<creator, crated>>
    BY <1>5 DEF Respond
  <2>2. Participants(c) \subseteq Players
    BY TeamAssumption DEF Participants
  <2>3. new \in {"rejected", "partially_confirmed", "accepted"}
    OBVIOUS
  <2>4. ASSUME new = "accepted" PROVE \A q \in Participants(c) : conf'[c][q] = "accepted"
    BY <1>1, <2>1, <2>2, <2>4
  <2>5. ASSUME new = "partially_confirmed"
        PROVE  \A q \in Participants(c) : conf'[c][q] \in {"accepted", "pending"}
    BY <1>1, <2>1, <2>2, <2>5
  <2> HIDE DEF new
  <2>6. ChallengeTypeOK'
    BY <1>1, <2>1, <2>3
  <2>7. \A d \in Challenges \ {c} : cstatus'[d] = cstatus[d] /\ conf'[d] = conf[d]
    BY <1>1, <2>1
  <2>8. cstatus'[c] = new /\ Status(c) = "none"
    BY <1>1, <2>1
  <2>9. PlayedByAgreement'
    BY <1>1, <1>2, <2>4, <2>7, <2>8
  <2>10. walkover[c].status # "pending"
    BY <1>1, <2>1
  <2>11. HeldByClaim' /\ OpenUnplayed'
    BY <1>1, <1>2, <2>7, <2>8, <2>10
  <2>12. OpenUnrefused'
    BY <1>1, <2>3, <2>5, <2>7, <2>8
  <2> QED BY <2>6, <2>9, <2>11, <2>12
\* The three ways of ending a challenge end it and leave the answers alone.
<1>ended. ASSUME cstatus' \in [Challenges -> CStatuses], UNCHANGED <<creator, crated, conf>>,
                 \A d \in Challenges :
                     \/ cstatus'[d] = cstatus[d]
                     \/ cstatus'[d] = "expired"
                     \/ cstatus[d] \in Open /\ cstatus'[d] = "cancelled"
          PROVE  Agreed'
  <2>1. ChallengeTypeOK'
    BY <1>1, <1>ended
  <2>2. PlayedByAgreement'
    BY <1>1, <1>2, <1>ended
  <2>3. HeldByClaim'
    BY <1>1, <1>2, <1>ended
  <2>4. OpenUnplayed'
    BY <1>1, <1>2, <1>ended
  <2>5. OpenUnrefused'
    BY <1>1, <1>ended
  <2> QED BY <2>1, <2>2, <2>3, <2>4, <2>5
<1>6. ASSUME NEW c \in Challenges, CancelChallenge(c) PROVE Agreed'
  <2>1. /\ cstatus' \in [Challenges -> CStatuses] /\ UNCHANGED <<creator, crated, conf>>
        /\ \A d \in Challenges : \/ cstatus'[d] = cstatus[d]
                                 \/ cstatus[d] \in Open /\ cstatus'[d] = "cancelled"
    BY <1>1, <1>6 DEF CancelChallenge
  <2> QED BY <2>1, <1>ended
<1>7. ASSUME NEW c \in Challenges, ForceExpireChallenge(c) PROVE Agreed'
  <2>1. /\ cstatus' \in [Challenges -> CStatuses] /\ UNCHANGED <<creator, crated, conf>>
        /\ \A d \in Challenges : cstatus'[d] = cstatus[d] \/ cstatus'[d] = "expired"
    BY <1>1, <1>7 DEF ForceExpireChallenge
  <2> QED BY <2>1, <1>ended
<1>8. ASSUME NEW S \in SUBSET Challenges, ExpireChallenges(S) PROVE Agreed'
  <2>1. /\ cstatus' \in [Challenges -> CStatuses] /\ UNCHANGED <<creator, crated, conf>>
        /\ \A d \in Challenges : cstatus'[d] = cstatus[d] \/ cstatus'[d] = "expired"
    BY <1>1, <1>8 DEF ExpireChallenges
  <2> QED BY <2>1, <1>ended
<1>9. Agreed'
  BY <1>3, <1>4, <1>5, <1>6, <1>7, <1>8 DEF ChallengeStep
<1>10. RatingTypeOK' /\ LadderTypeOK'
  BY <1>0 DEF TypeOK, RatingTypeOK, LadderTypeOK, rvars, mvars, dvars
<1>11. NoBuriedResult' /\ ForfeitAnswered' /\ DisputedIsQueued'
       /\ UnconfirmedMovesNoRating' /\ QueuedHasMatch'
  BY <1>0 DEF NoBuriedResult, ForfeitAnswered, DisputedIsQueued, UnconfirmedMovesNoRating,
              QueuedHasMatch, mvars, dvars, Status
<1> QED BY <1>9, <1>10, <1>11 DEF TypeOK

\* A rollover touches no challenge and no match.
LEMMA SeasonStepKeeps ==
  ASSUME LadderInv, SeasonStep
  PROVE  LadderInv'
<1>1. PICK s \in Seasons, policy \in Policies, mean \in Lo..Hi, k \in 0..Grain :
          Season(s, policy, mean, k)
  BY RatingAssumption DEF SeasonStep, Policies
<1>2. UNCHANGED <<cvars, mvars, walkover, dvars, entering>> /\ ActivateSeason(s, policy, mean, k)
  BY <1>1 DEF Season
<1>3. RatingTypeOK
  BY DEF LadderInv, TypeOK
<1>4. mean \in Int /\ k \in Int
  BY RatingAssumption
<1>5. Reset(policy, mean, k) \in [Players -> Int]
  BY <1>3, <1>4, ResetType
<1>6. RatingTypeOK'
  BY <1>2, <1>3, <1>5 DEF ActivateSeason, RatingTypeOK, BookStates
<1>7. ChallengeTypeOK' /\ LadderTypeOK'
  BY <1>2 DEF LadderInv, TypeOK, ChallengeTypeOK, LadderTypeOK, cvars, mvars, dvars
<1> QED BY <1>2, <1>6, <1>7 DEF LadderInv, TypeOK, NoBuriedResult, ForfeitAnswered,
           PlayedByAgreement, DisputedIsQueued, UnconfirmedMovesNoRating, HeldByClaim,
           QueuedHasMatch, OpenUnplayed, OpenUnrefused, Status, cvars, mvars, dvars

\* A direct match belongs to no challenge.
LEMMA DirectApart == ASSUME NEW m \in DirectMatches PROVE m \in Matches /\ m \notin Challenges
  BY TeamAssumption

\* A row that stands for no match is a row of the table.
LEMMA NoRowType == NoRow \in MatchRows
  BY DEF NoRow, MatchRows, MStatuses, Events, Sides

\* The requests of adminCreateMatch.
LEMMA DirectStepKeeps ==
  ASSUME LadderInv, NEW m \in DirectMatches, DirectStep(m)
  PROVE  LadderInv'
<1> USE DEF LadderInv
<1>0. TypeOK /\ m \in Matches /\ m \notin Challenges /\ match[m] \in MatchRows
  BY DirectApart DEF TypeOK, LadderTypeOK
<1>1. ASSUME NEW rated \in BOOLEAN, NEW winner \in Sides, DirectInsert(m, rated, winner)
      PROVE  LadderInv'
  <2> DEFINE row == [NoRow EXCEPT
                       !.status = IF rated THEN "pending_confirmation" ELSE "incomplete",
                       !.season = active, !.event = "admin_entered",
                       !.rated = rated, !.winner = winner]
  <2>1. row \in MatchRows /\ row.status \in {"pending_confirmation", "incomplete"}
    BY <1>0, NoRowType DEF MatchRows, MStatuses, Events, TypeOK, RatingTypeOK
  <2>2. /\ Status(m) = "none" /\ match' = [match EXCEPT ![m] = row]
        /\ entering' = [entering EXCEPT ![m] = IF rated THEN "rated" ELSE "unrated"]
        /\ UNCHANGED <<cvars, rvars, delta, walkover, dvars>>
    BY <1>1 DEF DirectInsert, SetMatch
  <2> HIDE DEF row
  <2>3. \A n \in Matches \ {m} : match'[n] = match[n]
    BY <1>0, <2>2 DEF TypeOK, LadderTypeOK
  <2>4. match'[m] = row
    BY <1>0, <2>2 DEF TypeOK, LadderTypeOK
  <2>5. TypeOK'
    BY <1>0, <2>1, <2>2 DEF TypeOK, ChallengeTypeOK, RatingTypeOK, LadderTypeOK, cvars, rvars, dvars
  <2>6. \A c \in Challenges : match'[c] = match[c]
    BY <1>0, <2>3
  <2>7. NoBuriedResult' /\ ForfeitAnswered' /\ PlayedByAgreement' /\ HeldByClaim'
        /\ OpenUnplayed' /\ OpenUnrefused'
    BY <2>2, <2>6 DEF NoBuriedResult, ForfeitAnswered, PlayedByAgreement, HeldByClaim,
                      OpenUnplayed, OpenUnrefused, Status, cvars
  <2>8. DisputedIsQueued' /\ QueuedHasMatch' /\ UnconfirmedMovesNoRating'
    BY <1>0, <2>1, <2>2, <2>3, <2>4
       DEF DisputedIsQueued, QueuedHasMatch, UnconfirmedMovesNoRating, Status, dvars, Zero
  <2> QED BY <2>5, <2>7, <2>8
<1>2. ASSUME NEW ask \in Asks(m), DirectFinish(m, ask) PROVE LadderInv'
  <2>1. /\ UNCHANGED <<creator, crated, conf, walkover, dvars>>
        /\ entering' = [entering EXCEPT ![m] = "no"]
    BY <1>2 DEF DirectFinish
  <2>2. CASE ApplyResult(m, match[m], ask, "completed")
    <3>1. Moved(m)
      BY <1>0, <2>2, AsksType, ApplyMoves
    <3>2. match' = [match EXCEPT ![m] = [match[m] EXCEPT !.status = "confirmed"]]
      BY <2>2 DEF ApplyResult, SetMatch
    <3>3. match'[m].status = "confirmed"
      BY <1>0, <3>2 DEF TypeOK, LadderTypeOK, MatchRows
    <3>4. Beside(m)
      BY <1>0, <2>1, <3>3 DEF Beside, TypeOK, LadderTypeOK, dvars
    <3> QED BY <1>0, <3>1, <3>4, MovedKeeps
  <2>3. CASE SetMatch(m, [match[m] EXCEPT !.status = "confirmed"])
             /\ UNCHANGED <<cstatus, rvars, delta>>
    <3>1. /\ match' \in [Matches -> MatchRows] /\ match'[m].status = "confirmed"
          /\ match'[m].forfeit = match[m].forfeit
          /\ \A n \in Matches \ {m} : match'[n] = match[n]
      BY <1>0, <2>3 DEF SetMatch, TypeOK, LadderTypeOK, MatchRows, MStatuses
    <3>2. Moved(m)
      BY <1>0, <2>3, <3>1 DEF Moved, TypeOK, RatingTypeOK, LadderTypeOK, rvars
    <3>3. Beside(m)
      BY <1>0, <2>1, <3>1 DEF Beside, TypeOK, LadderTypeOK, dvars
    <3> QED BY <1>0, <3>2, <3>3, MovedKeeps
  <2> QED BY <1>2, <2>2, <2>3 DEF DirectFinish
<1>3. ASSUME DirectDiscard(m) PROVE LadderInv'
  <2>1. /\ entering' = [entering EXCEPT ![m] = "no"]
        /\ UNCHANGED <<cvars, rvars, delta, walkover, raised>>
        /\ \/ match' = match /\ dispute' = dispute
           \/ /\ Status(m) \in {"pending_confirmation", "incomplete"}
              /\ match' = [match EXCEPT ![m] = NoRow]
              /\ dispute' = [dispute EXCEPT ![m] = "none"]
    BY <1>3 DEF DirectDiscard, SetMatch
  <2>2. TypeOK'
    <3>1. ChallengeTypeOK' /\ RatingTypeOK'
      BY <1>0, <2>1 DEF TypeOK, ChallengeTypeOK, RatingTypeOK, cvars, rvars
    <3>2. match' \in [Matches -> MatchRows]
      BY <1>0, <2>1, NoRowType DEF TypeOK, LadderTypeOK
    <3>3. LadderTypeOK'
      BY <1>0, <2>1, <3>2 DEF TypeOK, LadderTypeOK
    <3> QED BY <3>1, <3>3 DEF TypeOK
  <2>3. \A n \in Matches \ {m} : match'[n] = match[n] /\ dispute'[n] = dispute[n]
    BY <1>0, <2>1 DEF TypeOK, LadderTypeOK
  <2>4. \/ match'[m] = match[m] /\ dispute'[m] = dispute[m]
        \/ match'[m].status = "none" /\ dispute'[m] = "none" /\ delta[m] = Zero
    BY <1>0, <2>1 DEF TypeOK, LadderTypeOK, NoRow, UnconfirmedMovesNoRating
  <2>5. \A c \in Challenges : match'[c] = match[c]
    BY <1>0, <2>3
  <2>6. NoBuriedResult' /\ ForfeitAnswered' /\ PlayedByAgreement' /\ HeldByClaim'
        /\ OpenUnplayed' /\ OpenUnrefused'
    BY <2>1, <2>5 DEF NoBuriedResult, ForfeitAnswered, PlayedByAgreement, HeldByClaim,
                      OpenUnplayed, OpenUnrefused, Status, cvars
  <2>7. DisputedIsQueued' /\ QueuedHasMatch'
    BY <2>3, <2>4 DEF DisputedIsQueued, QueuedHasMatch, Status
  <2>8. UnconfirmedMovesNoRating'
    BY <2>1, <2>3, <2>4 DEF UnconfirmedMovesNoRating, Status, Zero
  <2> QED BY <2>2, <2>6, <2>7, <2>8
<1>4. ASSUME DirectLost(m) PROVE LadderInv'
  <2>1. entering' = [entering EXCEPT ![m] = "no"]
        /\ UNCHANGED <<cvars, rvars, mvars, walkover, dvars>>
    BY <1>4 DEF DirectLost
  <2>2. TypeOK'
    BY <1>0, <2>1 DEF TypeOK, ChallengeTypeOK, RatingTypeOK, LadderTypeOK, cvars, rvars, mvars, dvars
  <2> QED BY <2>1, <2>2 DEF NoBuriedResult, ForfeitAnswered, PlayedByAgreement, DisputedIsQueued,
             UnconfirmedMovesNoRating, HeldByClaim, QueuedHasMatch, OpenUnplayed, OpenUnrefused,
             Status, cvars, mvars, dvars
<1> QED BY <1>1, <1>2, <1>3, <1>4 DEF DirectStep

\* Submitting a result, and the three walkover functions.
LEMMA PlayStepKeeps ==
  ASSUME LadderInv, NEW c \in Challenges, PlayStep(c)
  PROVE  LadderInv'
<1> USE DEF LadderInv
<1>0. TypeOK /\ c \in Matches /\ match[c] \in MatchRows /\ walkover[c] \in WalkoverRows
  BY DEF TypeOK, LadderTypeOK
<1>1. ASSUME NEW p \in Players, NEW done \in BOOLEAN, NEW winner \in Sides,
             SubmitResult(c, p, done, winner)
      PROVE  LadderInv'
  <2> DEFINE row == [NoRow EXCEPT
         !.status = IF done THEN "pending_confirmation" ELSE "incomplete",
         !.season = active, !.rated = crated[c], !.submitter = p, !.winner = winner,
         !.event = IF crated[c] THEN "rated_challenge" ELSE "casual"]
  <2>1. row \in MatchRows /\ ~row.forfeit /\ row.status \in {"pending_confirmation", "incomplete"}
    <3>1. crated[c] \in BOOLEAN /\ active \in Seasons \cup {NoSeason}
      BY <1>0 DEF TypeOK, RatingTypeOK, ChallengeTypeOK
    <3> QED BY <1>1, <3>1, NoRowType DEF NoRow, MatchRows, MStatuses, Events
  <2>2. /\ cstatus[c] = "accepted" /\ Status(c) = "none"
        /\ match' = [match EXCEPT ![c] = row]
        /\ UNCHANGED <<cvars, rvars, delta, walkover, dvars, entering>>
    BY <1>1 DEF SubmitResult, SetMatch
  <2> HIDE DEF row
  <2>3. match'[c] = row /\ \A n \in Matches \ {c} : match'[n] = match[n]
    BY <1>0, <2>2 DEF TypeOK, LadderTypeOK
  <2>4. TypeOK'
    BY <1>0, <2>1, <2>2 DEF TypeOK, ChallengeTypeOK, RatingTypeOK, LadderTypeOK, cvars, rvars, dvars
  <2>5. walkover[c].status \notin {"pending", "confirmed"}
    BY <2>2 DEF HeldByClaim, ForfeitAnswered
  <2>6. NoBuriedResult' /\ ForfeitAnswered'
    BY <2>1, <2>2, <2>3, <2>5 DEF NoBuriedResult, ForfeitAnswered, Status
  <2>7. PlayedByAgreement'
    BY <2>2, <2>3 DEF PlayedByAgreement, Status, cvars
  <2>8. HeldByClaim' /\ OpenUnplayed' /\ OpenUnrefused'
    BY <2>2, <2>3 DEF HeldByClaim, OpenUnplayed, OpenUnrefused, Status, cvars, Open
  <2>9. DisputedIsQueued' /\ QueuedHasMatch' /\ UnconfirmedMovesNoRating'
    BY <1>0, <2>1, <2>2, <2>3
       DEF DisputedIsQueued, QueuedHasMatch, UnconfirmedMovesNoRating, Status, dvars, Zero
  <2> QED BY <2>4, <2>6, <2>7, <2>8, <2>9
<1>2. ASSUME NEW p \in Players, NEW kind, ReportWalkover(c, p, kind) PROVE LadderInv'
  <2> DEFINE claim == [status |-> "pending", weighted |-> kind # "early",
              winner |-> IF kind = "no_show" THEN Side(c, p) ELSE Opposite(Side(c, p))]
  <2>1. claim \in WalkoverRows /\ claim.status = "pending"
    BY DEF WalkoverRows, Side, Opposite, Sides
  <2>2. /\ cstatus[c] \in {"accepted", "partially_confirmed"} /\ Status(c) = "none"
        /\ walkover' = [walkover EXCEPT ![c] = claim]
        /\ cstatus' = [cstatus EXCEPT ![c] = "walkover_pending"]
        /\ UNCHANGED <<creator, crated, conf, rvars, mvars, dvars, entering>>
    BY <1>2 DEF ReportWalkover, SetStatus
  <2> HIDE DEF claim
  <2>3. TypeOK'
    BY <1>0, <2>1, <2>2
       DEF TypeOK, ChallengeTypeOK, RatingTypeOK, LadderTypeOK, CStatuses, rvars, mvars, dvars
  <2>4. /\ walkover'[c].status = "pending" /\ cstatus'[c] = "walkover_pending"
        /\ \A d \in Challenges \ {c} : walkover'[d] = walkover[d] /\ cstatus'[d] = cstatus[d]
    BY <1>0, <2>1, <2>2 DEF TypeOK, LadderTypeOK, ChallengeTypeOK
  <2>5. match' = match /\ conf' = conf /\ delta' = delta /\ dispute' = dispute
    BY <2>2 DEF mvars, dvars
  <2>6. NoBuriedResult' /\ ForfeitAnswered'
    BY <2>2, <2>4, <2>5 DEF NoBuriedResult, ForfeitAnswered, Status
  <2>7. PlayedByAgreement'
    BY <2>2, <2>4, <2>5 DEF PlayedByAgreement, Status
  <2>8. HeldByClaim' /\ OpenUnplayed' /\ OpenUnrefused'
    BY <2>2, <2>4, <2>5 DEF HeldByClaim, OpenUnplayed, OpenUnrefused, Status, Open
  <2>9. DisputedIsQueued' /\ QueuedHasMatch' /\ UnconfirmedMovesNoRating'
    BY <2>5 DEF DisputedIsQueued, QueuedHasMatch, UnconfirmedMovesNoRating, Status
  <2> QED BY <2>3, <2>6, <2>7, <2>8, <2>9
<1>3. ASSUME NEW ask \in Asks(c), ConfirmWalkover(c, ask) PROVE LadderInv'
  <2> DEFINE rated == crated[c] /\ walkover[c].weighted
             row == [NoRow EXCEPT
                  !.status = "walkover", !.season = active, !.forfeit = TRUE,
                  !.event = IF crated[c] THEN "rated_challenge" ELSE "casual",
                  !.rated = rated, !.winner = walkover[c].winner]
  <2>1. row \in MatchRows /\ row.forfeit /\ row.status = "walkover"
    <3>1. crated[c] \in BOOLEAN /\ active \in Seasons \cup {NoSeason}
      BY <1>0 DEF TypeOK, RatingTypeOK, ChallengeTypeOK
    <3>2. rated \in BOOLEAN /\ walkover[c].winner \in Sides
      BY <1>0, <3>1 DEF WalkoverRows
    <3> HIDE DEF rated
    <3> QED BY <3>1, <3>2, NoRowType DEF MatchRows, MStatuses, Events
  <2>2. /\ walkover[c].status = "pending" /\ Status(c) = "none"
        /\ walkover' = [walkover EXCEPT ![c].status = "confirmed"]
        /\ UNCHANGED <<creator, crated, conf, dvars, entering>>
        /\ \/ ApplyResult(c, row, ask, "walkover_confirmed")
           \/ /\ match' = [match EXCEPT ![c] = row]
              /\ cstatus' = [cstatus EXCEPT ![c] = "walkover_confirmed"]
              /\ UNCHANGED <<rvars, delta>>
    BY <1>3 DEF ConfirmWalkover, SetMatch, SetStatus
  <2> HIDE DEF row
  <2>3. /\ match' \in [Matches -> MatchRows] /\ delta' \in [Matches -> [Players -> Int]]
        /\ match'[c].forfeit
        /\ \/ match'[c].status = "confirmed"
           \/ match'[c].status = "walkover" /\ delta' = delta
        /\ \A n \in Matches \ {c} : match'[n] = match[n] /\ delta'[n] = delta[n]
        /\ RatingTypeOK' /\ cstatus' = [cstatus EXCEPT ![c] = "walkover_confirmed"]
    <3>1. CASE ApplyResult(c, row, ask, "walkover_confirmed")
      <4>1. /\ match' = [match EXCEPT ![c] = [row EXCEPT !.status = "confirmed"]]
            /\ match' \in [Matches -> MatchRows] /\ delta' \in [Matches -> [Players -> Int]]
            /\ \A n \in Matches \ {c} : delta'[n] = delta[n]
            /\ RatingTypeOK' /\ cstatus' = [cstatus EXCEPT ![c] = "walkover_confirmed"]
        BY <1>0, <2>1, <3>1, AsksType, ApplyEffect
      <4> QED BY <1>0, <2>1, <4>1 DEF TypeOK, LadderTypeOK, MatchRows
    <3>2. CASE /\ match' = [match EXCEPT ![c] = row]
               /\ cstatus' = [cstatus EXCEPT ![c] = "walkover_confirmed"]
               /\ UNCHANGED <<rvars, delta>>
      BY <1>0, <2>1, <3>2 DEF TypeOK, LadderTypeOK, RatingTypeOK, rvars
    <3> QED BY <2>2, <3>1, <3>2
  <2>4. TypeOK'
    BY <1>0, <2>2, <2>3 DEF TypeOK, ChallengeTypeOK, LadderTypeOK, CStatuses, WalkoverRows, dvars
  <2>5. /\ walkover'[c].status = "confirmed" /\ cstatus'[c] = "walkover_confirmed"
        /\ \A d \in Challenges \ {c} : walkover'[d] = walkover[d] /\ cstatus'[d] = cstatus[d]
    BY <1>0, <2>2, <2>3 DEF TypeOK, LadderTypeOK, ChallengeTypeOK, WalkoverRows
  <2>6. NoBuriedResult' /\ ForfeitAnswered' /\ PlayedByAgreement'
    BY <2>2, <2>3, <2>5 DEF NoBuriedResult, ForfeitAnswered, PlayedByAgreement, Status
  <2>7. HeldByClaim' /\ OpenUnplayed' /\ OpenUnrefused'
    BY <2>2, <2>3, <2>5 DEF HeldByClaim, OpenUnplayed, OpenUnrefused, Status, Open
  <2>8. DisputedIsQueued' /\ QueuedHasMatch'
    BY <1>0, <2>2, <2>3 DEF DisputedIsQueued, QueuedHasMatch, Status, dvars
  <2>9. UnconfirmedMovesNoRating'
    BY <1>0, <2>2, <2>3 DEF UnconfirmedMovesNoRating, Status, Zero
  <2> QED BY <2>4, <2>6, <2>7, <2>8, <2>9
<1>4. ASSUME RejectWalkover(c) PROVE LadderInv'
  <2>1. /\ walkover[c].status = "pending"
        /\ walkover' = [walkover EXCEPT ![c].status = "rejected"]
        /\ \/ cstatus' = cstatus
           \/ cstatus[c] = "walkover_pending" /\ cstatus' = [cstatus EXCEPT ![c] = "accepted"]
        /\ cstatus[c] = "walkover_pending" => cstatus'= [cstatus EXCEPT ![c] = "accepted"]
        /\ UNCHANGED <<creator, crated, conf, rvars, mvars, dvars, entering>>
    BY <1>4 DEF RejectWalkover
  <2>2. TypeOK'
    BY <1>0, <2>1 DEF TypeOK, ChallengeTypeOK, RatingTypeOK, LadderTypeOK, CStatuses, Active,
                      WalkoverRows, rvars, mvars, dvars
  <2>3. /\ walkover'[c].status = "rejected" /\ cstatus'[c] \in {"accepted", "expired"}
        /\ \A d \in Challenges \ {c} : walkover'[d] = walkover[d] /\ cstatus'[d] = cstatus[d]
    BY <1>0, <2>1 DEF TypeOK, LadderTypeOK, ChallengeTypeOK, WalkoverRows, HeldByClaim
  <2>4. Status(c) = "none" /\ \A n \in Matches : Status(n)' = Status(n)
    BY <2>1 DEF NoBuriedResult, mvars, Status
  <2>5. match' = match /\ conf' = conf /\ delta' = delta /\ dispute' = dispute
    BY <2>1 DEF mvars, dvars
  <2>6. NoBuriedResult' /\ ForfeitAnswered' /\ PlayedByAgreement'
    BY <1>0, <2>3, <2>4, <2>5 DEF NoBuriedResult, ForfeitAnswered, PlayedByAgreement
  <2>7. HeldByClaim' /\ OpenUnplayed' /\ OpenUnrefused'
    BY <1>0, <2>3, <2>4, <2>5 DEF HeldByClaim, OpenUnplayed, OpenUnrefused, Open
  <2>8. DisputedIsQueued' /\ QueuedHasMatch' /\ UnconfirmedMovesNoRating'
    BY <2>4, <2>5 DEF DisputedIsQueued, QueuedHasMatch, UnconfirmedMovesNoRating
  <2> QED BY <2>2, <2>6, <2>7, <2>8
<1> QED BY <1>1, <1>2, <1>3, <1>4 DEF PlayStep

-----------------------------------------------------------------------------
(* The theorems.                                                           *)

\* The club starts with empty tables.
LEMMA InitInv == Init => LadderInv
<1> SUFFICES ASSUME Init PROVE LadderInv
  OBVIOUS
<1>1. /\ \A c \in Challenges : cstatus[c] = "none" /\ walkover[c].status = "none"
      /\ \A m \in Matches : match[m] = NoRow /\ delta[m] = Zero /\ dispute[m] = "none"
  BY DEF Init, ChallengeInit
<1>2. \A m \in Matches : Status(m) = "none" /\ ~match[m].forfeit
  BY <1>1 DEF Status, NoRow
<1>3. ChallengeTypeOK
  BY DEF Init, ChallengeInit, ChallengeTypeOK, CStatuses, Confirmations
<1>4. RatingTypeOK
  BY RatingAssumption DEF Init, RatingInit, RatingTypeOK, Zero, BookStates
<1>5. LadderTypeOK
  BY NoRowType DEF Init, LadderTypeOK, WalkoverRows, Sides, Zero
<1>6. PlayedByAgreement /\ HeldByClaim /\ OpenUnplayed /\ OpenUnrefused
  BY <1>1, <1>2 DEF PlayedByAgreement, HeldByClaim, OpenUnplayed, OpenUnrefused, Open
<1>7. NoBuriedResult /\ ForfeitAnswered /\ DisputedIsQueued /\ UnconfirmedMovesNoRating
      /\ QueuedHasMatch
  BY <1>1, <1>2 DEF NoBuriedResult, ForfeitAnswered, DisputedIsQueued,
                    UnconfirmedMovesNoRating, QueuedHasMatch
<1> QED BY <1>3, <1>4, <1>5, <1>6, <1>7 DEF LadderInv, TypeOK

\* Every step of the club, and every step of anything else, keeps the invariant.
LEMMA NextInv == LadderInv /\ [Next]_vars => LadderInv'
<1> SUFFICES ASSUME LadderInv, [Next]_vars PROVE LadderInv'
  OBVIOUS
<1>1. CASE ChallengeStep
  BY <1>1, ChallengeStepKeeps
<1>2. CASE SeasonStep
  BY <1>2, SeasonStepKeeps
<1>3. ASSUME NEW m \in Matches, MatchStep(m) PROVE LadderInv'
  BY <1>3, MatchStepMoves, MovedKeeps
<1>4. ASSUME NEW m \in DirectMatches, DirectStep(m) PROVE LadderInv'
  BY <1>4, DirectStepKeeps
<1>5. ASSUME NEW c \in Challenges, PlayStep(c) PROVE LadderInv'
  BY <1>5, PlayStepKeeps
<1>6. CASE UNCHANGED vars
  BY <1>6 DEF vars, cvars, rvars, mvars, dvars, LadderInv, TypeOK, ChallengeTypeOK, RatingTypeOK,
     LadderTypeOK, NoBuriedResult, ForfeitAnswered, PlayedByAgreement, DisputedIsQueued,
     UnconfirmedMovesNoRating, HeldByClaim, QueuedHasMatch, OpenUnplayed, OpenUnrefused, Status
<1> QED BY <1>1, <1>2, <1>3, <1>4, <1>5, <1>6 DEF Next

\* The invariant holds in every reachable state.
THEOREM Invariant == Spec => []LadderInv
  BY InitInv, NextInv, PTL DEF Spec

\* Every table keeps its type, the rating arithmetic included.
THEOREM TypeCorrect == Spec => []TypeOK
<1>1. LadderInv => TypeOK
  BY DEF LadderInv
<1> QED BY <1>1, Invariant, PTL

\* report_walkover_atomic, submit_match_result_for and the console never leave
\* a forfeit claim on top of a result.
THEOREM ResultsAreNeverBuried == Spec => []NoBuriedResult
<1>1. LadderInv => NoBuriedResult
  BY DEF LadderInv
<1> QED BY <1>1, Invariant, PTL

\* A confirmed walkover and a forfeited match are one event.
THEOREM ForfeitsAreAnswered == Spec => []ForfeitAnswered
<1>1. LadderInv => ForfeitAnswered
  BY DEF LadderInv
<1> QED BY <1>1, Invariant, PTL

\* Nobody is drawn into a match without having agreed to it, except through a
\* refused or granted forfeit.
THEOREM PlayNeedsAgreement == Spec => []PlayedByAgreement
<1>1. LadderInv => PlayedByAgreement
  BY DEF LadderInv
<1> QED BY <1>1, Invariant, PTL

\* A disputed match never falls off the dispute queue.
THEOREM DisputesStayQueued == Spec => []DisputedIsQueued
<1>1. LadderInv => DisputedIsQueued
  BY DEF LadderInv
<1> QED BY <1>1, Invariant, PTL

\* An unconfirmed result holds no rating change.
THEOREM UnconfirmedIsUnrated == Spec => []UnconfirmedMovesNoRating
<1>1. LadderInv => UnconfirmedMovesNoRating
  BY DEF LadderInv
<1> QED BY <1>1, Invariant, PTL

-----------------------------------------------------------------------------
(* The ladder implements ChallengeOutcome.                                 *)

\* The requests of adminCreateMatch touch no challenge match and no walkover.
LEMMA DirectStepApart ==
  ASSUME LadderInv, NEW m \in DirectMatches, DirectStep(m)
  PROVE  walkover' = walkover /\ cstatus' = cstatus /\ \A c \in Challenges : match'[c] = match[c]
<1>1. m \in Matches /\ m \notin Challenges /\ match \in [Matches -> MatchRows]
  BY DirectApart DEF LadderInv, TypeOK, LadderTypeOK
<1>2. walkover' = walkover
  BY DEF DirectStep, DirectInsert, DirectFinish, DirectDiscard, DirectLost
<1>3. cstatus' = cstatus
  BY <1>1 DEF DirectStep, DirectInsert, DirectFinish, DirectDiscard, DirectLost, ApplyResult,
              SetChallenge, cvars
<1>4. match' = match \/ \E row : match' = [match EXCEPT ![m] = row]
  BY DEF DirectStep, DirectInsert, DirectFinish, DirectDiscard, DirectLost, ApplyResult,
         SetMatch, mvars
<1> QED BY <1>1, <1>2, <1>3, <1>4

\* What SubmitResult, ReportWalkover, ConfirmWalkover and RejectWalkover do to
\* the outcome of their challenge, and to no other.
LEMMA PlayStepOutcome ==
  ASSUME LadderInv, NEW c \in Challenges, PlayStep(c)
  PROVE  /\ \A d \in Challenges \ {c} : OutcomeOf(d)' = OutcomeOf(d)
         /\ \/ OutcomeOf(c) = "none" /\ OutcomeOf(c)' = "played"
            \/ OutcomeOf(c) = "none" /\ OutcomeOf(c)' = "claimed"
            \/ OutcomeOf(c) = "claimed" /\ OutcomeOf(c)' = "none"
            \/ OutcomeOf(c) = "claimed" /\ OutcomeOf(c)' = "forfeited"
<1>0. /\ match \in [Matches -> MatchRows] /\ walkover \in [Challenges -> WalkoverRows]
      /\ HeldByClaim /\ NoBuriedResult
  BY DEF LadderInv, TypeOK, LadderTypeOK
<1> USE DEF OutcomeOf, Status
<1>1. ASSUME NEW p, NEW done \in BOOLEAN, NEW winner \in Sides, SubmitResult(c, p, done, winner)
      PROVE  /\ \A d \in Challenges \ {c} : OutcomeOf(d)' = OutcomeOf(d)
             /\ OutcomeOf(c) = "none" /\ OutcomeOf(c)' = "played"
  <2>1. /\ match'[c].status \in {"pending_confirmation", "incomplete"} /\ ~match'[c].forfeit
        /\ \A d \in Challenges \ {c} : match'[d] = match[d]
    BY <1>0, <1>1 DEF SubmitResult, SetMatch, NoRow
  <2>2. walkover' = walkover /\ walkover[c].status # "pending" /\ Status(c) = "none"
    BY <1>0, <1>1 DEF SubmitResult, HeldByClaim
  <2> QED BY <2>1, <2>2
<1>2. ASSUME NEW p, NEW kind, ReportWalkover(c, p, kind)
      PROVE  /\ \A d \in Challenges \ {c} : OutcomeOf(d)' = OutcomeOf(d)
             /\ OutcomeOf(c) = "none" /\ OutcomeOf(c)' = "claimed"
  <2>1. /\ walkover'[c].status = "pending" /\ match' = match /\ Status(c) = "none"
        /\ walkover[c].status # "pending"
        /\ \A d \in Challenges \ {c} : walkover'[d] = walkover[d]
    BY <1>0, <1>2 DEF ReportWalkover, mvars
  <2> QED BY <2>1
<1>3. ASSUME NEW ask \in Asks(c), ConfirmWalkover(c, ask)
      PROVE  /\ \A d \in Challenges \ {c} : OutcomeOf(d)' = OutcomeOf(d)
             /\ OutcomeOf(c) = "claimed" /\ OutcomeOf(c)' = "forfeited"
  <2>1. /\ walkover[c].status = "pending" /\ Status(c) = "none"
        /\ \A d \in Challenges \ {c} : walkover'[d] = walkover[d]
    BY <1>0, <1>3 DEF ConfirmWalkover
  <2> DEFINE rated == crated[c] /\ walkover[c].weighted
             row == [NoRow EXCEPT
                  !.status = "walkover", !.season = active, !.forfeit = TRUE,
                  !.event = IF crated[c] THEN "rated_challenge" ELSE "casual",
                  !.rated = rated, !.winner = walkover[c].winner]
  <2>2. match' = [match EXCEPT ![c] = row] \/ match' = [match EXCEPT ![c] = [row EXCEPT !.status = "confirmed"]]
    BY <1>3 DEF ConfirmWalkover, ApplyResult, SetMatch
  <2>3. /\ match'[c].status # "none" /\ match'[c].forfeit
        /\ \A d \in Challenges \ {c} : match'[d] = match[d]
    <3>1. /\ c \in Matches /\ c \in DOMAIN match
          /\ \A d \in Challenges \ {c} : d \in DOMAIN match /\ d # c
      BY <1>0 DEF Matches
    <3>2. /\ row.status = "walkover" /\ row.forfeit
          /\ [row EXCEPT !.status = "confirmed"].status = "confirmed"
          /\ [row EXCEPT !.status = "confirmed"].forfeit
      BY DEF NoRow
    <3> HIDE DEF row
    <3>3. CASE match' = [match EXCEPT ![c] = row]
      BY <3>1, <3>2, <3>3
    <3>4. CASE match' = [match EXCEPT ![c] = [row EXCEPT !.status = "confirmed"]]
      BY <3>1, <3>2, <3>4
    <3> QED BY <2>2, <3>3, <3>4
  <2> QED BY <2>1, <2>3
<1>4. ASSUME RejectWalkover(c)
      PROVE  /\ \A d \in Challenges \ {c} : OutcomeOf(d)' = OutcomeOf(d)
             /\ OutcomeOf(c) = "claimed" /\ OutcomeOf(c)' = "none"
  <2>1. /\ walkover[c].status = "pending" /\ walkover'[c].status = "rejected" /\ match' = match
        /\ \A d \in Challenges \ {c} : walkover'[d] = walkover[d]
    BY <1>0, <1>4 DEF RejectWalkover, mvars, WalkoverRows
  <2>2. Status(c) = "none"
    BY <1>0, <2>1 DEF NoBuriedResult
  <2> QED BY <2>1, <2>2
<1> QED BY <1>1, <1>2, <1>3, <1>4 DEF PlayStep

\* Every step of the ladder is a step of ChallengeOutcome or changes no outcome.
LEMMA OutcomeStep ==
  LadderInv /\ [Next]_vars => [Promise!OutcomeNext]_[c \in Challenges |-> OutcomeOf(c)]
<1> SUFFICES ASSUME LadderInv, [Next]_vars
             PROVE  [Promise!OutcomeNext]_[c \in Challenges |-> OutcomeOf(c)]
  OBVIOUS
<1>1. ASSUME walkover' = walkover, \A c \in Challenges : Status(c)' = Status(c)
                                       \/ (Status(c) # "none" /\ Status(c)' # "none"),
             \A c \in Challenges : match'[c].forfeit = match[c].forfeit
      PROVE  UNCHANGED [c \in Challenges |-> OutcomeOf(c)]
  BY <1>1 DEF OutcomeOf
<1>2. ASSUME walkover' = walkover, \A c \in Challenges : match'[c] = match[c]
      PROVE  UNCHANGED [c \in Challenges |-> OutcomeOf(c)]
  BY <1>2 DEF OutcomeOf, Status
<1>3. CASE ChallengeStep
  BY <1>2, <1>3 DEF ChallengeStep, mvars
<1>4. CASE SeasonStep
  BY <1>2, <1>4 DEF SeasonStep, Season, mvars
<1>5. ASSUME NEW m \in Matches, MatchStep(m)
      PROVE  UNCHANGED [c \in Challenges |-> OutcomeOf(c)]
  <2>1. Moved(m) /\ Beside(m)
    BY <1>5, MatchStepMoves
  <2> QED BY <1>1, <2>1 DEF Moved, Beside, Status
<1>6. ASSUME NEW m \in DirectMatches, DirectStep(m)
      PROVE  UNCHANGED [c \in Challenges |-> OutcomeOf(c)]
  BY <1>2, <1>6, DirectStepApart
<1>7. ASSUME NEW c \in Challenges, PlayStep(c) PROVE Promise!OutcomeNext
  <2> DEFINE old == [d \in Challenges |-> OutcomeOf(d)]
             new == [d \in Challenges |-> OutcomeOf(d)']
  <2>1. new = [old EXCEPT ![c] = OutcomeOf(c)'] /\ old[c] = OutcomeOf(c)
    BY <1>7, PlayStepOutcome
  <2>2. \/ old[c] = "none" /\ new = [old EXCEPT ![c] = "played"]
        \/ old[c] = "none" /\ new = [old EXCEPT ![c] = "claimed"]
        \/ old[c] = "claimed" /\ new = [old EXCEPT ![c] = "none"]
        \/ old[c] = "claimed" /\ new = [old EXCEPT ![c] = "forfeited"]
    BY <1>7, <2>1, PlayStepOutcome
  <2> QED BY <2>2 DEF Promise!OutcomeNext, Promise!Become
<1>8. CASE UNCHANGED vars
  BY <1>2, <1>8 DEF vars, mvars
<1> QED BY <1>3, <1>4, <1>5, <1>6, <1>7, <1>8 DEF Next

\* A challenge ends in at most one outcome, whatever its status column says.
THEOREM LadderKeepsPromise == Spec => OneOutcomePerChallenge
<1>1. Init => Promise!OutcomeInit
  BY DEF Init, OutcomeOf, Status, NoRow, Promise!OutcomeInit
<1> QED BY <1>1, OutcomeStep, Invariant, PTL
           DEF Spec, OneOutcomePerChallenge, Promise!OutcomeSpec

-----------------------------------------------------------------------------
(* What a step may never do.                                               *)

\* No single step brings a voided challenge match back, but for an open dispute.
LEMMA VoidedStays ==
  ASSUME LadderInv, [Next]_vars, NEW c \in Challenges,
         Status(c) = "voided", dispute[c] # "open"
  PROVE  match'[c].status = "voided"
<1>0. /\ match \in [Matches -> MatchRows] /\ match[c] \in MatchRows /\ c \in Matches
      /\ c \notin DirectMatches /\ match[c].status = "voided"
  BY TeamAssumption DEF LadderInv, TypeOK, LadderTypeOK, Status
<1>1. ASSUME match' = match PROVE match'[c].status = "voided"
  BY <1>0, <1>1
<1>2. CASE ChallengeStep \/ SeasonStep \/ UNCHANGED vars
  BY <1>1, <1>2 DEF ChallengeStep, SeasonStep, Season, vars, mvars
<1>3. ASSUME NEW m \in Matches, MatchStep(m) PROVE match'[c].status = "voided"
  <2>1. CASE m # c
    BY <1>0, <1>3, <2>1, MatchStepMoves DEF Moved
  <2>2. CASE m = c
    <3>1. VoidMatch(c) \/ ConvertMatch(c)
      BY <1>3, <2>2 DEF MatchStep, ConfirmResult, BoostMatch, DisputeResult, ResolveRated,
                        ResolveVoided, ResolveCasual
    <3>2. CASE VoidMatchRow(c)
      BY <1>0, <3>2 DEF VoidMatchRow, SetMatch
    <3>3. CASE ConvertMatchRow(c)
      <4> DEFINE casual == [match[c] EXCEPT !.rated = FALSE, !.event = "casual"]
      <4>1. match' = match \/ match' = [match EXCEPT ![c] = casual]
        BY <1>0, <3>3 DEF ConvertMatchRow, SetMatch
      <4>2. casual.status = "voided"
        BY <1>0 DEF MatchRows
      <4> HIDE DEF casual
      <4> QED BY <1>0, <4>1, <4>2
    <3> QED BY <3>1, <3>2, <3>3 DEF VoidMatch, ConvertMatch
  <2> QED BY <2>1, <2>2
<1>4. ASSUME NEW m \in DirectMatches, DirectStep(m) PROVE match'[c].status = "voided"
  BY <1>0, <1>4, DirectStepApart
<1>5. ASSUME NEW d \in Challenges, PlayStep(d) PROVE match'[c].status = "voided"
  <2>1. CASE match' = match
    BY <1>1, <2>1
  <2>2. CASE \/ \E p \in Players, done \in BOOLEAN, winner \in Sides : SubmitResult(d, p, done, winner)
             \/ \E ask \in Asks(d) : ConfirmWalkover(d, ask)
    <3>1. d # c
      BY <1>0, <2>2 DEF SubmitResult, ConfirmWalkover, Status
    <3>2. \E row : match' = [match EXCEPT ![d] = row]
      BY <2>2 DEF SubmitResult, ConfirmWalkover, ApplyResult, SetMatch
    <3> QED BY <1>0, <3>1, <3>2
  <2> QED BY <1>5, <2>1, <2>2 DEF PlayStep, ReportWalkover, RejectWalkover, mvars
<1> QED BY <1>2, <1>3, <1>4, <1>5 DEF Next

\* The void of a challenge match stands until a dispute raised on it before the
\* void is resolved.
THEOREM VoidsStand == Spec => VoidStands
<1>1. LadderInv /\ [Next]_vars =>
        [\A c \in Challenges : (Status(c) = "voided" /\ dispute[c] # "open")
           => match'[c].status = "voided"]_vars
  BY VoidedStays
<1> QED BY <1>1, Invariant, PTL DEF Spec, VoidStands

\* The statuses a challenge never comes back from.
Over == Dead \cup {"completed", "walkover_confirmed"}
Again == Active \cup {"none", "walkover_pending"}

\* No step reopens a challenge that is over.
LEMMA OverStays ==
  ASSUME LadderInv, [Next]_vars, NEW c \in Challenges, cstatus[c] \in Over
  PROVE  cstatus'[c] \notin Again
<1> USE DEF Over, Again, Dead, Active, Open
<1>0. cstatus \in [Challenges -> CStatuses]
  BY DEF LadderInv, TypeOK, ChallengeTypeOK
<1>1. cstatus' = cstatus => cstatus'[c] \notin Again
  OBVIOUS
<1>2. CASE ChallengeStep
  BY <1>0, <1>2 DEF ChallengeStep, CreateChallenge, AdminCreateChallenge, Respond,
     CancelChallenge, ForceExpireChallenge, ExpireChallenges, SetStatus
<1>3. CASE SeasonStep \/ UNCHANGED vars
  BY <1>1, <1>3 DEF SeasonStep, Season, vars, cvars
<1>4. ASSUME NEW m \in Matches, MatchStep(m) PROVE cstatus'[c] \notin Again
  BY <1>0, <1>4, MatchStepMoves DEF Moved
<1>5. ASSUME NEW m \in DirectMatches, DirectStep(m) PROVE cstatus'[c] \notin Again
  BY <1>1, <1>5, DirectStepApart
<1>6. ASSUME NEW d \in Challenges, PlayStep(d) PROVE cstatus'[c] \notin Again
  <2>1. \/ cstatus' = cstatus
        \/ cstatus[d] \in {"accepted", "partially_confirmed", "walkover_pending"}
           /\ \E s : cstatus' = [cstatus EXCEPT ![d] = s]
        \/ cstatus' = [cstatus EXCEPT ![d] = "walkover_confirmed"]
    BY <1>6 DEF PlayStep, SubmitResult, ReportWalkover, ConfirmWalkover, RejectWalkover,
                ApplyResult, SetChallenge, SetStatus, cvars
  <2> QED BY <1>0, <2>1
<1> QED BY <1>2, <1>3, <1>4, <1>5, <1>6 DEF Next

\* A challenge that is rejected, cancelled, expired, completed or forfeited is
\* never playable, open or claimed again.
THEOREM OverIsOver == Spec => OverStaysOver
<1>1. LadderInv /\ [Next]_vars =>
        [\A c \in Challenges :
           cstatus[c] \in Dead \cup {"completed", "walkover_confirmed"}
             => cstatus'[c] \notin Active \cup {"none", "walkover_pending"}]_vars
  BY OverStays DEF Over, Again
<1> QED BY <1>1, Invariant, PTL DEF Spec, OverStaysOver
=============================================================================
