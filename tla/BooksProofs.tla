----------------------------- MODULE BooksProofs -----------------------------
(***************************************************************************)
(* The books of every club balance: in a season opened once and free of    *)
(* irregular postings, a rating is the opening rating plus the deltas of   *)
(* the standing matches.  Every function that changes a match leaves the   *)
(* tables in the relation BookMove; that relation keeps the sums, and each *)
(* function is proved to be a BookMove step.  Rollovers are apart.         *)
(***************************************************************************)
EXTENDS LadderProofs, Sums

-----------------------------------------------------------------------------
(* The relation.                                                           *)

Standing == {"confirmed", "disputed"}

\* What match m counts for in the rating of p in season s.
Counts(m, s, p) ==
    IF match[m].season = s /\ Status(m) \in Standing THEN delta[m][p] ELSE 0

\* m changed and no other match; a season that was not disturbed gained in the
\* ratings what it gained in the matches.
BookMove(m) ==
    /\ \A n \in Matches \ {m} : match'[n] = match[n] /\ delta'[n] = delta[n]
    /\ UNCHANGED <<active, opening>>
    /\ \A s \in Seasons : books'[s] = books[s] \/ (books[s] = "clean" /\ books'[s] = "disturbed")
    /\ Status(m)' # "none" =>
          \/ active # NoSeason /\ match'[m].season = active
          \/ Status(m) # "none" /\ match'[m].season = match[m].season
    /\ \A s \in Seasons : books'[s] = "clean" => \A p \in Players :
          RatingIn(s)'[p] = RatingIn(s)[p] + Counts(m, s, p)' - Counts(m, s, p)

\* The matches of a season are finitely many.
LEMMA OnTheBooksFinite ==
  ASSUME RecordedFinite, NEW s PROVE IsFiniteSet(OnTheBooks(s))
<1>1. OnTheBooks(s) \subseteq {m \in Matches : Status(m) # "none"}
  BY DEF OnTheBooks
<1> QED BY <1>1, FS_Subset DEF RecordedFinite

\* The sums follow one match.
LEMMA EarnedMoves ==
  ASSUME LadderInv, LadderInv', RecordedFinite, NEW m \in Matches,
         \A n \in Matches \ {m} : match'[n] = match[n] /\ delta'[n] = delta[n],
         NEW s, NEW p \in Players
  PROVE  /\ Earned(s, p) \in Int
         /\ Earned(s, p)' = Earned(s, p) + Counts(m, s, p)' - Counts(m, s, p)
<1>0. delta \in [Matches -> [Players -> Int]] /\ delta' \in [Matches -> [Players -> Int]]
  BY DEF LadderInv, TypeOK, LadderTypeOK
<1> DEFINE new == [n \in Matches |-> delta'[n][p]]
           old == [n \in Matches |-> delta[n][p]]
           T == {n \in Matches : match'[n].season = s /\ match'[n].status \in {"confirmed", "disputed"}}
<1>1. PICK S : S = OnTheBooks(s)
  OBVIOUS
<1>2. IsFiniteSet(S) /\ S \subseteq Matches
  BY <1>1, OnTheBooksFinite DEF OnTheBooks
<1>3. T \ {m} = S \ {m}
  BY <1>1 DEF OnTheBooks, Status
<1>4. /\ \A y \in S \cup T : old[y] \in Int /\ new[y] \in Int
      /\ \A y \in S \ {m} : old[y] = new[y]
  BY <1>0, <1>2
<1>5. Share(old, S, m) = Counts(m, s, p)
  BY <1>1 DEF Share, Counts, Standing, OnTheBooks
<1>6. Share(new, T, m) = Counts(m, s, p)'
  BY DEF Share, Counts, Standing, Status
<1>7. Earned(s, p) = SumFunctionOnSet(old, S)
  BY <1>1 DEF Earned
<1>8. Earned(s, p)' = SumFunctionOnSet(new, T)
  BY DEF Earned, OnTheBooks, Status
<1> HIDE DEF old, new, T
<1>9. /\ SumFunctionOnSet(old, S) \in Int
      /\ SumFunctionOnSet(new, T) = SumFunctionOnSet(old, S) + Share(new, T, m) - Share(old, S, m)
  BY <1>2, <1>3, <1>4, SumMove
<1> QED BY <1>5, <1>6, <1>7, <1>8, <1>9

\* The rating of a season is a number.
LEMMA RatingInType ==
  ASSUME LadderInv, NEW s \in Seasons PROVE RatingIn(s) \in [Players -> Int]
  BY DEF LadderInv, TypeOK, RatingTypeOK, RatingIn

\* A BookMove keeps the books.
LEMMA BookMoveBalances ==
  ASSUME LadderInv, LadderInv', BooksInv, NEW m \in Matches, BookMove(m)
  PROVE  BooksBalance'
<1> SUFFICES ASSUME NEW s \in Seasons, books'[s] = "clean", NEW p \in Players
             PROVE  RatingIn(s)'[p] = opening'[s][p] + Earned(s, p)'
  BY DEF BooksBalance
<1>1. books[s] = "clean" /\ opening' = opening
  BY DEF BookMove
<1>2. RatingIn(s)[p] = opening[s][p] + Earned(s, p)
  BY <1>1 DEF BooksInv, BooksBalance
<1>3. RatingIn(s)'[p] = RatingIn(s)[p] + Counts(m, s, p)' - Counts(m, s, p)
  BY DEF BookMove
<1>4. Earned(s, p) \in Int /\ Earned(s, p)' = Earned(s, p) + Counts(m, s, p)' - Counts(m, s, p)
  BY EarnedMoves DEF BookMove, BooksInv
<1>5. opening[s][p] \in Int
  BY DEF LadderInv, TypeOK, RatingTypeOK
<1>6. Counts(m, s, p) \in Int /\ Counts(m, s, p)' \in Int
  BY DEF LadderInv, TypeOK, LadderTypeOK, Counts
<1> QED BY <1>1, <1>2, <1>3, <1>4, <1>5, <1>6

\* It records at most one match more, in a season that is open.
LEMMA BookMoveRecords ==
  ASSUME LadderInv, BooksInv, NEW m \in Matches, BookMove(m)
  PROVE  RecordedFinite' /\ RecordedInOpened'
<1>1. RecordedFinite'
  <2> DEFINE R == {n \in Matches : Status(n) # "none"}
             T == {n \in Matches : match'[n].status # "none"}
  <2>1. IsFiniteSet(R \cup {m})
    BY FS_AddElement DEF BooksInv, RecordedFinite
  <2>2. T \subseteq R \cup {m}
    BY DEF BookMove, Status
  <2>3. IsFiniteSet(T)
    BY <2>1, <2>2, FS_Subset
  <2> QED BY <2>3 DEF RecordedFinite, Status
<1>2. RecordedInOpened'
  <2>1. active' = active /\ active \in Seasons \cup {NoSeason}
    BY DEF BookMove, LadderInv, TypeOK, RatingTypeOK
  <2>2. \A s \in Seasons : books'[s] = "unopened" <=> books[s] = "unopened"
    BY DEF BookMove
  <2>3. \A n \in Matches : Status(n)' # "none" =>
            \/ active # NoSeason /\ match'[n].season = active
            \/ Status(n) # "none" /\ match'[n].season = match[n].season
    BY DEF BookMove, Status
  <2> QED BY <2>1, <2>2, <2>3, RatingAssumption DEF BooksInv, RecordedInOpened
<1> QED BY <1>1, <1>2

-----------------------------------------------------------------------------
(* Each function that changes a match is such a step.                      *)

\* A match whose rating change is not part of the ratings counts for nothing.
LEMMA NotPostedCountsNothing ==
  ASSUME NEW m \in Matches, ~Posted(m), NEW s, NEW p \in Players
  PROVE  Counts(m, s, p) = 0
  BY DEF Posted, Counts, Standing, Zero

\* The season of a recorded match is one of the seasons.
LEMMA SeasonKnown ==
  ASSUME LadderInv, RecordedInOpened, NEW m \in Matches, Status(m) # "none"
  PROVE  match[m].season \in Seasons
  BY DEF RecordedInOpened

\* A row written over that of m is the row of m, and no other row is touched.
LEMMA RowWritten ==
  ASSUME LadderInv, NEW m \in Matches, NEW row, match' = [match EXCEPT ![m] = row]
  PROVE  match'[m] = row /\ \A n \in Matches \ {m} : match'[n] = match[n]
  BY DEF LadderInv, TypeOK, LadderTypeOK

\* A match that changes neither the ratings nor what it counts for.
LEMMA QuietMove ==
  ASSUME LadderInv, NEW m \in Matches, NEW row, match' = [match EXCEPT ![m] = row],
         UNCHANGED <<rvars, delta>>,
         row.status # "none" =>
            \/ active # NoSeason /\ row.season = active
            \/ Status(m) # "none" /\ row.season = match[m].season,
         \/ delta[m] = Zero
         \/ Status(m) \notin Standing /\ row.status \notin Standing
         \/ Status(m) \in Standing /\ row.status \in Standing /\ row.season = match[m].season
  PROVE  BookMove(m)
<1>1. match'[m] = row /\ \A n \in Matches \ {m} : match'[n] = match[n]
  BY RowWritten
<1>2. \A s \in Seasons, p \in Players : Counts(m, s, p)' = Counts(m, s, p)
  BY <1>1 DEF Counts, Status, Zero
<1>3. \A s \in Seasons, p \in Players : Counts(m, s, p) \in Int /\ RatingIn(s)[p] \in Int
  BY RatingInType DEF Counts, LadderInv, TypeOK, LadderTypeOK
<1>4. \A s \in Seasons : RatingIn(s)' = RatingIn(s)
  BY DEF RatingIn, rvars
<1> QED BY <1>1, <1>2, <1>3, <1>4 DEF BookMove, rvars, Status

\* reverse_match_result takes off exactly what the match had put on, in the season
\* it had put it on.
LEMMA ReverseMove ==
  ASSUME LadderInv, RecordedInOpened, NEW m \in Matches, Status(m) = "confirmed",
         Reverse(match[m].season, delta[m]),
         NEW row, row.status = "voided", row.season = match[m].season,
         match' = [match EXCEPT ![m] = row], UNCHANGED <<active, opening, books, delta>>
  PROVE  BookMove(m)
<1> DEFINE t == match[m].season
<1>0. /\ live \in [Players -> Int] /\ archive \in [Seasons -> [Players -> Int]]
      /\ delta \in [Matches -> [Players -> Int]]
  BY DEF LadderInv, TypeOK, RatingTypeOK, LadderTypeOK
<1>1. match'[m] = row /\ \A n \in Matches \ {m} : match'[n] = match[n]
  BY RowWritten
<1>2. t \in Seasons /\ books[t] # "unopened"
  BY DEF RecordedInOpened
<1>3. active # NoSeason
  BY <1>2 DEF RecordedInOpened
<1>4. ASSUME NEW s \in Seasons, NEW p \in Players
      PROVE  RatingIn(s)'[p] = RatingIn(s)[p] + Counts(m, s, p)' - Counts(m, s, p)
  <2>1. Counts(m, s, p)' = 0
    BY <1>1 DEF Counts, Status, Standing
  <2>2. Counts(m, s, p) = IF s = t THEN delta[m][p] ELSE 0
    BY DEF Counts, Standing
  <2>3. RatingIn(s)[p] \in Int /\ delta[m][p] \in Int
    BY <1>0, RatingInType
  <2>4. RatingIn(s)'[p] = IF s = t THEN RatingIn(s)[p] - delta[m][p] ELSE RatingIn(s)[p]
    <3>1. CASE t # active
      <4>1. archive' = [archive EXCEPT ![t] = Minus(@, delta[m])] /\ live' = live
        BY <1>2, <1>3, <3>1, RatingAssumption DEF Reverse
      <4>2. archive'[s] = IF s = t THEN Minus(archive[s], delta[m]) ELSE archive[s]
        BY <1>0, <1>2, <4>1
      <4> QED BY <3>1, <4>1, <4>2 DEF RatingIn, Minus
    <3>2. CASE t = active
      <4>1. live' = Minus(live, delta[m]) /\ archive' = archive
        BY <3>2 DEF Reverse
      <4> QED BY <3>2, <4>1 DEF RatingIn, Minus
    <3> QED BY <3>1, <3>2
  <2> QED BY <2>1, <2>2, <2>3, <2>4
<1> QED BY <1>1, <1>4 DEF BookMove, Status

\* void_club_match
LEMMA VoidBooks ==
  ASSUME LadderInv, RecordedInOpened, NEW m \in Matches, VoidMatchRow(m)
  PROVE  BookMove(m)
<1> DEFINE row == [match[m] EXCEPT !.status = "voided"]
<1>1. /\ match' = [match EXCEPT ![m] = row] /\ Status(m) # "none"
      /\ UNCHANGED <<active, openings, opening, delta, cstatus>>
  BY DEF VoidMatchRow, SetMatch
<1>2. row.status = "voided" /\ row.season = match[m].season
  BY DEF LadderInv, TypeOK, LadderTypeOK, MatchRows
<1> HIDE DEF row
<1>3. CASE Status(m) = "confirmed"
  BY <1>1, <1>2, <1>3, ReverseMove DEF VoidMatchRow
<1>4. CASE Status(m) # "confirmed" /\ ~Posted(m)
  <2>1. UNCHANGED <<rvars, delta>>
    BY <1>1, <1>4 DEF VoidMatchRow, rvars
  <2>2. delta[m] = Zero \/ Status(m) \notin Standing
    BY <1>4 DEF Posted, Standing
  <2>3. row.status \notin Standing
    BY <1>2 DEF Standing
  <2> QED BY <1>1, <1>2, <2>1, <2>2, <2>3, QuietMove
<1>5. CASE Status(m) # "confirmed" /\ Posted(m)
  <2>1. books' = Disturbed({match[m].season, active}) /\ UNCHANGED <<live, archive>>
    BY <1>5 DEF VoidMatchRow
  <2>2. match'[m] = row /\ \A n \in Matches \ {m} : match'[n] = match[n]
    BY <1>1, RowWritten
  <2>3. \A s \in Seasons : books'[s] = books[s] \/ (books[s] = "clean" /\ books'[s] = "disturbed")
    BY <2>1 DEF Disturbed
  <2>4. ASSUME NEW s \in Seasons, books'[s] = "clean", NEW p \in Players
        PROVE  RatingIn(s)'[p] = RatingIn(s)[p] + Counts(m, s, p)' - Counts(m, s, p)
    <3>1. s # match[m].season
      BY <2>1, <2>4 DEF Disturbed
    <3>2. Counts(m, s, p) = 0 /\ Counts(m, s, p)' = 0
      BY <1>2, <2>2, <3>1 DEF Counts
    <3>3. RatingIn(s)' = RatingIn(s) /\ RatingIn(s)[p] \in Int
      BY <1>1, <2>1, RatingInType DEF RatingIn
    <3> QED BY <3>2, <3>3
  <2> QED BY <1>1, <1>2, <2>2, <2>3, <2>4 DEF BookMove
<1> QED BY <1>3, <1>4, <1>5

\* apply_match_result, on the row of a match or on the row that makes it one: what
\* lands on the live ratings is what the match counts for from then on, or else the
\* seasons concerned are disturbed.
LEMMA ApplyBooks ==
  ASSUME LadderInv, NEW m \in Matches, NEW row \in MatchRows,
         NEW ask \in [Participants(m) -> Int], NEW final,
         ApplyResult(m, row, ask, final), row.season \in Seasons,
         IF Status(m) = "none" THEN row.season = active ELSE row.season = match[m].season
  PROVE  BookMove(m)
<1> DEFINE gain == Landing(Participants(m), Asked(m, row.winner, ask))
           new == [row EXCEPT !.status = "confirmed"]
           touched == {row.season, active}
<1>0. /\ match' = [match EXCEPT ![m] = new] /\ UNCHANGED <<archive, active, openings, opening>>
      /\ live \in [Players -> Int] /\ delta \in [Matches -> [Players -> Int]]
  BY DEF ApplyResult, SetMatch, LadderInv, TypeOK, RatingTypeOK, LadderTypeOK
<1>1. new.status = "confirmed" /\ new.season = row.season
  BY DEF MatchRows
<1>2. gain \in [Players -> Int]
  BY AskedType, LandingType DEF LadderInv, TypeOK
<1>3. active # NoSeason \/ row.season # active
  BY RatingAssumption
<1>4. \/ row.event = "casual" /\ UNCHANGED <<live, delta>>
         /\ books' = IF delta[m] # Zero /\ ~Posted(m) THEN Disturbed(touched) ELSE books
      \/ live' = Plus(live, gain) /\ delta' = [delta EXCEPT ![m] = gain]
         /\ books' = IF row.season # active \/ Posted(m) THEN Disturbed(touched) ELSE books
  BY DEF ApplyResult
<1> HIDE DEF gain, new
<1>5. match'[m] = new /\ \A n \in Matches \ {m} : match'[n] = match[n]
  BY <1>0, RowWritten
<1>6. /\ \A n \in Matches \ {m} : delta'[n] = delta[n]
      /\ \A s \in Seasons : books'[s] = books[s] \/ (books[s] = "clean" /\ books'[s] = "disturbed")
  BY <1>0, <1>4 DEF Disturbed
<1>7. Status(m)' # "none" =>
          \/ active # NoSeason /\ match'[m].season = active
          \/ Status(m) # "none" /\ match'[m].season = match[m].season
  BY <1>1, <1>3, <1>5
<1>8. ASSUME NEW s \in Seasons, books'[s] = "clean", NEW p \in Players
      PROVE  RatingIn(s)'[p] = RatingIn(s)[p] + Counts(m, s, p)' - Counts(m, s, p)
  <2>0. /\ RatingIn(s)[p] \in Int /\ Counts(m, s, p) \in Int /\ gain[p] \in Int
        /\ RatingIn(s)[p] = IF s = active THEN live[p] ELSE archive[s][p]
        /\ RatingIn(s)'[p] = IF s = active THEN live'[p] ELSE archive[s][p]
    BY <1>0, <1>2, RatingInType DEF RatingIn, Counts
  <2>1. Counts(m, s, p)' = IF row.season = s THEN delta'[m][p] ELSE 0
    BY <1>1, <1>5 DEF Counts, Status, Standing
  <2>2. ~Posted(m) => Counts(m, s, p) = 0
    BY NotPostedCountsNothing
  <2>3. Posted(m) => Counts(m, s, p) = IF row.season = s THEN delta[m][p] ELSE 0
    BY DEF Posted, Counts, Standing
  <2>4. s \in touched => books' # Disturbed(touched)
    BY <1>8 DEF Disturbed
  <2>5. CASE row.event = "casual" /\ UNCHANGED <<live, delta>>
             /\ books' = IF delta[m] # Zero /\ ~Posted(m) THEN Disturbed(touched) ELSE books
    <3>1. CASE Posted(m)
      BY <2>0, <2>1, <2>3, <2>5, <3>1
    <3>2. CASE ~Posted(m) /\ delta[m] = Zero
      <4>1. delta'[m][p] = 0
        BY <2>5, <3>2 DEF Zero
      <4> QED BY <2>0, <2>1, <2>2, <2>5, <3>2, <4>1
    <3>3. CASE ~Posted(m) /\ delta[m] # Zero
      <4>1. row.season # s
        BY <2>4, <2>5, <3>3
      <4> QED BY <2>0, <2>1, <2>2, <2>5, <3>3, <4>1
    <3> QED BY <3>1, <3>2, <3>3
  <2>6. CASE live' = Plus(live, gain) /\ delta' = [delta EXCEPT ![m] = gain]
             /\ books' = IF row.season # active \/ Posted(m) THEN Disturbed(touched) ELSE books
    <3>0. live'[p] = live[p] + gain[p] /\ delta'[m] = gain
      BY <1>0, <2>6 DEF Plus
    <3>1. CASE row.season = active /\ ~Posted(m)
      BY <2>0, <2>1, <2>2, <3>0, <3>1
    <3>2. CASE row.season # active \/ Posted(m)
      <4>1. s # row.season /\ s # active
        BY <2>4, <2>6, <3>2
      <4>2. Counts(m, s, p) = 0 /\ Counts(m, s, p)' = 0
        BY <2>1, <2>2, <2>3, <4>1
      <4> QED BY <2>0, <4>1, <4>2
    <3> QED BY <3>1, <3>2
  <2> QED BY <1>4, <2>5, <2>6
<1> QED BY <1>0, <1>6, <1>7, <1>8 DEF BookMove

\* convert_club_match_to_casual
LEMMA ConvertBooks ==
  ASSUME LadderInv, RecordedInOpened, NEW m \in Matches, ConvertMatchRow(m)
  PROVE  BookMove(m)
<1> DEFINE row    == match[m]
           casual == [row EXCEPT !.rated = FALSE, !.event = "casual"]
           noElo  == [p \in Participants(m) |-> 0]
<1>1. /\ row \in MatchRows /\ Status(m) # "none" /\ row.status = Status(m)
      /\ row.season \in Seasons
  BY SeasonKnown DEF LadderInv, TypeOK, LadderTypeOK, ConvertMatchRow, Status
<1>2. casual \in MatchRows /\ casual.status = row.status /\ casual.season = row.season
  BY <1>1 DEF MatchRows, Events
<1>3. CASE row.status \in {"confirmed", "voided"} /\ UNCHANGED <<match, delta, rvars, cstatus>>
  <2>1. match' = [match EXCEPT ![m] = row]
    BY <1>3 DEF LadderInv, TypeOK, LadderTypeOK
  <2> QED BY <1>1, <1>3, <2>1, QuietMove
<1>4. CASE row.status = "voided" /\ SetMatch(m, casual) /\ UNCHANGED <<delta, rvars, cstatus>>
  <2>1. match' = [match EXCEPT ![m] = casual]
    BY <1>4 DEF SetMatch
  <2> QED BY <1>1, <1>2, <1>4, <2>1, QuietMove DEF Standing
<1>5. CASE row.status = "confirmed" /\ Reverse(row.season, delta[m])
           /\ SetMatch(m, [casual EXCEPT !.status = "voided"])
           /\ UNCHANGED <<active, openings, opening, books, delta, cstatus>>
  <2> DEFINE gone == [casual EXCEPT !.status = "voided"]
  <2>1. gone.status = "voided" /\ gone.season = row.season /\ match' = [match EXCEPT ![m] = gone]
    BY <1>2, <1>5 DEF MatchRows, SetMatch
  <2> HIDE DEF gone
  <2> QED BY <1>1, <1>5, <2>1, ReverseMove
<1>6. CASE ApplyResult(m, [casual EXCEPT !.status = "pending_confirmation"], noElo, "completed")
  <2> DEFINE again == [casual EXCEPT !.status = "pending_confirmation"]
  <2>1. again \in MatchRows /\ again.season = row.season
    BY <1>2 DEF MatchRows, MStatuses
  <2>2. noElo \in [Participants(m) -> Int] /\ ApplyResult(m, again, noElo, "completed")
    BY <1>6
  <2> HIDE DEF again, noElo
  <2> QED BY <1>1, <2>1, <2>2, ApplyBooks
<1> QED BY <1>1, <1>3, <1>4, <1>5, <1>6 DEF ConvertMatchRow

\* boost_match_rating: the rows and the ratings learn of the same extra.
LEMMA BoostBooks ==
  ASSUME LadderInv, RecordedInOpened, NEW m \in Matches, NEW b \in 1..Grain, BoostMatch(m, b)
  PROVE  BookMove(m)
<1> DEFINE extra == Landing(Participants(m), [p \in Players |-> Scaled(delta[m][p], b)])
           row == [match[m] EXCEPT !.boosted = TRUE]
<1>0. /\ delta \in [Matches -> [Players -> Int]] /\ live \in [Players -> Int]
      /\ match[m] \in MatchRows /\ RatingTypeOK
  BY DEF LadderInv, TypeOK, RatingTypeOK, LadderTypeOK
<1>1. extra \in [Players -> Int]
  <2>1. [p \in Players |-> Scaled(delta[m][p], b)] \in [Players -> Int]
    BY <1>0, ScaledInt, RatingAssumption
  <2> QED BY <1>0, <2>1, LandingType
<1>2. row.status = match[m].status /\ row.season = match[m].season
  BY <1>0 DEF MatchRows
<1>3. /\ Status(m) = "confirmed" /\ match[m].season = active
      /\ live' = Plus(live, extra) /\ delta' = [delta EXCEPT ![m] = Plus(@, extra)]
      /\ match' = [match EXCEPT ![m] = row] /\ UNCHANGED <<archive, active, opening, books>>
  BY DEF BoostMatch, SetMatch
<1> HIDE DEF extra, row
<1>4. match'[m] = row /\ \A n \in Matches \ {m} : match'[n] = match[n] /\ delta'[n] = delta[n]
  BY <1>0, <1>3, RowWritten
<1>5. ASSUME NEW s \in Seasons, NEW p \in Players
      PROVE  RatingIn(s)'[p] = RatingIn(s)[p] + Counts(m, s, p)' - Counts(m, s, p)
  <2>1. /\ live'[p] = live[p] + extra[p] /\ delta'[m][p] = delta[m][p] + extra[p]
        /\ live[p] \in Int /\ delta[m][p] \in Int /\ extra[p] \in Int
    BY <1>0, <1>1, <1>3 DEF Plus
  <2>2. /\ Counts(m, s, p) = IF s = active THEN delta[m][p] ELSE 0
        /\ Counts(m, s, p)' = IF s = active THEN delta'[m][p] ELSE 0
    BY <1>2, <1>3, <1>4 DEF Counts, Status, Standing
  <2>3. /\ RatingIn(s)[p] = IF s = active THEN live[p] ELSE archive[s][p]
        /\ RatingIn(s)'[p] = IF s = active THEN live'[p] ELSE archive[s][p]
        /\ RatingIn(s)[p] \in Int
    BY <1>3, RatingInType DEF RatingIn
  <2> QED BY <2>1, <2>2, <2>3
<1> QED BY <1>2, <1>3, <1>4, <1>5 DEF BookMove, Status

\* dispute_match_result: a result that is disputed goes on counting, and one that was
\* not confirmed has no rating change.
LEMMA DisputeBooks ==
  ASSUME LadderInv, NEW m \in Matches, NEW p, DisputeResult(m, p)
  PROVE  BookMove(m)
<1> DEFINE row == [match[m] EXCEPT !.status = "disputed"]
<1>1. /\ Status(m) \in {"pending_confirmation", "confirmed"} /\ UNCHANGED <<rvars, delta>>
      /\ match' = [match EXCEPT ![m] = row]
  BY DEF DisputeResult, SetMatch
<1>2. row.status = "disputed" /\ row.season = match[m].season
  BY DEF LadderInv, TypeOK, LadderTypeOK, MatchRows
<1>3. delta[m] = Zero \/ Status(m) \in Standing
  BY <1>1 DEF LadderInv, UnconfirmedMovesNoRating, Standing
<1>4. row.status \in Standing
  BY <1>2 DEF Standing
<1> HIDE DEF row
<1> QED BY <1>1, <1>2, <1>3, <1>4, QuietMove

\* Every function on an existing match keeps the books.
LEMMA MatchStepBooks ==
  ASSUME LadderInv, RecordedInOpened, NEW m \in Matches, MatchStep(m)
  PROVE  BookMove(m)
<1>0. match[m] \in MatchRows
  BY DEF LadderInv, TypeOK, LadderTypeOK
<1>1. ASSUME NEW ask \in Asks(m), NEW p \in Players, ConfirmResult(m, p, ask) PROVE BookMove(m)
  <2>1. ApplyResult(m, match[m], ask, "completed") /\ Status(m) # "none"
    BY <1>1 DEF ConfirmResult
  <2> QED BY <1>0, <2>1, AsksType, SeasonKnown, ApplyBooks
<1>2. ASSUME NEW winner \in Sides, NEW ask \in Asks(m), ResolveRated(m, winner, ask)
      PROVE  BookMove(m)
  <2> DEFINE row == [match[m] EXCEPT !.winner = winner]
  <2>1. row \in MatchRows /\ row.season = match[m].season
    BY <1>0 DEF MatchRows
  <2>2. ApplyResult(m, row, ask, "completed") /\ Status(m) # "none"
    BY <1>2 DEF ResolveRated, LadderInv, QueuedHasMatch
  <2> HIDE DEF row
  <2> QED BY <2>1, <2>2, AsksType, SeasonKnown, ApplyBooks
<1> QED BY <1>1, <1>2, VoidBooks, ConvertBooks, BoostBooks, DisputeBooks
        DEF MatchStep, VoidMatch, ConvertMatch, ResolveVoided, ResolveCasual

\* The requests of adminCreateMatch keep the books: the first one records the match
\* unconfirmed, and the last one applies it or finds that it moved no rating.
LEMMA DirectStepBooks ==
  ASSUME LadderInv, BooksInv, NEW m \in DirectMatches, DirectStep(m)
  PROVE  BookMove(m)
<1>0. /\ m \in Matches /\ match[m] \in MatchRows /\ match \in [Matches -> MatchRows]
      /\ active \in Seasons \cup {NoSeason} /\ RecordedInOpened
  BY DirectApart DEF LadderInv, TypeOK, RatingTypeOK, LadderTypeOK, BooksInv
<1>1. ASSUME NEW rated \in BOOLEAN, NEW winner \in Sides, DirectInsert(m, rated, winner)
      PROVE  BookMove(m)
  <2> DEFINE row == [NoRow EXCEPT
                       !.status = IF rated THEN "pending_confirmation" ELSE "incomplete",
                       !.season = active, !.event = "admin_entered",
                       !.rated = rated, !.winner = winner]
  <2>1. row.status \notin Standing /\ row.season = active
    BY DEF NoRow, Standing
  <2>2. /\ match' = [match EXCEPT ![m] = row] /\ UNCHANGED <<rvars, delta>>
        /\ active # NoSeason /\ Status(m) \notin Standing
    BY <1>1 DEF DirectInsert, SetMatch, Standing
  <2> HIDE DEF row
  <2> QED BY <1>0, <2>1, <2>2, QuietMove
<1>2. ASSUME NEW ask \in Asks(m), DirectFinish(m, ask) PROVE BookMove(m)
  <2>1. CASE Status(m) = "pending_confirmation" /\ ApplyResult(m, match[m], ask, "completed")
    <3>1. Status(m) # "none"
      BY <2>1
    <3> QED BY <1>0, <2>1, <3>1, AsksType, SeasonKnown, ApplyBooks
  <2>2. CASE entering[m] = "unrated" /\ SetMatch(m, [match[m] EXCEPT !.status = "confirmed"])
             /\ UNCHANGED <<rvars, delta>>
    <3> DEFINE row == [match[m] EXCEPT !.status = "confirmed"]
    <3>1. row.season = match[m].season /\ match' = [match EXCEPT ![m] = row]
      BY <1>0, <2>2 DEF MatchRows, SetMatch
    <3>2. Status(m) # "none" /\ delta[m] = Zero
      BY <2>2 DEF BooksInv, UnratedHoldsNothing
    <3> HIDE DEF row
    <3> QED BY <1>0, <2>2, <3>1, <3>2, QuietMove
  <2> QED BY <1>2, <2>1, <2>2 DEF DirectFinish
<1>3. ASSUME UNCHANGED <<match, rvars, delta>> PROVE BookMove(m)
  <2>1. match' = [match EXCEPT ![m] = match[m]]
    BY <1>0, <1>3
  <2> QED BY <1>0, <1>3, <2>1, QuietMove DEF Status
<1>4. ASSUME DirectDiscard(m) PROVE BookMove(m)
  <2>1. CASE UNCHANGED match
    BY <1>3, <1>4, <2>1 DEF DirectDiscard
  <2>2. CASE Status(m) \in {"pending_confirmation", "incomplete"} /\ SetMatch(m, NoRow)
    <3>1. UNCHANGED <<rvars, delta>> /\ match' = [match EXCEPT ![m] = NoRow]
      BY <1>4, <2>2 DEF DirectDiscard, SetMatch
    <3>2. NoRow.status = "none" /\ NoRow.status \notin Standing /\ Status(m) \notin Standing
      BY <2>2 DEF NoRow, Standing
    <3> HIDE DEF NoRow
    <3> QED BY <1>0, <3>1, <3>2, QuietMove
  <2> QED BY <1>4, <2>1, <2>2 DEF DirectDiscard
<1>5. DirectLost(m) => BookMove(m)
  BY <1>3 DEF DirectLost, mvars
<1> QED BY <1>1, <1>2, <1>4, <1>5 DEF DirectStep

\* So do a submission and the three functions on walkovers; a forfeit that is rated
\* posts its match in the season that is active.
LEMMA PlayStepBooks ==
  ASSUME LadderInv, BooksInv, NEW c \in Challenges, PlayStep(c)
  PROVE  BookMove(c)
<1>0. /\ c \in Matches /\ match \in [Matches -> MatchRows]
      /\ walkover[c] \in WalkoverRows /\ active \in Seasons \cup {NoSeason}
  BY DEF LadderInv, TypeOK, RatingTypeOK, LadderTypeOK, Matches
<1>1. ASSUME NEW p \in Players, NEW done \in BOOLEAN, NEW winner \in Sides,
             SubmitResult(c, p, done, winner)
      PROVE  BookMove(c)
  <2> DEFINE row == [NoRow EXCEPT
         !.status = IF done THEN "pending_confirmation" ELSE "incomplete",
         !.season = active, !.rated = crated[c], !.submitter = p, !.winner = winner,
         !.event = IF crated[c] THEN "rated_challenge" ELSE "casual"]
  <2>1. row.status \notin Standing /\ row.season = active
    BY DEF NoRow, Standing
  <2>2. /\ match' = [match EXCEPT ![c] = row] /\ UNCHANGED <<rvars, delta>>
        /\ active # NoSeason /\ Status(c) \notin Standing
    BY <1>1 DEF SubmitResult, SetMatch, Standing
  <2> HIDE DEF row
  <2> QED BY <1>0, <2>1, <2>2, QuietMove
<1>2. ASSUME NEW ask \in Asks(c), ConfirmWalkover(c, ask) PROVE BookMove(c)
  <2> DEFINE rated == crated[c] /\ walkover[c].weighted
             row == [NoRow EXCEPT
                  !.status = "walkover", !.season = active, !.forfeit = TRUE,
                  !.event = IF crated[c] THEN "rated_challenge" ELSE "casual",
                  !.rated = rated, !.winner = walkover[c].winner]
  <2>0. Status(c) = "none" /\ active \in Seasons /\ active # NoSeason
    BY <1>0, <1>2 DEF ConfirmWalkover
  <2>1. row \in MatchRows /\ row.status \notin Standing /\ row.season = active
    <3>0. crated[c] \in BOOLEAN
      BY DEF LadderInv, TypeOK, ChallengeTypeOK
    <3>1. rated \in BOOLEAN /\ walkover[c].winner \in Sides
      BY <1>0, <3>0 DEF WalkoverRows
    <3> HIDE DEF rated
    <3> QED BY <2>0, <3>1, NoRowType DEF MatchRows, MStatuses, Events, Standing, NoRow
  <2>2. \/ ApplyResult(c, row, ask, "walkover_confirmed")
        \/ match' = [match EXCEPT ![c] = row] /\ UNCHANGED <<rvars, delta>>
    BY <1>2 DEF ConfirmWalkover, SetMatch
  <2>3. Status(c) \notin Standing
    BY <2>0 DEF Standing
  <2> HIDE DEF row
  <2>4. CASE ApplyResult(c, row, ask, "walkover_confirmed")
    BY <1>0, <2>0, <2>1, <2>4, AsksType, ApplyBooks
  <2>5. CASE match' = [match EXCEPT ![c] = row] /\ UNCHANGED <<rvars, delta>>
    BY <1>0, <2>0, <2>1, <2>3, <2>5, QuietMove
  <2> QED BY <2>2, <2>4, <2>5
<1>3. ASSUME UNCHANGED <<match, rvars, delta>> PROVE BookMove(c)
  <2>1. match' = [match EXCEPT ![c] = match[c]]
    BY <1>0, <1>3
  <2> QED BY <1>0, <1>3, <2>1, QuietMove DEF Status
<1>4. RejectWalkover(c) => BookMove(c)
  BY <1>3 DEF RejectWalkover, mvars
<1>5. ASSUME NEW p, NEW kind, ReportWalkover(c, p, kind) PROVE BookMove(c)
  BY <1>3, <1>5 DEF ReportWalkover, mvars
<1> QED BY <1>1, <1>2, <1>4, <1>5 DEF PlayStep

-----------------------------------------------------------------------------
(* The unrated entry.                                                      *)

\* A function on an existing match never gives a rating change to an unrated entry
\* that is still being made.
LEMMA MatchStepUnrated ==
  ASSUME LadderInv, UnratedHoldsNothing, NEW m \in Matches, MatchStep(m)
  PROVE  UnratedHoldsNothing'
<1>0. /\ match[m] \in MatchRows /\ delta \in [Matches -> [Players -> Int]]
      /\ match \in [Matches -> MatchRows] /\ dispute \in [Matches -> {"none", "open", "resolved"}]
  BY DEF LadderInv, TypeOK, LadderTypeOK
<1>1. Moved(m) /\ Beside(m)
  BY MatchStepMoves
<1>2. entering' = entering
  BY DEF MatchStep, ConfirmResult, BoostMatch, VoidMatch, ConvertMatch, DisputeResult, ResolveRated,
         ResolveVoided, ResolveCasual
<1>3. SUFFICES ASSUME m \in DirectMatches, entering[m] = "unrated"
               PROVE  /\ delta'[m] = delta[m]
                      /\ \/ match'[m].event = "casual"
                         \/ match'[m].status = "voided" /\ dispute'[m] # "open"
  <2>1. Status(m)' # "none"
    BY <1>1 DEF Moved, Status
  <2>2. \A n \in DirectMatches : n \in Matches
    BY DirectApart
  <2> QED BY <1>1, <1>2, <1>3, <2>1, <2>2 DEF UnratedHoldsNothing, Moved, Beside, Status, Zero
<1>4. \/ match[m].event = "casual"
      \/ match[m].event # "casual" /\ Status(m) \in {"incomplete", "voided"} /\ dispute[m] # "open"
  BY <1>3 DEF UnratedHoldsNothing
<1>5. ASSUME NEW row \in MatchRows, NEW ask, row.event = "casual", ApplyResult(m, row, ask, "completed")
      PROVE  delta' = delta /\ match'[m].event = "casual"
  <2>1. delta' = delta /\ match' = [match EXCEPT ![m] = [row EXCEPT !.status = "confirmed"]]
    BY <1>5 DEF ApplyResult, SetMatch
  <2>2. [row EXCEPT !.status = "confirmed"].event = "casual"
    BY <1>5 DEF MatchRows
  <2> QED BY <1>0, <2>1, <2>2
<1>6. ASSUME VoidMatchRow(m)
      PROVE  /\ delta' = delta /\ match'[m].status = "voided" /\ match'[m].event = match[m].event
  BY <1>0, <1>6 DEF VoidMatchRow, SetMatch, MatchRows
<1>7. ASSUME ConvertMatchRow(m)
      PROVE  delta' = delta /\ match'[m].event = "casual"
  <2> DEFINE casual == [match[m] EXCEPT !.rated = FALSE, !.event = "casual"]
             again == [casual EXCEPT !.status = "pending_confirmation"]
             gone == [casual EXCEPT !.status = "voided"]
             noElo  == [p \in Participants(m) |-> 0]
  <2>1. /\ casual \in MatchRows /\ casual.event = "casual"
        /\ again \in MatchRows /\ again.event = "casual" /\ gone.event = "casual"
    BY <1>0 DEF MatchRows, Events, MStatuses
  <2>2. \/ match' = match /\ match[m] = casual /\ delta' = delta
        \/ match' = [match EXCEPT ![m] = casual] /\ delta' = delta
        \/ match' = [match EXCEPT ![m] = gone] /\ delta' = delta
        \/ ApplyResult(m, again, noElo, "completed")
    BY <1>7 DEF ConvertMatchRow, SetMatch
  <2> HIDE DEF casual, again, gone, noElo
  <2>3. CASE ApplyResult(m, again, noElo, "completed")
    BY <1>5, <2>1, <2>3
  <2> QED BY <1>0, <2>1, <2>2, <2>3
<1>8. ASSUME NEW ask, NEW p, ConfirmResult(m, p, ask)
      PROVE  delta' = delta /\ match'[m].event = "casual"
  BY <1>0, <1>4, <1>5, <1>8 DEF ConfirmResult
<1>9. ASSUME NEW b, BoostMatch(m, b) PROVE FALSE
  BY <1>4, <1>9 DEF BoostMatch
<1>10. ASSUME NEW p, DisputeResult(m, p)
       PROVE  delta' = delta /\ match'[m].event = "casual"
  BY <1>0, <1>4, <1>10 DEF DisputeResult, SetMatch, MatchRows
<1>11. ASSUME NEW winner \in Sides, NEW ask, ResolveRated(m, winner, ask)
       PROVE  delta' = delta /\ match'[m].event = "casual"
  <2> DEFINE row == [match[m] EXCEPT !.winner = winner]
  <2>1. match[m].event = "casual" /\ ApplyResult(m, row, ask, "completed")
    BY <1>4, <1>11 DEF ResolveRated
  <2>2. row \in MatchRows /\ row.event = "casual"
    BY <1>0, <2>1 DEF MatchRows
  <2> HIDE DEF row
  <2> QED BY <1>5, <2>1, <2>2
<1>12. CASE VoidMatch(m)
  BY <1>4, <1>6, <1>12 DEF VoidMatch, dvars
<1>13. CASE ResolveVoided(m)
  BY <1>4, <1>6, <1>13 DEF ResolveVoided
<1> QED BY <1>7, <1>8, <1>9, <1>10, <1>11, <1>12, <1>13 DEF MatchStep, ConvertMatch, ResolveCasual

\* An unrated entry starts unrated, and stops being one with its last request.
LEMMA DirectStepUnrated ==
  ASSUME LadderInv, UnratedHoldsNothing, NEW m \in DirectMatches, DirectStep(m)
  PROVE  UnratedHoldsNothing'
<1>0. /\ m \in Matches /\ delta \in [Matches -> [Players -> Int]]
      /\ match \in [Matches -> MatchRows] /\ dispute \in [Matches -> {"none", "open", "resolved"}]
      /\ entering \in [DirectMatches -> {"no", "rated", "unrated"}]
  BY DirectApart DEF LadderInv, TypeOK, LadderTypeOK
<1>1. \A n \in DirectMatches \ {m} : /\ n \in Matches /\ n # m /\ entering'[n] = entering[n]
                                     /\ match'[n] = match[n] /\ delta'[n] = delta[n]
                                     /\ dispute'[n] = dispute[n]
  BY <1>0, DirectApart DEF DirectStep, DirectInsert, DirectFinish, DirectDiscard, DirectLost,
     ApplyResult, SetMatch, mvars, dvars
<1>2. ASSUME entering'[m] = "unrated"
      PROVE  /\ Status(m)' = "incomplete" /\ delta'[m] = Zero /\ dispute'[m] # "open"
  <2>1. PICK rated \in BOOLEAN, winner \in Sides : DirectInsert(m, rated, winner)
    BY <1>0, <1>2 DEF DirectStep, DirectFinish, DirectDiscard, DirectLost
  <2> DEFINE row == [NoRow EXCEPT
                       !.status = IF rated THEN "pending_confirmation" ELSE "incomplete",
                       !.season = active, !.event = "admin_entered",
                       !.rated = rated, !.winner = winner]
  <2>2. /\ Status(m) = "none" /\ match' = [match EXCEPT ![m] = row]
        /\ entering' = [entering EXCEPT ![m] = IF rated THEN "rated" ELSE "unrated"]
        /\ UNCHANGED <<delta, dispute>>
    BY <2>1 DEF DirectInsert, SetMatch, dvars
  <2>3. ~rated
    BY <1>0, <1>2, <2>2
  <2>4. row.status = "incomplete"
    BY <2>3 DEF NoRow
  <2> HIDE DEF row
  <2>5. match'[m] = row
    BY <1>0, <2>2
  <2>6. delta[m] = Zero /\ dispute[m] # "open"
    BY <1>0, <2>2 DEF LadderInv, UnconfirmedMovesNoRating, QueuedHasMatch
  <2> QED BY <2>2, <2>4, <2>5, <2>6 DEF Status
<1> QED BY <1>1, <1>2 DEF UnratedHoldsNothing, Status, Zero

\* No challenge match is an entry of the console.
LEMMA PlayStepUnrated ==
  ASSUME LadderInv, UnratedHoldsNothing, NEW c \in Challenges, PlayStep(c)
  PROVE  UnratedHoldsNothing'
<1>0. /\ delta \in [Matches -> [Players -> Int]] /\ match \in [Matches -> MatchRows]
      /\ \A n \in DirectMatches : n \in Matches /\ n # c
  BY TeamAssumption, DirectApart DEF LadderInv, TypeOK, LadderTypeOK
<1>1. entering' = entering /\ dispute' = dispute
  BY DEF PlayStep, SubmitResult, ReportWalkover, ConfirmWalkover, RejectWalkover, dvars
<1>2. match' = match \/ \E row : match' = [match EXCEPT ![c] = row]
  BY DEF PlayStep, SubmitResult, ReportWalkover, ConfirmWalkover, RejectWalkover, ApplyResult,
         SetMatch, mvars
<1>3. delta' = delta \/ \E d : delta' = [delta EXCEPT ![c] = d]
  BY DEF PlayStep, SubmitResult, ReportWalkover, ConfirmWalkover, RejectWalkover, ApplyResult,
         mvars
<1>4. \A n \in DirectMatches : match'[n] = match[n] /\ delta'[n] = delta[n]
  BY <1>0, <1>2, <1>3
<1> QED BY <1>1, <1>4 DEF UnratedHoldsNothing, Status, Zero

-----------------------------------------------------------------------------
(* The rollover, and the invariant.                                        *)

\* A rollover opens its season with the ratings it leaves, and no match is recorded
\* in it yet; the season that closes keeps its ratings in the archive.
LEMMA SeasonStepBooks ==
  ASSUME LadderInv, BooksInv, SeasonStep
  PROVE  BooksInv'
<1>1. PICK s \in Seasons, policy \in Policies, mean \in Lo..Hi, k \in 0..Grain :
          Season(s, policy, mean, k)
  BY RatingAssumption DEF SeasonStep, Policies
<1>2. UNCHANGED <<match, delta, dispute, entering>> /\ ActivateSeason(s, policy, mean, k)
  BY <1>1 DEF Season, mvars, dvars
<1>3. /\ live \in [Players -> Int] /\ archive \in [Seasons -> [Players -> Int]]
      /\ books \in [Seasons -> BookStates] /\ opening \in [Seasons -> [Players -> Int]]
      /\ active \in Seasons \cup {NoSeason}
  BY DEF LadderInv, TypeOK, RatingTypeOK
<1>4. PICK ratings : ratings = Reset(policy, mean, k)
  OBVIOUS
<1>5. ratings \in [Players -> Int]
  <2>1. mean \in Int /\ k \in Int
    BY RatingAssumption
  <2> QED BY <1>4, <2>1, ResetType DEF LadderInv, TypeOK
<1>6. /\ archive' = IF active = NoSeason THEN archive ELSE [archive EXCEPT ![active] = live]
      /\ active' = s /\ live' = ratings /\ opening' = [opening EXCEPT ![s] = ratings]
      /\ books' = [books EXCEPT ![s] = IF books[s] = "unopened" THEN "clean" ELSE "disturbed"]
  BY <1>2, <1>4 DEF ActivateSeason
<1>7. \A t, p : Earned(t, p)' = Earned(t, p)
  BY <1>2 DEF Earned, OnTheBooks, Status
<1>8. BooksBalance'
  <2> SUFFICES ASSUME NEW t \in Seasons, books'[t] = "clean", NEW p \in Players
               PROVE  RatingIn(t)'[p] = opening'[t][p] + Earned(t, p)'
    BY DEF BooksBalance
  <2>1. CASE t = s
    <3>1. books[s] = "unopened"
      BY <1>3, <1>6, <2>1
    <3>2. OnTheBooks(s) = {}
      BY <3>1 DEF OnTheBooks, BooksInv, RecordedInOpened
    <3>3. Earned(s, p) = 0
      BY <3>2, SumStep, FS_EmptySet DEF Earned
    <3>4. RatingIn(s)'[p] = ratings[p] /\ opening'[s][p] = ratings[p] /\ ratings[p] \in Int
      BY <1>3, <1>5, <1>6 DEF RatingIn
    <3> QED BY <1>7, <2>1, <3>3, <3>4
  <2>2. CASE t # s
    <3>1. books[t] = "clean" /\ opening'[t] = opening[t]
      BY <1>3, <1>6, <2>2
    <3>2. RatingIn(t)' = archive'[t]
      BY <1>6, <2>2 DEF RatingIn
    <3>3. archive'[t] = RatingIn(t)
      BY <1>3, <1>6, RatingAssumption DEF RatingIn
    <3>4. RatingIn(t)[p] = opening[t][p] + Earned(t, p)
      BY <3>1 DEF BooksInv, BooksBalance
    <3> QED BY <1>7, <3>1, <3>2, <3>3, <3>4
  <2> QED BY <2>1, <2>2
<1>9. RecordedFinite'
  BY <1>2 DEF BooksInv, RecordedFinite, Status
<1>10. RecordedInOpened'
  <2>1. \A t \in Seasons : books[t] # "unopened" => books'[t] # "unopened"
    BY <1>3, <1>6
  <2>2. books'[s] # "unopened" /\ active' = s /\ s # NoSeason
    BY <1>3, <1>6, RatingAssumption
  <2> QED BY <1>2, <2>1, <2>2 DEF BooksInv, RecordedInOpened, Status
<1>11. UnratedHoldsNothing'
  BY <1>2 DEF BooksInv, UnratedHoldsNothing, Status, Zero
<1> QED BY <1>8, <1>9, <1>10, <1>11 DEF BooksInv

\* A step that touches neither ratings nor matches keeps the books.
LEMMA ApartBooks ==
  ASSUME BooksInv, UNCHANGED <<rvars, mvars, dispute, entering>>
  PROVE  BooksInv'
<1>1. \A s, p : Earned(s, p)' = Earned(s, p)
  BY DEF Earned, OnTheBooks, Status, mvars
<1>2. BooksBalance'
  BY <1>1 DEF BooksInv, BooksBalance, RatingIn, rvars
<1> QED BY <1>2 DEF BooksInv, RecordedFinite, RecordedInOpened, UnratedHoldsNothing, Status,
           Zero, rvars, mvars

\* The books of a club that has not opened a season are empty.
LEMMA InitBooks == Init => BooksInv
<1> SUFFICES ASSUME Init PROVE BooksInv
  OBVIOUS
<1>1. \A m \in Matches : Status(m) = "none"
  BY DEF Init, Status, NoRow
<1>2. RecordedFinite
  <2>1. {m \in Matches : Status(m) # "none"} = {}
    BY <1>1
  <2> QED BY <2>1, FS_EmptySet DEF RecordedFinite
<1>3. BooksBalance /\ RecordedInOpened
  BY <1>1 DEF Init, RatingInit, BooksBalance, RecordedInOpened
<1>4. UnratedHoldsNothing
  BY DEF Init, UnratedHoldsNothing
<1> QED BY <1>2, <1>3, <1>4 DEF BooksInv

\* Every step of the club keeps the books.
LEMMA NextBooks == LadderInv /\ BooksInv /\ [Next]_vars => BooksInv'
<1> SUFFICES ASSUME LadderInv, BooksInv, [Next]_vars PROVE BooksInv'
  OBVIOUS
<1>0. LadderInv' /\ RecordedInOpened /\ UnratedHoldsNothing
  BY NextInv DEF BooksInv
<1>1. ASSUME NEW m \in Matches, BookMove(m), UnratedHoldsNothing' PROVE BooksInv'
  BY <1>0, <1>1, BookMoveBalances, BookMoveRecords DEF BooksInv
<1>2. CASE ChallengeStep \/ UNCHANGED vars
  BY <1>2, ApartBooks DEF ChallengeStep, vars, dvars
<1>3. CASE SeasonStep
  BY <1>3, SeasonStepBooks
<1>4. ASSUME NEW m \in Matches, MatchStep(m) PROVE BooksInv'
  BY <1>0, <1>1, <1>4, MatchStepBooks, MatchStepUnrated
<1>5. ASSUME NEW m \in DirectMatches, DirectStep(m) PROVE BooksInv'
  BY <1>0, <1>1, <1>5, DirectApart, DirectStepBooks, DirectStepUnrated
<1>6. ASSUME NEW c \in Challenges, PlayStep(c) PROVE BooksInv'
  <2>1. c \in Matches
    BY DEF Matches
  <2> QED BY <1>0, <1>1, <1>6, <2>1, PlayStepBooks, PlayStepUnrated
<1> QED BY <1>2, <1>3, <1>4, <1>5, <1>6 DEF Next

\* What the books rest on: every unrated entry still being made holds no rating change,
\* every recorded match is in a season that was opened, and the books balance.
THEOREM BooksInvariant == Spec => [](LadderInv /\ BooksInv)
<1>1. Init => LadderInv /\ BooksInv
  BY InitInv, InitBooks
<1>2. (LadderInv /\ BooksInv) /\ [Next]_vars => (LadderInv /\ BooksInv)'
  BY NextInv, NextBooks
<1> QED BY <1>1, <1>2, PTL DEF Spec

\* In every season opened once and free of irregular postings, at any moment and in
\* any club, the rating of a player (the live one, or the archived one when the season
\* is closed) is the opening rating plus the deltas of the standing matches.
THEOREM BooksAlwaysBalance == Spec => []BooksBalance
<1>1. BooksInv => BooksBalance
  BY DEF BooksInv
<1> QED BY <1>1, BooksInvariant, PTL

-----------------------------------------------------------------------------
(* The archive.                                                            *)

\* Only a rollover, into the season that it closes, and the reversal of a match of a
\* closed season change archived ratings.
LEMMA ArchiveChanges ==
  ASSUME LadderInv, [Next]_vars, NEW s \in Seasons, archive'[s] # archive[s], s # active
  PROVE  \E m \in Matches : /\ match[m].season = s
                            /\ Status(m) = "confirmed"
                            /\ match'[m].status = "voided"
<1>0. archive \in [Seasons -> [Players -> Int]] /\ match \in [Matches -> MatchRows]
  BY DEF LadderInv, TypeOK, RatingTypeOK, LadderTypeOK
<1>1. ASSUME NEW m \in Matches, Status(m) = "confirmed", Reverse(match[m].season, delta[m]),
             NEW row, row.status = "voided", match' = [match EXCEPT ![m] = row]
      PROVE  match[m].season = s /\ match'[m].status = "voided"
  BY <1>0, <1>1 DEF Reverse
<1>2. ASSUME NEW m \in Matches, VoidMatchRow(m)
      PROVE  match[m].season = s /\ Status(m) = "confirmed" /\ match'[m].status = "voided"
  <2> DEFINE row == [match[m] EXCEPT !.status = "voided"]
  <2>1. match' = [match EXCEPT ![m] = row] /\ Status(m) = "confirmed" /\ Reverse(match[m].season, delta[m])
    BY <1>2 DEF VoidMatchRow, SetMatch
  <2>2. row.status = "voided"
    BY <1>0 DEF MatchRows
  <2> HIDE DEF row
  <2> QED BY <1>1, <2>1, <2>2
<1>3. ASSUME NEW m \in Matches, ConvertMatchRow(m)
      PROVE  match[m].season = s /\ Status(m) = "confirmed" /\ match'[m].status = "voided"
  <2> DEFINE gone == [match[m] EXCEPT !.rated = FALSE, !.event = "casual", !.status = "voided"]
             casual == [match[m] EXCEPT !.rated = FALSE, !.event = "casual"]
  <2>1. gone.status = "voided" /\ [casual EXCEPT !.status = "voided"] = gone
    BY <1>0 DEF MatchRows
  <2>2. /\ match' = [match EXCEPT ![m] = [casual EXCEPT !.status = "voided"]]
        /\ match[m].status = "confirmed" /\ Reverse(match[m].season, delta[m])
    BY <1>3 DEF ConvertMatchRow, SetMatch, ApplyResult, rvars
  <2> HIDE DEF gone, casual
  <2> QED BY <1>1, <2>1, <2>2 DEF Status
<1>4. ASSUME NEW m \in Matches, MatchStep(m) PROVE VoidMatchRow(m) \/ ConvertMatchRow(m)
  BY <1>4 DEF MatchStep, ConfirmResult, BoostMatch, VoidMatch, ConvertMatch, DisputeResult,
              ResolveRated, ResolveVoided, ResolveCasual, ApplyResult, rvars
<1>5. ASSUME NEW m \in DirectMatches, DirectStep(m) PROVE FALSE
  BY <1>5 DEF DirectStep, DirectInsert, DirectFinish, DirectDiscard, DirectLost, ApplyResult, rvars
<1>6. ASSUME NEW c \in Challenges, PlayStep(c) PROVE FALSE
  BY <1>6 DEF PlayStep, SubmitResult, ReportWalkover, ConfirmWalkover, RejectWalkover,
              ApplyResult, rvars
<1>7. ASSUME SeasonStep PROVE FALSE
  BY <1>0, <1>7 DEF SeasonStep, Season, ActivateSeason
<1>8. ~ChallengeStep /\ ~UNCHANGED vars
  BY DEF ChallengeStep, vars, rvars
<1> QED BY <1>2, <1>3, <1>4, <1>5, <1>6, <1>7, <1>8 DEF Next

\* The final ratings of a closed season change only to take off a match of that season
\* that is being voided, whatever is confirmed, boosted or reset in the present one.
THEOREM ClosedSeasonsStand == Spec => ArchiveOnlyCorrected
<1>1. LadderInv /\ [Next]_vars =>
        [\A s \in Seasons : archive'[s] # archive[s] =>
           \/ s = active
           \/ \E m \in Matches : /\ match[m].season = s
                                 /\ Status(m) = "confirmed"
                                 /\ match'[m].status = "voided"]_vars
  BY ArchiveChanges
<1> QED BY <1>1, Invariant, PTL DEF Spec, ArchiveOnlyCorrected
=============================================================================
