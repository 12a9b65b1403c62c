---------------------------- MODULE SeasonRatings ----------------------------
(***************************************************************************)
(* The rating tables: `ratings` (one live number per player, shared by all *)
(* seasons), `season_final_ratings` (the archive written when a season is  *)
(* closed) and the `active_flag` of `seasons`.  One discipline is          *)
(* modelled: singles and doubles live in separate columns that no          *)
(* statement mixes.                                                        *)
(*                                                                         *)
(* The functions of this component run inside the transaction of their     *)
(* caller, under row locks the caller took, so they are operators the      *)
(* module Ladder builds its actions from.  ActivateSeason is a transaction *)
(* of its own.                                                             *)
(***************************************************************************)
EXTENDS Club, Integers

CONSTANTS
    Seasons,    \* seasons.id
    NoSeason,   \* what "SELECT id FROM seasons WHERE active_flag" finds in none
    Lo, Hi,     \* rating_bounds(): min_elo and max_elo
    Baseline,   \* rating_defaults.default_elo
    Tier,       \* season_settings.tier_size
    Grain,      \* the resolution of a boost or of a compression factor: 1/Grain
    MaxOpenings \* bound: how often a season is activated

ASSUME RatingAssumption ==
    /\ NoSeason \notin Seasons
    /\ Lo \in Nat /\ Hi \in Nat /\ Lo < Hi
    /\ Baseline \in Lo..Hi
    /\ Tier \in Nat \ {0}
    /\ Grain \in Nat \ {0}
    /\ MaxOpenings \in Nat

VARIABLES
    live,       \* ratings.{singles,doubles}_elo
    archive,    \* season_final_ratings; zeros stand for the missing rows
    active,     \* the season whose active_flag is set
    openings,   \* how many activations there have been (only to bound them)
    \* History, written and never read by an action:
    opening,    \* the ratings each season was opened with
    books       \* whether the arithmetic of a season can still be trusted

rvars == <<live, archive, active, openings, opening, books>>

BookStates == {"unopened", "clean", "disturbed"}

RatingTypeOK ==
    /\ live \in [Players -> Int]
    /\ archive \in [Seasons -> [Players -> Int]]
    /\ active \in Seasons \cup {NoSeason}
    /\ openings \in Nat
    /\ opening \in [Seasons -> [Players -> Int]]
    /\ books \in [Seasons -> BookStates]

Zero == [p \in Players |-> 0]

RatingInit ==
    /\ live = [p \in Players |-> Baseline]
    /\ archive = [s \in Seasons |-> Zero]
    /\ active = NoSeason
    /\ openings = 0
    /\ opening = [s \in Seasons |-> Zero]
    /\ books = [s \in Seasons |-> "unopened"]

-----------------------------------------------------------------------------
\* History: the seasons S no longer add up.
Disturbed(S) ==
    [s \in Seasons |-> IF s \in S /\ books[s] = "clean" THEN "disturbed" ELSE books[s]]

Clamp(x) == IF x < Lo THEN Lo ELSE IF x > Hi THEN Hi ELSE x

\* ROUND(d * b / Grain), halves away from zero, as Postgres rounds a numeric.
Scaled(d, b) ==
    IF d >= 0 THEN (2 * d * b + Grain) \div (2 * Grain)
              ELSE -((2 * (-d) * b + Grain) \div (2 * Grain))

\* apply_rating_delta for each player of a match: what lands is what the clamp
\* lets through of the delta asked for, read from the live row.
Landing(who, asked) ==
    [p \in Players |-> IF p \in who THEN Clamp(live[p] + asked[p]) - live[p] ELSE 0]

Plus(r, d)  == [p \in Players |-> r[p] + d[p]]
Minus(r, d) == [p \in Players |-> r[p] - d[p]]

\* Mutant: as before 00249, every reversal moves the live ratings.
ReverseAlwaysLive(season, d) == live' = Minus(live, d) /\ UNCHANGED archive

\* reverse_match_result: a match of a closed season is taken off that season's
\* archive, any other one off the live ratings.  Neither write is clamped.
Reverse(season, d) ==
    IF active # NoSeason /\ season # NoSeason /\ season # active
    THEN /\ archive' = [archive EXCEPT ![season] = Minus(@, d)]
         /\ UNCHANGED live
    ELSE /\ live' = Minus(live, d)
         /\ UNCHANGED archive

-----------------------------------------------------------------------------
Policies == {"carry", "soft", "full"}

\* The soft reset: towards the club mean by k/Grain, but never below the floor
\* of the player's own tier nor below the baseline.
TierFloor(r) ==
    LET above == (r - Baseline) \div Tier
    IN  Baseline + Tier * (IF above > 0 THEN above ELSE 0)

Compressed(r, mean, k) ==
    LET pulled == (2 * (mean * k + r * (Grain - k)) + Grain) \div (2 * Grain)
    IN  IF pulled > TierFloor(r) THEN pulled ELSE TierFloor(r)

Reset(policy, mean, k) ==
    [p \in Players |->
        IF policy = "full" THEN Baseline
        ELSE IF policy = "soft" THEN Compressed(live[p], mean, k)
        ELSE live[p]]

\* Mutant: the closing ratings are filed under the season that opens.
ActivateArchivesOpened(s, policy, mean, k) ==
    /\ openings < MaxOpenings
    /\ openings' = openings + 1
    /\ archive' = IF active = NoSeason THEN archive ELSE [archive EXCEPT ![s] = live]
    /\ active' = s
    /\ live' = Reset(policy, mean, k)
    /\ opening' = [opening EXCEPT ![s] = Reset(policy, mean, k)]
    /\ books' = [books EXCEPT ![s] = IF @ = "unopened" THEN "clean" ELSE "disturbed"]

\* activate_season: archive the season that closes (an upsert), move the flag,
\* then carry, compress or reset the live ratings.  It reads no match: a result
\* that is still unconfirmed crosses into the new season.  Nothing stops a
\* season from being activated again.
ActivateSeason(s, policy, mean, k) ==
    /\ openings < MaxOpenings
    /\ openings' = openings + 1
    /\ archive' = IF active = NoSeason THEN archive ELSE [archive EXCEPT ![active] = live]
    /\ active' = s
    /\ live' = Reset(policy, mean, k)
    /\ opening' = [opening EXCEPT ![s] = Reset(policy, mean, k)]
    /\ books' = [books EXCEPT ![s] = IF @ = "unopened" THEN "clean" ELSE "disturbed"]
=============================================================================
