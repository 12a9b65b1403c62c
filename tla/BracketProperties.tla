---------------------------- MODULE BracketProperties ---------------------------
(***************************************************************************)
(* What the results of a bracket promise.  Which operations may run at     *)
(* once without breaking a promise differs from promise to promise; the    *)
(* instances in MCBracket say for which each one is checked.               *)
(***************************************************************************)
EXTENDS BracketResults

Quiet == \A d \in Desks : Idle(d)
Begun(op) == \E i \in DOMAIN begun : begun[i] = op
IsDecided(m) == row[m].status \in Decided
Contested(m) == row[m].win # None /\ row[m].lose # None

RowType ==
    [status : Status, a : Entries \cup {None}, b : Entries \cup {None},
     win : Entries \cup {None}, lose : Entries \cup {None},
     rated : (Entries \X Entries) \cup {NoPair}]

(* Every match has a row of the right shape; a rating that counts is one   *)
(* of two entries, for "an unopposed walkover stays unrated on purpose"    *)
(* (results.ts:678).                                                       *)
TypeOK ==
    /\ row \in [Matches -> RowType]
    /\ swing \in [Entries -> Int]
    /\ standing \in [Entries -> {"in", "no_show", "out"}]
    /\ begun \in Seq(Ops) /\ faults \in Nat
-----------------------------------------------------------------------------
(* A rating that counts is the rating of the result on the row: no order   *)
(* of the requests of two desks, and no lost answer, leaves a match rated  *)
(* for a result it no longer shows (_internal.ts, undoDecidedResult).      *)
RatedIsResult ==
    \A m \in Matches : row[m].rated # NoPair =>
        IsDecided(m) /\ row[m].rated = <<row[m].win, row[m].lose>>

(* Once the desks are idle and nothing failed, the rated matches are       *)
(* exactly those decided between two entries, each for its own result:     *)
(* a correction rates anew what it took back (editMatchResult).            *)
DecidedIsRated ==
    Quiet /\ faults = 0 => \A m \in Matches :
        row[m].rated = IF IsDecided(m) /\ Contested(m)
                       THEN <<row[m].win, row[m].lose>> ELSE NoPair

(* While a rating counts, the result it was computed from does not change  *)
(* under it.  A match that is not open "already has a result (or was       *)
(* voided) and is history -- a late withdrawal must never rewrite it"      *)
(* (tournament-withdrawal.ts:38-40).                                       *)
ResultStands ==
    [][\A m \in Matches : row[m].rated # NoPair =>
           \/ row'[m].rated = NoPair
           \/ /\ row'[m].rated = row[m].rated /\ row'[m].status = row[m].status
              /\ row'[m].win = row[m].win /\ row'[m].lose = row[m].lose]_resultVars

(* An entry's swing is what its rated wins and losses add up to, however   *)
(* often results were corrected, undone or voided in between               *)
(* (reverse_tournament_match_rating).                                      *)
SwingAddsUp ==
    \A e \in Entries :
        swing[e] = Cardinality({m \in Matches : row[m].rated[1] = e})
                     - Cardinality({m \in Matches : row[m].rated[2] = e})

(* While nothing has failed, who won and lost a decided match still sits   *)
(* in it, each on a side of their own, and where nobody is recorded the    *)
(* side is still empty: no later operation on an earlier match moves an    *)
(* entry into or out of a match that has a result                          *)
(* (assertDownstreamUndecided).                                            *)
WinnerPlayed ==
    faults = 0 => \A m \in Matches : IsDecided(m) =>
        /\ row[m].win = row[m].lose => row[m].win = None
        /\ \E side \in Sides : row[m].win = row[m][side] /\ row[m].lose = row[m][Other(side)]

(* What a correction to an empty side leaves in the next slot stays there, *)
(* and so does what a failed request left half-way.                        *)
Regular == faults = 0 /\ ~Begun("reaward")

(* Between regular operations, a match that may be called to a court has   *)
(* both its entries, also after a result before it was taken back          *)
(* (clearRoutedEntry).                                                     *)
ReadyIsKnown ==
    Quiet /\ Regular => \A m \in Matches : row[m].status \in {"ready", "live"} => Known(row[m])

(* Between regular operations, a slot fed by a match is empty, or holds    *)
(* the entry which that match sends there as it is decided now: nobody is  *)
(* left in a later round by a result that was undone, voided or corrected  *)
(* (clearAdvancedEntries).                                                 *)
Fed(slot, e, m) ==
    slot # NoSlot => row[slot[1]][slot[2]] \in {None} \cup (IF IsDecided(m) THEN {e} ELSE {})

SlotsFollowResults ==
    Quiet /\ Regular => \A m \in Matches :
        Fed(WinnerTo[m], row[m].win, m) /\ Fed(LoserTo[m], row[m].lose, m)

(* A knockout draw: winners go along a tree and losers, if anywhere, to a  *)
(* side of their own (brackets.ts:1048-1056 and 1413-1426), so that each   *)
(* slot is fed by one result at most and the draw leaves it empty, and the *)
(* two sides of a match have no entry in common that could ever reach it.  *)
(* reach[m][side] are the entries that can reach that side of m.           *)
FedBy(m) == {WinnerTo[m], LoserTo[m]} \ {NoSlot}

Knockout(reach) ==
    /\ \A m \in Matches : reach[m]["a"] \cap reach[m]["b"] = {}
    /\ \A m \in Matches, side \in Sides : Seats[m][side] \in reach[m][side] \cup {None}
    /\ \A m \in Matches : \A slot \in FedBy(m) :
           /\ Seats[slot[1]][slot[2]] = None
           /\ reach[m]["a"] \cup reach[m]["b"] \subseteq reach[slot[1]][slot[2]]
    /\ \A m, n \in Matches :
           /\ WinnerTo[m] = WinnerTo[n] => m = n \/ WinnerTo[m] = NoSlot
           /\ LoserTo[m] = LoserTo[n] => m = n \/ LoserTo[m] = NoSlot
           /\ WinnerTo[m] = LoserTo[n] => WinnerTo[m] = NoSlot

(* A match is rated only after the decided matches its entries came from:  *)
(* the rating of a later round is computed from ratings that include the   *)
(* earlier one while nothing fails, also when settling a match decides the *)
(* next one at once (settleAdvancedMatch).                                 *)
Feeds(m, n) == \E s \in Sides : <<n, s>> \in {WinnerTo[m], LoserTo[m]} /\ row[n][s] # None

RatedInOrder ==
    [][\A m, n \in Matches :
           /\ faults = 0 /\ row[n].rated = NoPair /\ row'[n].rated # NoPair
           /\ Feeds(m, n) /\ IsDecided(m) /\ Contested(m)
           => row[m].rated # NoPair]_resultVars
=============================================================================
