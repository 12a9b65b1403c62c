----------------------------- MODULE BracketResults -----------------------------
(***************************************************************************)
(* The results of a tournament event that is being played: matches of a    *)
(* bracket, the desks that enter, forfeit, void, restore, correct and undo *)
(* results, the ratings that follow, and the entries moved along the       *)
(* bracket.                                                                *)
(*                                                                         *)
(* A desk's operation is not a transaction: it reads the match, and then   *)
(* makes one request to the database after another, deciding from what it  *)
(* read.  Here an operation in progress is the list of the requests it has *)
(* still to make, todo[d]; each step runs the first of them, which may put *)
(* others in front of the rest or, when it is refused, drop them all.      *)
(*                                                                         *)
(* Scores, head starts, notes, audit rows and notifications are left out,  *)
(* and so are byes, which the draw fills and no operation accepts.         *)
(***************************************************************************)
EXTENDS Integers, Sequences, FiniteSets

CONSTANTS
    Desks,      \* officers at work at once
    Matches,
    Rounds,     \* the matches in the order of their rounds
    Entries,    \* members or pairs
    WinnerTo,   \* WinnerTo[m]: the slot <<match, side>> m's winner goes to, or NoSlot
    LoserTo,    \* the same for its loser (the third-place match)
    Seats,      \* Seats[m]: the sides the draw has filled
    Ops,        \* the operations the desks of this instance use
    MaxOps,     \* bound: operations begun
    MaxFaults   \* bound: requests that fail

None == "none"
Sides == {"a", "b"}
NoSlot == <<None, "a">>
Slots == Matches \X Sides
Open == {"pending", "ready", "live"}
Decided == {"completed", "walkover"}
Status == Open \cup Decided \cup {"voided"}

ASSUME BracketAssumption ==
    /\ None \notin Matches \cup Entries /\ IsFiniteSet(Matches)
    /\ Rounds \in Seq(Matches)
    /\ WinnerTo \in [Matches -> Slots \cup {NoSlot}]
    /\ LoserTo \in [Matches -> Slots \cup {NoSlot}]
    /\ \A m \in Matches : WinnerTo[m][1] # m /\ LoserTo[m][1] # m
    /\ Seats \in [Matches -> [Sides -> Entries \cup {None}]]
    /\ MaxOps \in Nat /\ MaxFaults \in Nat

VARIABLES
    row,        \* row[m]: the tournament_matches row
    swing,      \* swing[e]: tournament_participants.elo_change, a win counting 1
    standing,   \* standing[e]: "in", "no_show" or "out" (withdrawn, disqualified)
    todo,       \* todo[d]: the requests d's operation has still to make
    begun,      \* the operations begun, in their order
    faults      \* number of requests that failed

resultVars == <<row, swing, standing, todo, begun, faults>>
-----------------------------------------------------------------------------
(* A match row: its sides a and b, its recorded winner and loser, and the  *)
(* winner and loser its rating was computed for (elo_snapshot), or NoPair. *)
NoPair == <<None, None>>
Other(side) == IF side = "a" THEN "b" ELSE "a"
Known(r) == r.a # None /\ r.b # None
Playable(r) == IF Known(r) THEN "ready" ELSE "pending"

(* The row still has the occupants that were read; an empty side is not    *)
(* compared (matchSlotFilter).                                             *)
SameOccupants(r, was) == \A s \in Sides : was[s] # None => r[s] = was[s]

(* The requests of an operation.                                           *)
Idle(d) == todo[d] = <<>>
Doing(d, what) == todo[d] # <<>> /\ Head(todo[d]).do = what
Then(d, tasks) == todo' = [todo EXCEPT ![d] = tasks \o Tail(@)]
Go(d) == Then(d, <<>>)
Stop(d) == todo' = [todo EXCEPT ![d] = <<>>]

(* An update with conditions: matching no row is a refusal.                *)
CompareAndSwap(d, m, holds, new) ==
    IF holds
    THEN row' = [row EXCEPT ![m] = new] /\ Go(d)
    ELSE UNCHANGED row /\ Stop(d)

(* A loser goes somewhere only if there is one; a winner always, so that a *)
(* result for an empty side moves None.                                    *)
RouteTasks(slot, e, onDecided) ==
    IF slot = NoSlot THEN <<>>
    ELSE <<[do |-> "route", slot |-> slot, e |-> e, onDecided |-> onDecided]>>
RouteLoser(slot, e, onDecided) ==
    IF e = None THEN <<>> ELSE RouteTasks(slot, e, onDecided)

(* Mutant: the entries are advanced before the result is rated.           *)
AdvanceThenRate(m, was, side, to) ==
    LET onDecided == IF to = "walkover" THEN "skip" ELSE "refuse"
    IN  <<[do |-> "write", m |-> m, was |-> was, to |-> to,
           win |-> was[side], lose |-> was[Other(side)]]>>
        \o RouteTasks(WinnerTo[m], was[side], onDecided)
        \o RouteLoser(LoserTo[m], was[Other(side)], onDecided)
        \o <<[do |-> "look", m |-> m, prior |-> <<was>>]>>

(* Recording a result on m, read as was: write it, rate it, advance the    *)
(* winner and then the loser.                                              *)
ResultTasks(m, was, side, to) ==
    LET onDecided == IF to = "walkover" THEN "skip" ELSE "refuse"
    IN  <<[do |-> "write", m |-> m, was |-> was, to |-> to,
           win |-> was[side], lose |-> was[Other(side)]],
          [do |-> "look", m |-> m, prior |-> <<was>>]>>
        \o RouteTasks(WinnerTo[m], was[side], onDecided)
        \o RouteLoser(LoserTo[m], was[Other(side)], onDecided)

OnSlot(slot, task) == IF slot = NoSlot THEN <<>> ELSE <<task>>
GuardTasks(m) ==
    OnSlot(WinnerTo[m], [do |-> "guard", m |-> WinnerTo[m][1]])
        \o OnSlot(LoserTo[m], [do |-> "guard", m |-> LoserTo[m][1]])
ReverseTasks(m, was) == IF was.rated = NoPair THEN <<>> ELSE <<[do |-> "reverse", m |-> m]>>

(* Mutant: the loser is left in the third-place match.                     *)
ClearWinnerOnly(m, was) ==
    IF was.win = None THEN <<>>
    ELSE OnSlot(WinnerTo[m], [do |-> "find", slot |-> WinnerTo[m], e |-> was.win])

ClearTasks(m, was) ==
    (IF was.win = None THEN <<>>
     ELSE OnSlot(WinnerTo[m], [do |-> "find", slot |-> WinnerTo[m], e |-> was.win]))
    \o (IF was.lose = None THEN <<>>
        ELSE OnSlot(LoserTo[m], [do |-> "find", slot |-> LoserTo[m], e |-> was.lose]))

PlaceTasks(slot, e) ==
    IF slot = NoSlot \/ e = None THEN <<>> ELSE <<[do |-> "place", slot |-> slot, e |-> e]>>
-----------------------------------------------------------------------------
(* Beginning an operation: the match is read and checked.                  *)

Begin(d, op, tasks) ==
    /\ op \in Ops
    /\ Idle(d) /\ Len(begun) < MaxOps
    /\ begun' = Append(begun, op)
    /\ todo' = [todo EXCEPT ![d] = tasks]
    /\ UNCHANGED <<row, swing, faults>>

(* enterMatchResult: side won, be it empty.                                *)
Enter(d, m, side) ==
    /\ row[m].status \in Open
    /\ Begin(d, "enter", ResultTasks(m, row[m], side, "completed"))
    /\ UNCHANGED standing

(* enterWalkover: the winning side must be there, the other may be empty.  *)
Walkover(d, m, side) ==
    /\ row[m].status \in Open /\ row[m][side] # None
    /\ Begin(d, "walkover", ResultTasks(m, row[m], side, "walkover"))
    /\ UNCHANGED standing

Void(d, m) ==
    /\ row[m].status # "voided"
    /\ Begin(d, "void", GuardTasks(m) \o ReverseTasks(m, row[m]) \o ClearTasks(m, row[m])
                        \o <<[do |-> "void", m |-> m, was |-> row[m]]>>)
    /\ UNCHANGED standing

(* recordDoubleNoShow: the row is claimed before anybody is marked absent. *)
DoubleNoShow(d, m) ==
    /\ row[m].status \in Open /\ Known(row[m])
    /\ Begin(d, "noshow",
             GuardTasks(m) \o ReverseTasks(m, row[m])
             \o <<[do |-> "noshow", m |-> m, was |-> row[m]]>>
             \o ClearTasks(m, row[m])
             \o <<[do |-> "mark", who |-> {row[m].a, row[m].b}]>>)
    /\ UNCHANGED standing

(* Mutant: a restored match is always ready.                               *)
UnvoidReady(d, m) ==
    /\ row[m].status = "voided"
    /\ Begin(d, "unvoid", ReverseTasks(m, row[m])
                          \o <<[do |-> "unvoid", m |-> m, to |-> "ready"]>>)
    /\ UNCHANGED standing

Unvoid(d, m) ==
    /\ row[m].status = "voided"
    /\ Begin(d, "unvoid", ReverseTasks(m, row[m])
                          \o <<[do |-> "unvoid", m |-> m, to |-> Playable(row[m])]>>)
    /\ UNCHANGED standing

(* Mutant: the matches after it may have been decided.                     *)
UndoUnguarded(d, m) ==
    /\ row[m].status \in Decided
    /\ Begin(d, "undo", ReverseTasks(m, row[m]) \o ClearTasks(m, row[m])
                        \o <<[do |-> "undo", m |-> m, to |-> Playable(row[m])]>>)
    /\ UNCHANGED standing

Undo(d, m) ==
    /\ row[m].status \in Decided
    /\ Begin(d, "undo", GuardTasks(m) \o ReverseTasks(m, row[m]) \o ClearTasks(m, row[m])
                        \o <<[do |-> "undo", m |-> m, to |-> Playable(row[m])]>>)
    /\ UNCHANGED standing

(* Corrections that give a match with one side empty to its other side are *)
(* told apart in what has begun.                                           *)
Correction(r, side) == IF ~Known(r) /\ r.win # r[side] THEN "reaward" ELSE "edit"

(* Mutant: a correction does not take the old rating back.                 *)
EditUnreversed(d, m, side, played) ==
    LET r == row[m]
    IN  /\ r.status \in Decided
        /\ Begin(d, Correction(r, side),
                 GuardTasks(m)
                 \o <<[do |-> "edit", m |-> m, was |-> r, win |-> r[side], lose |-> r[Other(side)],
                       to |-> IF played THEN "completed" ELSE r.status]>>
                 \o PlaceTasks(WinnerTo[m], r[side])
                 \o PlaceTasks(LoserTo[m], r[Other(side)])
                 \o <<[do |-> "look", m |-> m, prior |-> <<>>]>>)
        /\ UNCHANGED standing

(* editMatchResult: side won, be it empty; a walkover given scores becomes *)
(* a played match.  The slots it feeds are written outright, except with   *)
(* nobody.                                                                 *)
Edit(d, m, side, played) ==
    LET r == row[m]
    IN  /\ r.status \in Decided
        /\ Begin(d, Correction(r, side),
                 GuardTasks(m) \o ReverseTasks(m, r)
                 \o <<[do |-> "edit", m |-> m, was |-> r, win |-> r[side], lose |-> r[Other(side)],
                       to |-> IF played THEN "completed" ELSE r.status]>>
                 \o PlaceTasks(WinnerTo[m], r[side])
                 \o PlaceTasks(LoserTo[m], r[Other(side)])
                 \o <<[do |-> "look", m |-> m, prior |-> <<>>]>>)
        /\ UNCHANGED standing

(* setMatchEntry: fill an empty side by hand with an entry that is not     *)
(* out, or (e = None) empty it.                                            *)
SetEntry(d, m, side, e) ==
    LET r == row[m]
    IN  /\ r.status \in Open
        /\ IF e = None THEN r[side] # None
           ELSE r[side] \in {None, e} /\ e # r[Other(side)] /\ standing[e] # "out"
        /\ Begin(d, "seat", <<[do |-> "seat", m |-> m, was |-> r, side |-> side, e |-> e]>>)
        /\ UNCHANGED standing

(* setMatchLive: on court, and back off it.                                *)
SetLive(d, m) ==
    /\ \/ row[m].status \in {"pending", "ready"} /\ Known(row[m])
       \/ row[m].status = "live"
    /\ Begin(d, "live", <<[do |-> "call", m |-> m, from |-> row[m].status]>>)
    /\ UNCHANGED standing

(* exitDraw: the entry is out, then its open matches are forfeited.  It    *)
(* may be repeated for an entry that is out already.                       *)
ExitDraw(d, e) ==
    /\ Begin(d, "exit", <<[do |-> "list", e |-> e]>>)
    /\ standing' = [standing EXCEPT ![e] = "out"]
-----------------------------------------------------------------------------
(* The requests.                                                           *)

(* Mutant: the result is written whatever the row shows now.               *)
WriteOverResult(d) ==
    LET k == Head(todo[d])
        r == row[k.m]
    IN  /\ Doing(d, "write")
        /\ CompareAndSwap(d, k.m, k.to = "completed" => SameOccupants(r, k.was),
               [r EXCEPT !.status = k.to, !.win = k.win, !.lose = k.lose])
        /\ UNCHANGED <<swing, standing, begun, faults>>

Write(d) ==
    LET k == Head(todo[d])
        r == row[k.m]
    IN  /\ Doing(d, "write")
        /\ CompareAndSwap(d, k.m,
               r.status = k.was.status /\ (k.to = "completed" => SameOccupants(r, k.was)),
               [r EXCEPT !.status = k.to, !.win = k.win, !.lose = k.lose])
        /\ UNCHANGED <<swing, standing, begun, faults>>

(* Mutant: a match with one side empty is rated.                           *)
LookUnopposed(d) ==
    LET k == Head(todo[d])
        r == row[k.m]
    IN  /\ Doing(d, "look")
        /\ IF r.status = "voided" \/ r.rated # NoPair THEN Go(d)
           ELSE Then(d, <<[do |-> "rate", m |-> k.m, for |-> <<r.win, r.lose>>, prior |-> k.prior]>>)
        /\ UNCHANGED <<row, swing, standing, begun, faults>>

(* applyTournamentMatchElo reads the row it is to rate, and returns        *)
(* quietly when there is nothing to rate.                                  *)
Look(d) ==
    LET k == Head(todo[d])
        r == row[k.m]
    IN  /\ Doing(d, "look")
        /\ IF r.status = "voided" \/ r.rated # NoPair \/ r.win = None \/ r.lose = None
           THEN Go(d)
           ELSE Then(d, <<[do |-> "rate", m |-> k.m, for |-> <<r.win, r.lose>>, prior |-> k.prior]>>)
        /\ UNCHANGED <<row, swing, standing, begun, faults>>

(* A rating that fails takes the result back off, where the row that was   *)
(* read is at hand; a correction just stops.                               *)
GiveUpRating(d) ==
    LET k == Head(todo[d])
    IN  todo' = [todo EXCEPT ![d] =
            IF k.prior = <<>> THEN <<>> ELSE <<[do |-> "restore", m |-> k.m, was |-> k.prior[1]]>>]

(* apply_tournament_match_rating.                                          *)
ApplyRating(m, for) ==
    /\ row' = [row EXCEPT ![m].rated = for]
    /\ swing' = [swing EXCEPT ![for[1]] = @ + 1, ![for[2]] = @ - 1]

Rate(d) ==
    LET k == Head(todo[d])
    IN  /\ Doing(d, "rate")
        /\ IF row[k.m].rated = NoPair
           THEN ApplyRating(k.m, k.for) /\ Go(d)
           ELSE GiveUpRating(d) /\ UNCHANGED <<row, swing>>
        /\ UNCHANGED <<standing, begun, faults>>

(* Mutant: the result is taken off a row that has been rated.              *)
RestoreRated(d) ==
    LET k == Head(todo[d])
    IN  /\ Doing(d, "restore")
        /\ row' = [row EXCEPT ![k.m].status = k.was.status,
                              ![k.m].win = k.was.win, ![k.m].lose = k.was.lose]
        /\ Stop(d)
        /\ UNCHANGED <<swing, standing, begun, faults>>

(* undoDecidedResult: only while the row is unrated; the operation ends.   *)
Restore(d) ==
    LET k == Head(todo[d])
    IN  /\ Doing(d, "restore")
        /\ row' = IF row[k.m].rated # NoPair THEN row
                  ELSE [row EXCEPT ![k.m].status = k.was.status,
                                   ![k.m].win = k.was.win, ![k.m].lose = k.was.lose]
        /\ Stop(d)
        /\ UNCHANGED <<swing, standing, begun, faults>>

(* routeEntry reads where the entry goes, and writes there.                *)
Advance(d) ==
    LET k == Head(todo[d])
    IN  Then(d, <<[do |-> "place", slot |-> k.slot, e |-> k.e],
                  [do |-> "settle", m |-> k.slot[1]]>>)

Route(d) ==
    LET k == Head(todo[d])
    IN  /\ Doing(d, "route")
        /\ \/ row[k.slot[1]].status \in {"pending", "ready"} /\ Advance(d)
           \/ row[k.slot[1]].status \notin {"pending", "ready"}
              /\ IF k.onDecided = "skip" THEN Go(d) ELSE Stop(d)
        /\ UNCHANGED <<row, swing, standing, begun, faults>>

Place(d) ==
    LET k == Head(todo[d])
    IN  /\ Doing(d, "place")
        /\ row' = [row EXCEPT ![k.slot[1]][k.slot[2]] = k.e]
        /\ Go(d)
        /\ UNCHANGED <<swing, standing, begun, faults>>

(* settleAdvancedMatch: when both sides are known, a side that is out      *)
(* forfeits to one that is not; otherwise the match is ready.              *)
Settle(d) ==
    LET k == Head(todo[d])
        r == row[k.m]
        out == {s \in Sides : standing[r[s]] = "out"}
    IN  /\ Doing(d, "settle")
        /\ CASE ~Known(r) -> Go(d)
             [] Known(r) /\ Cardinality(out) = 1 ->
                    Then(d, ResultTasks(k.m, r, CHOOSE s \in Sides \ out : TRUE, "walkover"))
             [] OTHER -> Then(d, <<[do |-> "ready", m |-> k.m]>>)
        /\ UNCHANGED <<row, swing, standing, begun, faults>>

Ready(d) ==
    LET k == Head(todo[d])
    IN  /\ Doing(d, "ready")
        /\ row' = IF row[k.m].status \in {"pending", "ready"}
                  THEN [row EXCEPT ![k.m].status = "ready"] ELSE row
        /\ Go(d)
        /\ UNCHANGED <<swing, standing, begun, faults>>

(* assertDownstreamUndecided.                                              *)
Guard(d) ==
    /\ Doing(d, "guard")
    /\ IF row[Head(todo[d]).m].status \in Decided THEN Stop(d) ELSE Go(d)
    /\ UNCHANGED <<row, swing, standing, begun, faults>>

(* Mutant: only the snapshot is cleared, the swing stays.                  *)
ReverseSnapshotOnly(d) ==
    /\ Doing(d, "reverse")
    /\ row' = [row EXCEPT ![Head(todo[d]).m].rated = NoPair]
    /\ Go(d)
    /\ UNCHANGED <<swing, standing, begun, faults>>

(* reverse_tournament_match_rating: the swing is taken back from those of  *)
(* the snapshot who are the row's winner or loser now.                     *)
Reverse(d) ==
    LET k == Head(todo[d])
        r == row[k.m]
    IN  /\ Doing(d, "reverse")
        /\ row' = [row EXCEPT ![k.m].rated = NoPair]
        /\ swing' = [e \in Entries |->
               IF e \in {r.win, r.lose}
               THEN swing[e] - (CASE e = r.rated[1] -> 1 [] e = r.rated[2] -> -1 [] OTHER -> 0)
               ELSE swing[e]]
        /\ Go(d)
        /\ UNCHANGED <<standing, begun, faults>>

(* clearRoutedEntry: read the slot, then empty it if it still holds the    *)
(* entry, with the status computed from the read.                          *)
Find(d) ==
    LET k == Head(todo[d])
        r == row[k.slot[1]]
    IN  /\ Doing(d, "find")
        /\ IF r[k.slot[2]] # k.e THEN Go(d)
           ELSE Then(d, <<[do |-> "clear", slot |-> k.slot, e |-> k.e,
                            to |-> IF r.status \in {"ready", "live"} THEN "pending" ELSE r.status]>>)
        /\ UNCHANGED <<row, swing, standing, begun, faults>>

Clear(d) ==
    LET k == Head(todo[d])
    IN  /\ Doing(d, "clear")
        /\ row' = IF row[k.slot[1]][k.slot[2]] # k.e THEN row
                  ELSE [row EXCEPT ![k.slot[1]] = [[@ EXCEPT ![k.slot[2]] = None] EXCEPT !.status = k.to]]
        /\ Go(d)
        /\ UNCHANGED <<swing, standing, begun, faults>>

(* The three conditions of an erasure.                                     *)
MayErase(r, was) == r.status = was.status /\ r.rated = NoPair /\ SameOccupants(r, was)

WriteVoid(d) ==
    LET k == Head(todo[d])
        r == row[k.m]
    IN  /\ Doing(d, "void")
        /\ CompareAndSwap(d, k.m, MayErase(r, k.was), [r EXCEPT !.status = "voided"])
        /\ UNCHANGED <<swing, standing, begun, faults>>

WriteNoShow(d) ==
    LET k == Head(todo[d])
        r == row[k.m]
    IN  /\ Doing(d, "noshow")
        /\ CompareAndSwap(d, k.m, MayErase(r, k.was),
               [r EXCEPT !.status = "voided", !.win = None, !.lose = None])
        /\ UNCHANGED <<swing, standing, begun, faults>>

(* mark_field_entries_no_show: both or neither.                            *)
Mark(d) ==
    LET who == Head(todo[d]).who
    IN  /\ Doing(d, "mark")
        /\ standing' = IF \E e \in who : standing[e] = "out" THEN standing
                       ELSE [e \in Entries |-> IF e \in who THEN "no_show" ELSE standing[e]]
        /\ Go(d)
        /\ UNCHANGED <<row, swing, begun, faults>>

WriteUnvoid(d) ==
    LET k == Head(todo[d])
        r == row[k.m]
    IN  /\ Doing(d, "unvoid")
        /\ CompareAndSwap(d, k.m, r.status = "voided",
               [r EXCEPT !.status = k.to, !.win = None, !.lose = None])
        /\ UNCHANGED <<swing, standing, begun, faults>>

(* The reset of an undo has no condition.                                  *)
WriteUndo(d) ==
    LET k == Head(todo[d])
    IN  /\ Doing(d, "undo")
        /\ CompareAndSwap(d, k.m, TRUE,
               [row[k.m] EXCEPT !.status = k.to, !.win = None, !.lose = None])
        /\ UNCHANGED <<swing, standing, begun, faults>>

WriteEdit(d) ==
    LET k == Head(todo[d])
        r == row[k.m]
    IN  /\ Doing(d, "edit")
        /\ CompareAndSwap(d, k.m, r.status = k.was.status /\ SameOccupants(r, k.was),
               [r EXCEPT !.status = k.to, !.win = k.win, !.lose = k.lose])
        /\ UNCHANGED <<swing, standing, begun, faults>>

(* Both sides are compared, an empty one too.                              *)
WriteSeat(d) ==
    LET k == Head(todo[d])
        r == row[k.m]
        status == IF k.e # None /\ k.was[Other(k.side)] # None THEN "ready" ELSE "pending"
    IN  /\ Doing(d, "seat")
        /\ CompareAndSwap(d, k.m,
               r.status = k.was.status /\ \A s \in Sides : r[s] = k.was[s],
               [[r EXCEPT ![k.side] = k.e] EXCEPT !.status = status])
        /\ UNCHANGED <<swing, standing, begun, faults>>

WriteLive(d) ==
    LET k == Head(todo[d])
        r == row[k.m]
    IN  /\ Doing(d, "call")
        /\ CompareAndSwap(d, k.m, r.status = k.from,
               [r EXCEPT !.status = IF k.from = "live" THEN "ready" ELSE "live"])
        /\ UNCHANGED <<swing, standing, begun, faults>>

(* forfeitOpenMatchesForEntry: the list is read once, in the order of the  *)
(* rounds, each match again before it is forfeited.                        *)
In(e, r) == e \in {r.a, r.b}
List(d) ==
    LET e == Head(todo[d]).e
        open == {i \in DOMAIN Rounds : row[Rounds[i]].status \in Open /\ In(e, row[Rounds[i]])}
    IN  /\ Doing(d, "list")
        /\ \E nth \in [1..Cardinality(open) -> open] :
               /\ \A i, j \in DOMAIN nth : i < j => nth[i] < nth[j]
               /\ Then(d, [i \in DOMAIN nth |-> [do |-> "forfeit", m |-> Rounds[nth[i]], e |-> e]])
        /\ UNCHANGED <<row, swing, standing, begun, faults>>

Forfeit(d) ==
    LET k == Head(todo[d])
        r == row[k.m]
        winner == IF r.a = k.e THEN "b" ELSE "a"
    IN  /\ Doing(d, "forfeit")
        /\ IF r.status \in Open /\ In(k.e, r) /\ r[winner] # None
           THEN Then(d, ResultTasks(k.m, r, winner, "walkover"))
           ELSE Go(d)
        /\ UNCHANGED <<row, swing, standing, begun, faults>>
-----------------------------------------------------------------------------
(* A request fails.  The operation ends there, whether the request was     *)
(* carried out or not; but a rating that fails, or whose answer is lost,   *)
(* is followed by the restore, and the requests of an advancement, of a    *)
(* clearing and of a withdrawal do not look at their error: a target whose *)
(* status could not be read is written to.                                 *)
Unchecked == {"place", "settle", "ready", "find", "clear", "list", "forfeit"}

Fault(d) ==
    /\ ~Idle(d) /\ faults < MaxFaults
    /\ faults' = faults + 1
    /\ \/ Stop(d) /\ UNCHANGED <<row, swing>>
       \/ (Doing(d, "look") \/ Doing(d, "rate")) /\ GiveUpRating(d) /\ UNCHANGED <<row, swing>>
       \/ /\ Doing(d, "rate") /\ row[Head(todo[d]).m].rated = NoPair
          /\ ApplyRating(Head(todo[d]).m, Head(todo[d]).for)
          /\ GiveUpRating(d)
       \/ (\E what \in Unchecked : Doing(d, what)) /\ Go(d) /\ UNCHANGED <<row, swing>>
       \/ Doing(d, "route") /\ Advance(d) /\ UNCHANGED <<row, swing>>
    /\ UNCHANGED <<standing, begun>>
-----------------------------------------------------------------------------
Seated(m) ==
    [status |-> IF Seats[m]["a"] # None /\ Seats[m]["b"] # None THEN "ready" ELSE "pending",
     a |-> Seats[m]["a"], b |-> Seats[m]["b"], win |-> None, lose |-> None, rated |-> NoPair]

Init ==
    /\ row = [m \in Matches |-> Seated(m)]
    /\ swing = [e \in Entries |-> 0]
    /\ standing = [e \in Entries |-> "in"]
    /\ todo = [d \in Desks |-> <<>>]
    /\ begun = <<>> /\ faults = 0

BeginStep(d) ==
    \/ \E m \in Matches, side \in Sides :
           \/ Enter(d, m, side) \/ Walkover(d, m, side)
           \/ \E played \in BOOLEAN : Edit(d, m, side, played)
           \/ \E e \in Entries \cup {None} : SetEntry(d, m, side, e)
    \/ \E m \in Matches :
           Void(d, m) \/ DoubleNoShow(d, m) \/ Unvoid(d, m) \/ Undo(d, m) \/ SetLive(d, m)
    \/ \E e \in Entries : ExitDraw(d, e)

Request(d) ==
    \/ Write(d) \/ Look(d) \/ Rate(d) \/ Restore(d)
    \/ Route(d) \/ Place(d) \/ Settle(d) \/ Ready(d)
    \/ Guard(d) \/ Reverse(d) \/ Find(d) \/ Clear(d)
    \/ WriteVoid(d) \/ WriteNoShow(d) \/ Mark(d) \/ WriteUnvoid(d) \/ WriteUndo(d)
    \/ WriteEdit(d) \/ WriteSeat(d) \/ WriteLive(d) \/ List(d) \/ Forfeit(d)

Next == \E d \in Desks : BeginStep(d) \/ Request(d) \/ Fault(d)

Spec == Init /\ [][Next]_resultVars
=============================================================================
