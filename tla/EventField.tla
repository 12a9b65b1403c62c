------------------------------- MODULE EventField -------------------------------
(***************************************************************************)
(* The field of a tournament's events: who is entered, alone or in a pair, *)
(* the limit on places, the member's limit on entries, and the waitlist of *)
(* a full event.                                                           *)
(*                                                                         *)
(* Every writer of the field takes the event's advisory key, then the      *)
(* tournament row where it counts across events, then the event row, so    *)
(* each database function is one step.  What is not one step: a join takes *)
(* its place in the queue from the start of its transaction (joined_at is  *)
(* now()), before it waits for the key; and the call that hands a freed    *)
(* place to the waitlist is made by the app after the change committed,    *)
(* in a request that reads the waitlist's settings and one that fills.     *)
(*                                                                         *)
(* Windows, membership, category, waiver and rating checks only refuse,    *)
(* without reading the field: a refused call is a step not taken.          *)
(***************************************************************************)
EXTENDS Integers, FiniteSets

CONSTANTS
    Players,        \* the members
    SinglesEvents,  \* events whose entries are members
    DoublesEvents,  \* events whose entries are pairs, members waiting for a partner
    EntryCap,       \* tournaments.max_events_per_player; 0 stands for no cap
    LimitValues,    \* values the desk gives max_participants; 0 stands for no limit
    DeskStatuses,   \* statuses the desk gives entries in this instance
    MaxBatch,       \* bound: members the desk adds in one call
    MaxPairRows,    \* bound: pair rows of one event, those that are out included
    MaxCalls,       \* bound: waitlist calls under way in one event
    MaxLost,        \* bound: waitlist calls that are lost
    LastStatus,     \* bound: the furthest status the events of this instance reach
    MaxChanges      \* bound: changes of the settings below

Events == SinglesEvents \cup DoublesEvents
None == "none"
Out == {"withdrawn", "disqualified"}
EntryStatus == {"registered", "checked_in", "no_show"} \cup Out
EventStatus == {"registration", "checkin", "bracket_generated", "live", "completed"}
Open == {"registration", "checkin"}

ASSUME EventFieldAssumption ==
    /\ SinglesEvents \cap DoublesEvents = {}
    /\ IsFiniteSet(Players) /\ IsFiniteSet(Events)
    /\ EntryCap \in Nat /\ LimitValues \subseteq Nat
    /\ DeskStatuses \subseteq EntryStatus /\ LastStatus \in EventStatus
    /\ MaxBatch \in Nat /\ MaxPairRows \in Nat /\ MaxCalls \in Nat
    /\ MaxLost \in Nat /\ MaxChanges \in Nat

(* tournament_pairs is unique on (event, player 1, player 2), in that      *)
(* order.                                                                  *)
Pairs == {pr \in Players \X Players : pr[1] # pr[2]}
Members(pr) == {pr[1], pr[2]}

VARIABLES
    status,     \* tournament_events.status
    locked,     \* tournament_events.draw_locked
    limit,      \* tournament_events.max_participants
    entry,      \* entry[e][p]: status of p's tournament_participants row, or None
    pair,       \* pair[e][pr]: status of the tournament_pairs row, or None
    on, auto,   \* waitlist_enabled, waitlist_auto_promote
    joining,    \* members whose join transaction has begun and waits for the key
    waiting,    \* members with a 'waiting' waitlist row
    ahead,      \* ahead[e][p]: those in line whose transaction began before p's
    suspended,  \* the tournament is suspended (or closed)
    barred,     \* members suspended or inactive
    asking,     \* waitlist calls that have still to read the settings
    filling,    \* waitlist calls that read automatic promotion and will fill
    lost,       \* number of calls lost so far
    missed,     \* history: a fill was refused or lost since the last one that ran
    changes     \* number of changes of settings so far

fieldVars == <<status, locked, limit, entry, pair, on, auto, joining, waiting, ahead,
               suspended, barred, asking, filling, lost, missed, changes>>
queueVars == <<joining, waiting, ahead>>
callVars == <<asking, filling, lost, missed>>
settings == <<status, locked, limit, on, auto, suspended, barred, changes>>
changeVars == <<locked, limit, on, auto, suspended, barred, changes>>
-----------------------------------------------------------------------------
(* Reading the field.                                                      *)

IsLive(s) == s \notin Out \cup {None}
LiveLoose(e) == {p \in Players : IsLive(entry[e][p])}
LivePairs(e) == {pr \in Pairs : IsLive(pair[e][pr])}
InPair(e, p) == \E pr \in LivePairs(e) : p \in Members(pr)

(* Draw places taken by a number of pairs and of members without a         *)
(* partner: in doubles two members without a partner make one place.       *)
Places(e, pairs, loose) ==
    IF e \in DoublesEvents THEN pairs + (loose + 1) \div 2 ELSE loose
TakenPlaces(e) == Places(e, Cardinality(LivePairs(e)), Cardinality(LiveLoose(e)))

(* The capacity refusal: a change from before to after places is refused   *)
(* when it goes over the limit and takes a place.                          *)
OverLimit(e, before, after) == limit[e] > 0 /\ after > limit[e] /\ after > before

FullFor(e, entered, n) ==
    LET pairs == Cardinality(LivePairs(e))
        loose == Cardinality(LiveLoose(e)) + entered
    IN  OverLimit(e, Places(e, pairs, loose), Places(e, pairs, loose + n))

(* The live entries of a member in the tournament: pairs, and the entry of *)
(* the member alone, which is written as a pair of nobody else.            *)
Alone(p) == <<p, p>>
Entries(p) ==
    {x \in Events \X {Alone(p)} : p \in LiveLoose(x[1])}
        \cup {x \in Events \X Pairs : x[2] \in LivePairs(x[1]) /\ p \in Members(x[2])}
AtCap(p, n) == EntryCap > 0 /\ n >= EntryCap

(* Mutants: the promoter looks for live rows only; it forgets the cap.     *)
FitLiveRow(e, p) ==
    /\ p \notin barred /\ ~IsLive(entry[e][p]) /\ ~InPair(e, p)
    /\ ~AtCap(p, Cardinality(Entries(p)))
FitAnyCap(e, p) == p \notin barred /\ entry[e][p] = None /\ ~InPair(e, p)

(* A member the promoter can enter: not barred, no entry row of any status *)
(* in the event, not in a live pair, below the cap.                        *)
Fit(e, p) ==
    /\ p \notin barred
    /\ entry[e][p] = None
    /\ ~InPair(e, p)
    /\ ~AtCap(p, Cardinality(Entries(p)))

ClosedToFill(e) == suspended \/ status[e] \notin Open \/ locked[e]

(* The loop over the waiting rows in joined order stops at the first row   *)
(* for which the event is full, the entries made so far counted; a row it  *)
(* reaches is entered when the member is fit and skipped otherwise.        *)
FitAhead(e, line, q) == {r \in line \cap ahead[e][q] : Fit(e, r)}
Reached(e, line) ==
    {p \in line : \A q \in line \cap (ahead[e][p] \cup {p}) :
                      ~FullFor(e, Cardinality(FitAhead(e, line, q)), 1)}
Promoted(e, line) == {p \in Reached(e, line) : Fit(e, p)}
-----------------------------------------------------------------------------
(* Pieces of the actions.                                                  *)

SetEntries(e, S, s) == entry' = [entry EXCEPT ![e] = [p \in Players |-> IF p \in S THEN s ELSE @[p]]]

(* Those in S leave the line; line is what was waiting before, with a      *)
(* joiner whose row was just inserted.                                     *)
LeaveLine(e, line, S) ==
    /\ waiting' = [waiting EXCEPT ![e] = line \ S]
    /\ ahead' = [ahead EXCEPT ![e] = [p \in Players |-> IF p \in S THEN {} ELSE @[p] \ S]]

(* fill_event_from_waitlist without a named row, over the rows of line.    *)
Fill(e, line, enabled) ==
    IF ClosedToFill(e) \/ ~enabled
    THEN /\ LeaveLine(e, line, {})
         /\ missed' = [missed EXCEPT ![e] = TRUE]
         /\ UNCHANGED entry
    ELSE /\ SetEntries(e, Promoted(e, line), "registered")
         /\ LeaveLine(e, line, Reached(e, line))
         /\ missed' = [missed EXCEPT ![e] = FALSE]

(* The app's call after a change that may have freed a place.              *)
CallFill(e) ==
    /\ asking[e] + filling[e] < MaxCalls
    /\ asking' = [asking EXCEPT ![e] = @ + 1]
    /\ UNCHANGED <<filling, lost, missed>>

Editable(e) == status[e] \in Open /\ ~locked[e]
-----------------------------------------------------------------------------
(* The member's own operations.                                            *)

(* Mutant: as before the waitlist, an entry asks only for room.            *)
EnterPastQueue(e, p) ==
    /\ status[e] = "registration" /\ ~suspended /\ p \notin barred
    /\ ~InPair(e, p) /\ ~FullFor(e, 0, 1)
    /\ ~AtCap(p, Cardinality(Entries(p)))
    /\ entry[e][p] = None
    /\ SetEntries(e, {p}, "registered")
    /\ UNCHANGED <<settings, pair, queueVars, callVars>>

(* enter_tournament_event: refused while anybody waits, so that nobody     *)
(* passes the queue.                                                       *)
Enter(e, p) ==
    /\ status[e] = "registration" /\ ~suspended /\ p \notin barred
    /\ ~InPair(e, p)
    /\ waiting[e] = {}
    /\ ~FullFor(e, 0, 1)
    /\ ~AtCap(p, Cardinality(Entries(p)))
    /\ entry[e][p] = None
    /\ SetEntries(e, {p}, "registered")
    /\ UNCHANGED <<settings, pair, queueVars, callVars>>

(* A join begins: now() is the start of the transaction, so the member's   *)
(* place in line is taken here.                                            *)
JoinBegins(e, p) ==
    /\ p \notin joining[e] \cup waiting[e]
    /\ joining' = [joining EXCEPT ![e] = @ \cup {p}]
    /\ ahead' = [ahead EXCEPT ![e][p] = joining[e] \cup waiting[e]]
    /\ UNCHANGED <<settings, entry, pair, waiting, callVars>>

MayJoin(e, p) ==
    /\ status[e] = "registration" /\ ~suspended /\ p \notin barred
    /\ ~InPair(e, p)
    /\ on[e]
    /\ entry[e][p] = None
    /\ ~(auto[e] /\ waiting[e] = {} /\ ~FullFor(e, 0, 1))
    /\ ~AtCap(p, Cardinality(Entries(p)))

(* The join holds the key: refused, or the row is inserted and, when       *)
(* promotion is automatic, the waitlist is filled in the same transaction. *)
JoinRefused(e, p) ==
    /\ p \in joining[e]
    /\ ~MayJoin(e, p)
    /\ joining' = [joining EXCEPT ![e] = @ \ {p}]
    /\ LeaveLine(e, waiting[e], {p})
    /\ UNCHANGED <<settings, entry, pair, callVars>>

Join(e, p) ==
    /\ p \in joining[e]
    /\ MayJoin(e, p)
    /\ joining' = [joining EXCEPT ![e] = @ \ {p}]
    /\ IF auto[e]
       THEN Fill(e, waiting[e] \cup {p}, TRUE)
       ELSE LeaveLine(e, waiting[e] \cup {p}, {}) /\ UNCHANGED <<entry, missed>>
    /\ UNCHANGED <<settings, pair, asking, filling, lost>>

(* leave_event_waitlist, and the desk's remove_from_event_waitlist.        *)
LeaveWaitlist(e, p) ==
    /\ p \in waiting[e]
    /\ LeaveLine(e, waiting[e], {p})
    /\ UNCHANGED <<settings, entry, pair, joining, callVars>>

(* withdraw_from_tournament_event, then the app's call.                    *)
Withdraw(e, p) ==
    /\ entry[e][p] \in {"registered", "checked_in"}
    /\ status[e] \in Open
    /\ SetEntries(e, {p}, "withdrawn")
    /\ CallFill(e)
    /\ UNCHANGED <<settings, pair, queueVars>>
-----------------------------------------------------------------------------
(* The desk's operations on entries.                                       *)

(* Mutant: room for one is taken as room for all.                          *)
AddWithRoomForOne(e, S) ==
    /\ S # {} /\ Cardinality(S) <= MaxBatch
    /\ Editable(e) /\ ~suspended
    /\ \A p \in S : ~InPair(e, p) /\ entry[e][p] = None
    /\ ~FullFor(e, 0, 1)
    /\ \A p \in S : ~AtCap(p, Cardinality(Entries(p)))
    /\ SetEntries(e, S, "registered")
    /\ UNCHANGED <<settings, pair, queueVars, callVars>>

(* add_participants_under_field_lock: all of S or none.  A member with a   *)
(* row of any status hits UNIQUE(event, player).  The queue is not asked.  *)
AddParticipants(e, S) ==
    /\ S # {} /\ Cardinality(S) <= MaxBatch
    /\ Editable(e) /\ ~suspended
    /\ \A p \in S : ~InPair(e, p) /\ entry[e][p] = None
    /\ ~FullFor(e, 0, Cardinality(S))
    /\ \A p \in S : ~AtCap(p, Cardinality(Entries(p)))
    /\ SetEntries(e, S, "registered")
    /\ UNCHANGED <<settings, pair, queueVars, callVars>>

(* pair_tournament_entrants: both leave the pool and become a pair; a      *)
(* member not in the pool is entered by it.                                *)
PairUp(e, a, b) ==
    LET pooled == {a, b} \cap LiveLoose(e)
        pairs == Cardinality(LivePairs(e))
        loose == Cardinality(LiveLoose(e))
    IN  /\ e \in DoublesEvents /\ a # b
        /\ Editable(e) /\ ~suspended
        /\ ~InPair(e, a) /\ ~InPair(e, b)
        /\ entry[e][a] \notin Out /\ entry[e][b] \notin Out
        /\ ~OverLimit(e, Places(e, pairs, loose),
                         Places(e, pairs + 1, loose - Cardinality(pooled)))
        /\ \A p \in {a, b} :
               ~AtCap(p, Cardinality(Entries(p)) - (IF p \in pooled THEN 1 ELSE 0))
        /\ pair[e][<<a, b>>] = None
        /\ Cardinality({pr \in Pairs : pair[e][pr] # None}) < MaxPairRows
        /\ SetEntries(e, {a, b}, None)
        /\ pair' = [pair EXCEPT ![e][<<a, b>>] = "registered"]
        /\ UNCHANGED <<settings, queueVars, callVars>>

(* unpair_tournament_pair: both return to the pool, out as withdrawn when  *)
(* a member leaves the event (out = None when nobody does), then the call. *)
Unpair(e, pr, out) ==
    /\ pr \in LivePairs(e)
    /\ out \in Members(pr) \cup {None}
    /\ Editable(e) /\ ~suspended
    /\ \A p \in Members(pr) : entry[e][p] = None
    /\ pair' = [pair EXCEPT ![e][pr] = None]
    /\ entry' = [entry EXCEPT ![e] = [p \in Players |->
                    IF p \notin Members(pr) THEN @[p]
                    ELSE IF p = out THEN "withdrawn" ELSE "registered"]]
    /\ CallFill(e)
    /\ UNCHANGED <<settings, queueVars>>

Partner(pr, p) == IF pr[1] = p THEN pr[2] ELSE pr[1]
Swapped(pr, out, in) == IF pr[1] = out THEN <<in, pr[2]>> ELSE <<pr[1], in>>

(* Mutant: the member who comes in keeps their place in the pool.          *)
SwapKeepsPoolRow(e, pr, out, in) ==
    /\ pr \in LivePairs(e)
    /\ out \in Members(pr) /\ in \in LiveLoose(e) /\ in # Partner(pr, out)
    /\ Editable(e)
    /\ \A other \in LivePairs(e) \ {pr} : in \notin Members(other)
    /\ pair[e][Swapped(pr, out, in)] = None
    /\ entry[e][out] = None
    /\ pair' = [pair EXCEPT ![e] = [@ EXCEPT ![pr] = None, ![Swapped(pr, out, in)] = "registered"]]
    /\ SetEntries(e, {out}, "registered")
    /\ UNCHANGED <<settings, queueVars, callVars>>

(* swap_tournament_pair_member: in comes from the pool, out returns to it. *)
Swap(e, pr, out, in) ==
    /\ pr \in LivePairs(e)
    /\ out \in Members(pr) /\ in \in LiveLoose(e) /\ in # Partner(pr, out)
    /\ Editable(e)
    /\ \A other \in LivePairs(e) \ {pr} : in \notin Members(other)
    /\ pair[e][Swapped(pr, out, in)] = None
    /\ entry[e][out] = None
    /\ pair' = [pair EXCEPT ![e] = [@ EXCEPT ![pr] = None, ![Swapped(pr, out, in)] = "registered"]]
    /\ entry' = [entry EXCEPT ![e] = [@ EXCEPT ![in] = None, ![out] = "registered"]]
    /\ UNCHANGED <<settings, queueVars, callVars>>

(* Mutant: a removal frees the place and nobody is told.                   *)
RemoveSilently(e, p) ==
    /\ entry[e][p] # None /\ Editable(e)
    /\ SetEntries(e, {p}, None)
    /\ UNCHANGED <<settings, pair, queueVars, callVars>>

(* remove_field_entry: the row is deleted, whatever its status, then the   *)
(* call.                                                                   *)
RemoveLoose(e, p) ==
    /\ entry[e][p] # None /\ Editable(e)
    /\ SetEntries(e, {p}, None)
    /\ CallFill(e)
    /\ UNCHANGED <<settings, pair, queueVars>>

(* Mutant: the same for a pair.                                            *)
RemovePairSilently(e, pr) ==
    /\ pair[e][pr] # None /\ Editable(e)
    /\ pair' = [pair EXCEPT ![e][pr] = None]
    /\ UNCHANGED <<settings, entry, queueVars, callVars>>

RemovePair(e, pr) ==
    /\ pair[e][pr] # None /\ Editable(e)
    /\ pair' = [pair EXCEPT ![e][pr] = None]
    /\ CallFill(e)
    /\ UNCHANGED <<settings, entry, queueVars>>

(* set_field_entry_status: from is the entry's status, s the new one.      *)
MaySet(e, from, s) ==
    /\ from \notin {None, s}
    /\ status[e] # "completed"
    /\ s \in {"checked_in", "no_show"} => status[e] # "registration"
    /\ s = "checked_in" => from = "registered"
    /\ s = "no_show" => from \notin Out
    /\ s = "registered" => status[e] = "checkin" /\ from \notin Out

(* Withdrawing or disqualifying an entry is followed by the call.          *)
CallAfterExit(e, s) == IF s \in Out THEN CallFill(e) ELSE UNCHANGED callVars

SetEntryStatus(e, p, s) ==
    /\ MaySet(e, entry[e][p], s)
    /\ SetEntries(e, {p}, s)
    /\ CallAfterExit(e, s)
    /\ UNCHANGED <<settings, pair, queueVars>>

SetPairStatus(e, pr, s) ==
    /\ MaySet(e, pair[e][pr], s)
    /\ pair' = [pair EXCEPT ![e][pr] = s]
    /\ CallAfterExit(e, s)
    /\ UNCHANGED <<settings, entry, queueVars>>

(* bulk_check_in_field over the entries of one kind.                       *)
BulkCheckIn(e) ==
    /\ status[e] \notin {"registration", "completed"}
    /\ IF e \in DoublesEvents
       THEN /\ pair' = [pair EXCEPT ![e] = [pr \in Pairs |->
                            IF @[pr] = "registered" THEN "checked_in" ELSE @[pr]]]
            /\ UNCHANGED entry
       ELSE /\ entry' = [entry EXCEPT ![e] = [p \in Players |->
                            IF @[p] = "registered" THEN "checked_in" ELSE @[p]]]
            /\ UNCHANGED pair
    /\ UNCHANGED <<settings, queueVars, callVars>>
-----------------------------------------------------------------------------
(* The waitlist's promoter.                                                *)

(* Mutant: a call is counted off twice.                                    *)
AskUncounted(e) ==
    /\ asking' = [asking EXCEPT ![e] = @ - 1]
    /\ filling' = [filling EXCEPT ![e] = IF on[e] /\ auto[e] THEN @ + 1 ELSE @]
    /\ UNCHANGED <<settings, entry, pair, queueVars, lost, missed>>

(* fillFromWaitlistAfterFree, first request: read the settings.            *)
AskSettings(e) ==
    /\ asking[e] > 0
    /\ asking' = [asking EXCEPT ![e] = @ - 1]
    /\ filling' = [filling EXCEPT ![e] = IF on[e] /\ auto[e] THEN @ + 1 ELSE @]
    /\ UNCHANGED <<settings, entry, pair, queueVars, lost, missed>>

(* Second request: fill.  It asks whether the waitlist is on, not whether  *)
(* promotion is automatic.                                                 *)
RunFill(e) ==
    /\ filling[e] > 0
    /\ filling' = [filling EXCEPT ![e] = @ - 1]
    /\ Fill(e, waiting[e], on[e])
    /\ UNCHANGED <<settings, pair, joining, asking, lost>>

(* A call fails on the way: it is logged and swallowed.                    *)
LoseCall(e) ==
    /\ lost < MaxLost
    /\ lost' = lost + 1
    /\ \/ /\ asking[e] > 0
          /\ asking' = [asking EXCEPT ![e] = @ - 1]
          /\ UNCHANGED filling
       \/ /\ filling[e] > 0
          /\ filling' = [filling EXCEPT ![e] = @ - 1]
          /\ UNCHANGED asking
    /\ missed' = [missed EXCEPT ![e] = TRUE]
    /\ UNCHANGED <<settings, entry, pair, queueVars>>

(* promoteFromWaitlist: the desk promotes one named member.                *)
Promote(e, p) ==
    /\ p \in waiting[e]
    /\ ~ClosedToFill(e)
    /\ ~FullFor(e, 0, 1)
    /\ Fit(e, p)
    /\ SetEntries(e, {p}, "registered")
    /\ LeaveLine(e, waiting[e], {p})
    /\ UNCHANGED <<settings, pair, joining, callVars>>

-----------------------------------------------------------------------------
(* The desk's settings.                                                    *)

Change == changes < MaxChanges /\ changes' = changes + 1

(* Mutant: the waitlist is turned off over those who wait.                 *)
SetWaitlistOverWaiters(e, enabled, automatic) ==
    /\ Change
    /\ <<enabled, automatic>> # <<on[e], auto[e]>>
    /\ status[e] \in Open
    /\ on' = [on EXCEPT ![e] = enabled]
    /\ auto' = [auto EXCEPT ![e] = automatic]
    /\ IF enabled /\ automatic
       THEN Fill(e, waiting[e], TRUE)
       ELSE UNCHANGED <<entry, waiting, ahead, missed>>
    /\ UNCHANGED <<status, locked, limit, suspended, barred, pair, joining, asking, filling, lost>>

(* set_event_waitlist: off only when nobody waits; turning automatic       *)
(* promotion on fills in the same transaction.                             *)
SetWaitlist(e, enabled, automatic) ==
    /\ Change
    /\ <<enabled, automatic>> # <<on[e], auto[e]>>
    /\ status[e] \in Open
    /\ enabled \/ waiting[e] = {}
    /\ on' = [on EXCEPT ![e] = enabled]
    /\ auto' = [auto EXCEPT ![e] = automatic]
    /\ IF enabled /\ automatic
       THEN Fill(e, waiting[e], TRUE)
       ELSE UNCHANGED <<entry, waiting, ahead, missed>>
    /\ UNCHANGED <<status, locked, limit, suspended, barred, pair, joining, asking, filling, lost>>

(* Mutant: the limit is raised and the waitlist is not asked.              *)
SetLimitSilently(e, n) ==
    /\ Change
    /\ n # limit[e]
    /\ status[e] \in Open
    /\ limit' = [limit EXCEPT ![e] = n]
    /\ UNCHANGED <<status, locked, on, auto, suspended, barred, entry, pair, queueVars, callVars>>

(* updateTournamentEvent with a new limit, then the call.                  *)
SetLimit(e, n) ==
    /\ Change
    /\ n # limit[e]
    /\ status[e] \in Open
    /\ limit' = [limit EXCEPT ![e] = n]
    /\ CallFill(e)
    /\ UNCHANGED <<status, locked, on, auto, suspended, barred, entry, pair, queueVars>>

(* lockDraw and unlockDraw.                                                *)
ToggleLock(e) ==
    /\ Change
    /\ locked' = [locked EXCEPT ![e] = ~@]
    /\ UNCHANGED <<status, limit, on, auto, suspended, barred, entry, pair, queueVars, callVars>>

(* setEventStatus, one step forward; the step to "bracket_generated" is    *)
(* the publication of a draw, whose content the field does not read.       *)
NextStatus(s) ==
    CASE s = "registration" -> "checkin"
      [] s = "checkin" -> "bracket_generated"
      [] s = "bracket_generated" -> "live"
      [] OTHER -> "completed"

Advance(e) ==
    /\ status[e] \notin {"completed", LastStatus}
    /\ status' = [status EXCEPT ![e] = NextStatus(@)]
    /\ UNCHANGED <<changeVars, entry, pair, queueVars, callVars>>

(* The tournament is suspended or resumed; a member is suspended or        *)
(* reinstated.                                                             *)
ToggleSuspension ==
    /\ Change
    /\ suspended' = ~suspended
    /\ UNCHANGED <<status, locked, limit, on, auto, barred, entry, pair, queueVars, callVars>>

ToggleBar(p) ==
    /\ Change
    /\ barred' = IF p \in barred THEN barred \ {p} ELSE barred \cup {p}
    /\ UNCHANGED <<status, locked, limit, on, auto, suspended, entry, pair, queueVars, callVars>>
-----------------------------------------------------------------------------
(* The desk sets the events up before the first entry.                     *)
Init ==
    /\ status = [e \in Events |-> "registration"]
    /\ locked = [e \in Events |-> FALSE]
    /\ limit \in [Events -> LimitValues]
    /\ entry = [e \in Events |-> [p \in Players |-> None]]
    /\ pair = [e \in Events |-> [pr \in Pairs |-> None]]
    /\ on \in [Events -> BOOLEAN]
    /\ auto \in [Events -> BOOLEAN]
    /\ joining = [e \in Events |-> {}]
    /\ waiting = [e \in Events |-> {}]
    /\ ahead = [e \in Events |-> [p \in Players |-> {}]]
    /\ suspended = FALSE
    /\ barred = {}
    /\ asking = [e \in Events |-> 0]
    /\ filling = [e \in Events |-> 0]
    /\ lost = 0
    /\ missed = [e \in Events |-> FALSE]
    /\ changes = 0

MemberStep(e) ==
    \E p \in Players :
        \/ Enter(e, p)
        \/ JoinBegins(e, p)
        \/ JoinRefused(e, p)
        \/ Join(e, p)
        \/ LeaveWaitlist(e, p)
        \/ Withdraw(e, p)

DeskStep(e) ==
    \/ \E S \in SUBSET Players : AddParticipants(e, S)
    \/ \E a, b \in Players : PairUp(e, a, b)
    \/ \E pr \in Pairs, out \in Players \cup {None} : Unpair(e, pr, out)
    \/ \E pr \in Pairs, out, in \in Players : Swap(e, pr, out, in)
    \/ \E p \in Players : RemoveLoose(e, p) \/ Promote(e, p)
    \/ \E pr \in Pairs : RemovePair(e, pr)
    \/ \E p \in Players, s \in DeskStatuses : SetEntryStatus(e, p, s)
    \/ \E pr \in Pairs, s \in DeskStatuses : SetPairStatus(e, pr, s)
    \/ BulkCheckIn(e)
    \/ \E enabled, automatic \in BOOLEAN : SetWaitlist(e, enabled, automatic)
    \/ \E n \in LimitValues : SetLimit(e, n)
    \/ ToggleLock(e)
    \/ Advance(e)

CallStep(e) == AskSettings(e) \/ RunFill(e) \/ LoseCall(e)

Next ==
    \/ \E e \in Events : MemberStep(e) \/ DeskStep(e) \/ CallStep(e)
    \/ ToggleSuspension
    \/ \E p \in Players : ToggleBar(p)

Spec == Init /\ [][Next]_fieldVars

(* The app runs its waitlist call to the end unless it fails, and a join   *)
(* that began is decided.                                                  *)
Fairness ==
    \A e \in Events :
        /\ WF_fieldVars(AskSettings(e))
        /\ WF_fieldVars(RunFill(e))
        /\ WF_fieldVars(\E p \in Players : JoinRefused(e, p) \/ Join(e, p))

FairSpec == Spec /\ Fairness
=============================================================================
