-------------------------- MODULE EventFieldProperties --------------------------
(***************************************************************************)
(* What the field of a tournament's events promises: nobody is in an event *)
(* twice, the limits on places and on entries hold however the calls race, *)
(* and the waitlist is served in order.                                    *)
(***************************************************************************)
EXTENDS EventField

TypeOK ==
    /\ status \in [Events -> EventStatus]
    /\ locked \in [Events -> BOOLEAN] /\ suspended \in BOOLEAN
    /\ limit \in [Events -> LimitValues]
    /\ entry \in [Events -> [Players -> EntryStatus \cup {None}]]
    /\ pair \in [Events -> [Pairs -> EntryStatus \cup {None}]]
    /\ on \in [Events -> BOOLEAN] /\ auto \in [Events -> BOOLEAN]
    /\ joining \in [Events -> SUBSET Players] /\ waiting \in [Events -> SUBSET Players]
    /\ ahead \in [Events -> [Players -> SUBSET Players]]
    /\ barred \in SUBSET Players
    /\ asking \in [Events -> Nat] /\ filling \in [Events -> Nat]
    /\ lost \in Nat /\ changes \in Nat /\ missed \in [Events -> BOOLEAN]

(* A member of a live pair has no live entry of their own in the event and *)
(* is in no other live pair: entry, pairing, swap, unpairing and promotion *)
(* each ask only part of that question, under the same key.                *)
InOnce ==
    \A e \in Events :
        /\ \A pr \in LivePairs(e) : \A p \in Members(pr) : ~IsLive(entry[e][p])
        /\ \A pr, other \in LivePairs(e) :
               pr # other => Members(pr) \cap Members(other) = {}

(* A member never holds more live entries in the tournament than its cap,  *)
(* although calls about two events hold two different event keys and a     *)
(* pair, an entry and a promotion count in different tables.               *)
WithinEntryCap ==
    EntryCap > 0 => \A p \in Players : Cardinality(Entries(p)) <= EntryCap

(* No step takes a draw place beyond the limit.  (The desk may set a limit *)
(* below what is taken; nothing may then be added.)                        *)
PlacesWithinLimit ==
    [][\A e \in Events :
           TakenPlaces(e)' > TakenPlaces(e) /\ limit'[e] > 0
               => TakenPlaces(e)' <= limit'[e]]_fieldVars

(* The waitlist is never off while somebody waits: such a member would     *)
(* block every entry and never be promoted.                                *)
WaitersCanBeServed == \A e \in Events : waiting[e] # {} => on[e]

(* The queue is a queue: of two members in line exactly one is ahead of    *)
(* the other, and being ahead is transitive.                               *)
InLine(e) == joining[e] \cup waiting[e]
LineIsOrdered ==
    \A e \in Events :
        /\ joining[e] \cap waiting[e] = {}
        /\ \A p, q \in InLine(e) : p # q => (p \in ahead[e][q] <=> q \notin ahead[e][p])
        /\ \A p \in Players : ahead[e][p] \subseteq InLine(e) \ {p}
        /\ \A p \in Players : \A q \in ahead[e][p] : ahead[e][q] \subseteq ahead[e][p]

InEvent(e, p) == IsLive(entry[e][p]) \/ InPair(e, p)

(* Nobody who was behind a waiting member in line, or not in line at all,  *)
(* comes into the event before them by entering, by joining or by a fill:  *)
(* only the desk's own hand (add, pair, promote by name) may do that.      *)
WithoutTheDesk(e) ==
    \/ \E p \in Players : Enter(e, p) \/ Join(e, p)
    \/ RunFill(e)
    \/ \E enabled, automatic \in BOOLEAN : SetWaitlist(e, enabled, automatic)

NobodyOvertakes ==
    [][\A e \in Events : WithoutTheDesk(e) =>
           \A p, q \in Players :
               /\ p \in waiting[e] /\ p \in waiting'[e]
               /\ q \in InLine(e) => p \in ahead[e][q]
               => InEvent(e, q) \/ ~InEvent(e, q)']_fieldVars

(* A place stands free while somebody waits, and promotion is automatic.   *)
PlaceStandsFree(e) ==
    /\ on[e] /\ auto[e] /\ ~ClosedToFill(e)
    /\ waiting[e] # {} /\ ~FullFor(e, 0, 1)

(* Then a call that will offer it is under way, unless one was lost or was *)
(* refused since the last fill: every operation that frees a place, and no *)
(* other one that could, must be followed by the call.                     *)
FreePlaceIsOffered ==
    \A e \in Events :
        PlaceStandsFree(e) /\ ~missed[e] => asking[e] + filling[e] > 0

(* Withdrawn and disqualified are final: such an entry stays out or its    *)
(* row is removed, and the member does not come back through the queue.    *)
OutStaysOut ==
    [][\A e \in Events :
           /\ \A p \in Players : entry[e][p] \in Out => entry'[e][p] \in Out \cup {None}
           /\ \A pr \in Pairs : pair[e][pr] \in Out => pair'[e][pr] \in Out \cup {None}]_fieldVars

(* A free place is handed out, unless a call was lost or refused.          *)
FreePlaceIsHandedOut ==
    \A e \in Events : []<>(~PlaceStandsFree(e) \/ missed[e])
=============================================================================
