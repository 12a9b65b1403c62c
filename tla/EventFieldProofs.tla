---------------------------- MODULE EventFieldProofs ----------------------------
(***************************************************************************)
(* The field of a tournament's events, for any members, events, limits and *)
(* caps.  Every step of EventField does one of six things to the entries   *)
(* and pairs of one event (lemma FieldStep) and one of five things to its  *)
(* line (lemma QueueStep); the invariants are proved over those.           *)
(*                                                                         *)
(* Its places last: no step takes one beyond the limit, and a place that   *)
(* stands free while somebody waits has a call on its way, which both rest *)
(* on what the promoter's loop does to a line that is ordered.             *)
(***************************************************************************)
EXTENDS EventFieldProperties, FiniteSetTheorems, TLAPS, Sums

-----------------------------------------------------------------------------
(* Types.                                                                  *)

\* Rows of one event keep their type when some are given a status.
LEMMA SetEntriesType ==
  ASSUME TypeOK, NEW e \in Events, NEW S, NEW s \in EntryStatus \cup {None},
         SetEntries(e, S, s)
  PROVE  entry' \in [Events -> [Players -> EntryStatus \cup {None}]]
  BY DEF TypeOK, SetEntries

\* The line keeps its type when members leave it.
LEMMA LeaveLineType ==
  ASSUME TypeOK, NEW e \in Events, NEW line \in SUBSET Players, NEW S, LeaveLine(e, line, S)
  PROVE  /\ waiting' \in [Events -> SUBSET Players]
         /\ ahead' \in [Events -> [Players -> SUBSET Players]]
<1>1. [p \in Players |-> IF p \in S THEN {} ELSE ahead[e][p] \ S] \in [Players -> SUBSET Players]
  BY DEF TypeOK
<1> QED BY <1>1 DEF TypeOK, LeaveLine

\* A fill keeps the types of what it writes.
LEMMA FillType ==
  ASSUME TypeOK, NEW e \in Events, NEW line \in SUBSET Players, NEW enabled, Fill(e, line, enabled)
  PROVE  /\ entry' \in [Events -> [Players -> EntryStatus \cup {None}]]
         /\ waiting' \in [Events -> SUBSET Players]
         /\ ahead' \in [Events -> [Players -> SUBSET Players]]
         /\ missed' \in [Events -> BOOLEAN]
<1>1. CASE ClosedToFill(e) \/ ~enabled
  BY <1>1, LeaveLineType DEF Fill, TypeOK
<1>2. CASE ~(ClosedToFill(e) \/ ~enabled)
  <2>1. "registered" \in EntryStatus \cup {None}
    BY DEF EntryStatus
  <2> QED BY <1>2, <2>1, LeaveLineType, SetEntriesType DEF Fill, TypeOK
<1> QED BY <1>1, <1>2

\* Asking for a fill counts one call more and nothing else.
LEMMA CallFillType ==
  ASSUME TypeOK, NEW e \in Events, CallFill(e)
  PROVE  /\ asking' \in [Events -> Nat]
         /\ UNCHANGED <<filling, lost, missed>>
  BY DEF TypeOK, CallFill

\* The member's own operations keep every type.
LEMMA MemberStepType ==
  ASSUME TypeOK, NEW e \in Events, NEW p \in Players,
         \/ Enter(e, p) \/ JoinBegins(e, p) \/ JoinRefused(e, p)
         \/ Join(e, p) \/ LeaveWaitlist(e, p) \/ Withdraw(e, p)
  PROVE  TypeOK'
<1> USE DEF settings, queueVars, callVars
<1>1. CASE Enter(e, p)
  BY <1>1, SetEntriesType DEF Enter, TypeOK, EntryStatus
<1>2. CASE JoinBegins(e, p)
  BY <1>2 DEF JoinBegins, TypeOK
<1>3. CASE JoinRefused(e, p)
  <2>1. waiting[e] \in SUBSET Players
    BY DEF TypeOK
  <2> QED BY <1>3, <2>1, LeaveLineType DEF JoinRefused, TypeOK
<1>4. CASE Join(e, p)
  <2>1. waiting[e] \cup {p} \in SUBSET Players
    BY DEF TypeOK
  <2>2. CASE auto[e]
    BY <1>4, <2>1, <2>2, FillType DEF Join, TypeOK
  <2>3. CASE ~auto[e]
    BY <1>4, <2>1, <2>3, LeaveLineType DEF Join, TypeOK
  <2> QED BY <2>2, <2>3
<1>5. CASE LeaveWaitlist(e, p)
  <2>1. waiting[e] \in SUBSET Players
    BY DEF TypeOK
  <2> QED BY <1>5, <2>1, LeaveLineType DEF LeaveWaitlist, TypeOK
<1>6. CASE Withdraw(e, p)
  BY <1>6, SetEntriesType, CallFillType DEF Withdraw, TypeOK, EntryStatus, Out
<1> QED BY <1>1, <1>2, <1>3, <1>4, <1>5, <1>6

\* Two different members make a pair.
LEMMA PairTypes ==
  ASSUME NEW a \in Players, NEW b \in Players, a # b
  PROVE  <<a, b>> \in Pairs
  BY DEF Pairs

\* A swap makes a pair of two different members.
LEMMA SwappedIsPair ==
  ASSUME NEW pr \in Pairs, NEW out \in Members(pr), NEW in \in Players, in # Partner(pr, out)
  PROVE  /\ Swapped(pr, out, in) \in Pairs
         /\ Members(Swapped(pr, out, in)) = {in, Partner(pr, out)}
         /\ Members(pr) = {out, Partner(pr, out)}
         /\ out # Partner(pr, out) /\ Partner(pr, out) \in Players
<1>1. PICK a \in Players, b \in Players : a # b /\ pr = <<a, b>>
  BY DEF Pairs
<1>2. CASE out = a
  BY <1>1, <1>2 DEF Pairs, Members, Partner, Swapped
<1>3. CASE out = b
  BY <1>1, <1>3 DEF Pairs, Members, Partner, Swapped
<1> QED BY <1>1, <1>2, <1>3 DEF Members

\* The desk's operations keep every type.
LEMMA DeskStepType ==
  ASSUME TypeOK, NEW e \in Events, DeskStep(e)
  PROVE  TypeOK'
<1> USE DEF settings, queueVars, callVars, changeVars
<1>1. ASSUME NEW S \in SUBSET Players, AddParticipants(e, S) PROVE TypeOK'
  BY <1>1, SetEntriesType DEF AddParticipants, TypeOK, EntryStatus
<1>2. ASSUME NEW a \in Players, NEW b \in Players, PairUp(e, a, b) PROVE TypeOK'
  <2>1. <<a, b>> \in Pairs
    BY <1>2, PairTypes DEF PairUp
  <2>2. entry' \in [Events -> [Players -> EntryStatus \cup {None}]]
    BY <1>2, SetEntriesType DEF PairUp
  <2>3. pair' \in [Events -> [Pairs -> EntryStatus \cup {None}]]
    BY <1>2, <2>1 DEF PairUp, TypeOK, EntryStatus
  <2> QED BY <1>2, <2>2, <2>3 DEF PairUp, TypeOK
<1>3. ASSUME NEW pr \in Pairs, NEW out \in Players \cup {None}, Unpair(e, pr, out) PROVE TypeOK'
  BY <1>3, CallFillType DEF Unpair, TypeOK, EntryStatus, Out
<1>4. ASSUME NEW pr \in Pairs, NEW out \in Players, NEW in \in Players, Swap(e, pr, out, in)
      PROVE TypeOK'
  <2>1. Swapped(pr, out, in) \in Pairs
    BY <1>4, SwappedIsPair DEF Swap
  <2> QED BY <1>4, <2>1 DEF Swap, TypeOK, EntryStatus
<1>5. ASSUME NEW p \in Players, RemoveLoose(e, p) PROVE TypeOK'
  BY <1>5, SetEntriesType, CallFillType DEF RemoveLoose, TypeOK
<1>6. ASSUME NEW p \in Players, Promote(e, p) PROVE TypeOK'
  <2>1. waiting[e] \in SUBSET Players
    BY DEF TypeOK
  <2> QED BY <1>6, <2>1, SetEntriesType, LeaveLineType DEF Promote, TypeOK, EntryStatus
<1>7. ASSUME NEW pr \in Pairs, RemovePair(e, pr) PROVE TypeOK'
  BY <1>7, CallFillType DEF RemovePair, TypeOK
<1>8. ASSUME NEW p \in Players, NEW s \in DeskStatuses, SetEntryStatus(e, p, s) PROVE TypeOK'
  BY <1>8, SetEntriesType, CallFillType, EventFieldAssumption
     DEF SetEntryStatus, CallAfterExit, TypeOK
<1>9. ASSUME NEW pr \in Pairs, NEW s \in DeskStatuses, SetPairStatus(e, pr, s) PROVE TypeOK'
  BY <1>9, CallFillType, EventFieldAssumption DEF SetPairStatus, CallAfterExit, TypeOK
<1>10. CASE BulkCheckIn(e)
  <2>1. [p \in Players |-> IF entry[e][p] = "registered" THEN "checked_in" ELSE entry[e][p]]
            \in [Players -> EntryStatus \cup {None}]
    BY DEF TypeOK, EntryStatus
  <2>2. [pr \in Pairs |-> IF pair[e][pr] = "registered" THEN "checked_in" ELSE pair[e][pr]]
            \in [Pairs -> EntryStatus \cup {None}]
    BY DEF TypeOK, EntryStatus
  <2> QED BY <1>10, <2>1, <2>2 DEF BulkCheckIn, TypeOK
<1>11. ASSUME NEW enabled \in BOOLEAN, NEW automatic \in BOOLEAN,
              SetWaitlist(e, enabled, automatic)
       PROVE TypeOK'
  <2>1. waiting[e] \in SUBSET Players
    BY DEF TypeOK
  <2>2. /\ entry' \in [Events -> [Players -> EntryStatus \cup {None}]]
        /\ waiting' \in [Events -> SUBSET Players]
        /\ ahead' \in [Events -> [Players -> SUBSET Players]]
        /\ missed' \in [Events -> BOOLEAN]
    BY <1>11, <2>1, FillType DEF SetWaitlist, TypeOK
  <2>3. on' \in [Events -> BOOLEAN] /\ auto' \in [Events -> BOOLEAN] /\ changes' \in Nat
    BY <1>11 DEF SetWaitlist, TypeOK, Change
  <2> QED BY <1>11, <2>2, <2>3 DEF SetWaitlist, TypeOK
<1>12. ASSUME NEW n \in LimitValues, SetLimit(e, n) PROVE TypeOK'
  BY <1>12, CallFillType DEF SetLimit, TypeOK, Change
<1>13. CASE ToggleLock(e)
  BY <1>13 DEF ToggleLock, TypeOK, Change
<1>14. CASE Advance(e)
  <2>1. \A x : NextStatus(x) \in EventStatus
    BY Zenon DEF NextStatus, EventStatus
  <2> QED BY <1>14, <2>1 DEF Advance, TypeOK
<1> QED BY <1>1, <1>2, <1>3, <1>4, <1>5, <1>6, <1>7, <1>8, <1>9, <1>10, <1>11, <1>12,
           <1>13, <1>14 DEF DeskStep

\* The waitlist calls keep every type.
LEMMA CallStepType ==
  ASSUME TypeOK, NEW e \in Events, CallStep(e)
  PROVE  TypeOK'
<1> USE DEF settings, queueVars
<1>1. CASE AskSettings(e)
  BY <1>1 DEF AskSettings, TypeOK
<1>2. CASE RunFill(e)
  <2>1. waiting[e] \in SUBSET Players
    BY DEF TypeOK
  <2>2. filling' \in [Events -> Nat]
    BY <1>2 DEF RunFill, TypeOK
  <2> QED BY <1>2, <2>1, <2>2, FillType DEF RunFill, TypeOK
<1>3. CASE LoseCall(e)
  <2>1. asking' \in [Events -> Nat] /\ filling' \in [Events -> Nat]
    <3>1. /\ asking[e] > 0 => asking[e] - 1 \in Nat
          /\ filling[e] > 0 => filling[e] - 1 \in Nat
      BY DEF TypeOK
    <3> QED BY <1>3, <3>1 DEF LoseCall, TypeOK
  <2>2. lost' \in Nat /\ missed' \in [Events -> BOOLEAN]
    BY <1>3 DEF LoseCall, TypeOK
  <2> QED BY <1>3, <2>1, <2>2 DEF LoseCall, TypeOK
<1> QED BY <1>1, <1>2, <1>3 DEF CallStep

\* Every step keeps every type.
LEMMA NextType == TypeOK /\ [Next]_fieldVars => TypeOK'
<1> SUFFICES ASSUME TypeOK, [Next]_fieldVars PROVE TypeOK'
  OBVIOUS
<1>1. ASSUME NEW e \in Events, MemberStep(e) PROVE TypeOK'
  BY <1>1, MemberStepType DEF MemberStep
<1>2. ASSUME NEW e \in Events, DeskStep(e) \/ CallStep(e) PROVE TypeOK'
  BY <1>2, DeskStepType, CallStepType
<1>3. CASE ToggleSuspension
  BY <1>3 DEF ToggleSuspension, Change, TypeOK, queueVars, callVars
<1>4. ASSUME NEW p \in Players, ToggleBar(p) PROVE TypeOK'
  BY <1>4 DEF ToggleBar, Change, TypeOK, queueVars, callVars
<1>5. CASE UNCHANGED fieldVars
  BY <1>5 DEF fieldVars, TypeOK
<1> QED BY <1>1, <1>2, <1>3, <1>4, <1>5 DEF Next

\* The events are set up well typed.
LEMMA InitType == Init => TypeOK
<1> SUFFICES ASSUME Init PROVE TypeOK
  OBVIOUS
<1>1. "registration" \in EventStatus
  BY DEF EventStatus
<1>2. [p \in Players |-> {}] \in [Players -> SUBSET Players]
  OBVIOUS
<1> QED BY <1>1, <1>2 DEF Init, TypeOK

\* Every state of a tournament's field is well typed.
THEOREM FieldTypeCorrect == Spec => []TypeOK
  BY InitType, NextType, PTL DEF Spec

-----------------------------------------------------------------------------
(* What a step does to the entries and pairs of an event.                  *)

\* Members without a row, in no pair and below their cap are entered.
EntersFit(e, S) ==
    /\ \A p \in S : entry[e][p] = None /\ ~InPair(e, p) /\ ~AtCap(p, Cardinality(Entries(p)))
    /\ SetEntries(e, S, "registered")
    /\ UNCHANGED pair

\* Rows change status or go, and none comes to life.
NoneRevived(was, is) ==
    /\ IsLive(is) => IsLive(was)
    /\ was \in Out => is \in Out \cup {None}
Marks(e) ==
    /\ \A x \in Events \ {e} : entry'[x] = entry[x] /\ pair'[x] = pair[x]
    /\ \A p \in Players : NoneRevived(entry[e][p], entry'[e][p])
    /\ \A pr \in Pairs : NoneRevived(pair[e][pr], pair'[e][pr])

FieldMoves(e) ==
    \/ UNCHANGED <<entry, pair>>
    \/ \E S \in SUBSET Players : EntersFit(e, S)
    \/ Marks(e)
    \/ \E a, b \in Players : PairUp(e, a, b)
    \/ \E pr \in Pairs, out \in Players \cup {None} : Unpair(e, pr, out)
    \/ \E pr \in Pairs, out, in \in Players : Swap(e, pr, out, in)

\* A fill enters nobody or fit members.
LEMMA FillEnters ==
  ASSUME NEW e \in Events, NEW line \in SUBSET Players, NEW enabled, Fill(e, line, enabled),
         UNCHANGED pair
  PROVE  \/ UNCHANGED <<entry, pair>>
         \/ \E S \in SUBSET Players : EntersFit(e, S)
<1>1. CASE UNCHANGED entry
  BY <1>1
<1>2. CASE SetEntries(e, Promoted(e, line), "registered")
  <2>1. EntersFit(e, Promoted(e, line))
    BY <1>2 DEF EntersFit, Promoted, Fit
  <2>2. Promoted(e, line) \in SUBSET Players
    BY DEF Promoted, Reached
  <2> QED BY <2>1, <2>2
<1> QED BY <1>1, <1>2 DEF Fill

\* Giving one row a status it may get revives nobody.
LEMMA MaySetRevivesNone ==
  ASSUME NEW e \in Events, NEW from \in EntryStatus \cup {None}, NEW s \in EntryStatus,
         MaySet(e, from, s)
  PROVE  NoneRevived(from, s)
  BY DEF MaySet, NoneRevived, IsLive, EntryStatus, Out, None

\* A row left as it was is not brought back.
LEMMA SameIsNotRevived == ASSUME NEW s PROVE NoneRevived(s, s)
  BY DEF NoneRevived

\* One entry of e is given a status and nothing else changes.
LEMMA OneEntryMarks ==
  ASSUME TypeOK, NEW e \in Events, NEW p \in Players, NEW s,
         SetEntries(e, {p}, s), UNCHANGED pair, NoneRevived(entry[e][p], s)
  PROVE  Marks(e)
<1>1. \A q \in Players : entry'[e][q] = IF q = p THEN s ELSE entry[e][q]
  BY DEF SetEntries, TypeOK
<1>2. \A x \in Events \ {e} : entry'[x] = entry[x] /\ pair'[x] = pair[x]
  BY DEF SetEntries, TypeOK
<1> QED BY <1>1, <1>2, SameIsNotRevived DEF Marks

\* One pair of e is given a status and nothing else changes.
LEMMA OnePairMarks ==
  ASSUME TypeOK, NEW e \in Events, NEW pr \in Pairs, NEW s,
         pair' = [pair EXCEPT ![e][pr] = s], UNCHANGED entry, NoneRevived(pair[e][pr], s)
  PROVE  Marks(e)
<1>1. \A q \in Pairs : pair'[e][q] = IF q = pr THEN s ELSE pair[e][q]
  BY DEF TypeOK
<1>2. \A x \in Events \ {e} : entry'[x] = entry[x] /\ pair'[x] = pair[x]
  BY DEF TypeOK
<1> QED BY <1>1, <1>2, SameIsNotRevived DEF Marks

\* An exit, a removal, a status and the bulk check-in bring nobody to life.
LEMMA MarkingSteps ==
  ASSUME TypeOK, NEW e \in Events,
         \/ \E p \in Players : \/ Withdraw(e, p) \/ RemoveLoose(e, p)
                             \/ \E s \in DeskStatuses : SetEntryStatus(e, p, s)
         \/ \E pr \in Pairs : \/ RemovePair(e, pr)
                            \/ \E s \in DeskStatuses : SetPairStatus(e, pr, s)
         \/ BulkCheckIn(e)
  PROVE  Marks(e)
<1> USE DEF settings
<1>0. /\ NoneRevived("registered", "withdrawn") /\ NoneRevived("checked_in", "withdrawn")
      /\ \A s : NoneRevived(s, None)
  BY DEF NoneRevived, IsLive, Out, None
<1>1. ASSUME NEW p \in Players, Withdraw(e, p) PROVE Marks(e)
  BY <1>0, <1>1, OneEntryMarks DEF Withdraw
<1>2. ASSUME NEW p \in Players, RemoveLoose(e, p) PROVE Marks(e)
  BY <1>0, <1>2, OneEntryMarks DEF RemoveLoose
<1>3. ASSUME NEW pr \in Pairs, RemovePair(e, pr) PROVE Marks(e)
  BY <1>0, <1>3, OnePairMarks DEF RemovePair
<1>4. ASSUME NEW p \in Players, NEW s \in DeskStatuses, SetEntryStatus(e, p, s)
      PROVE  Marks(e)
  <2>1. s \in EntryStatus /\ entry[e][p] \in EntryStatus \cup {None}
    BY EventFieldAssumption DEF TypeOK
  <2> QED BY <1>4, <2>1, MaySetRevivesNone, OneEntryMarks DEF SetEntryStatus
<1>5. ASSUME NEW pr \in Pairs, NEW s \in DeskStatuses, SetPairStatus(e, pr, s)
      PROVE  Marks(e)
  <2>1. s \in EntryStatus /\ pair[e][pr] \in EntryStatus \cup {None}
    BY EventFieldAssumption DEF TypeOK
  <2> QED BY <1>5, <2>1, MaySetRevivesNone, OnePairMarks DEF SetPairStatus
<1>6. ASSUME BulkCheckIn(e) PROVE Marks(e)
  <2>1. NoneRevived("registered", "checked_in")
    BY DEF NoneRevived, IsLive, Out, None
  <2>2. \A x \in Events \ {e} : entry'[x] = entry[x] /\ pair'[x] = pair[x]
    BY <1>6 DEF BulkCheckIn, TypeOK
  <2>3. ASSUME NEW p \in Players PROVE NoneRevived(entry[e][p], entry'[e][p])
    <3>1. \/ entry'[e][p] = entry[e][p]
          \/ entry[e][p] = "registered" /\ entry'[e][p] = "checked_in"
      BY <1>6 DEF BulkCheckIn, TypeOK
    <3> QED BY <2>1, <3>1, SameIsNotRevived
  <2>4. ASSUME NEW pr \in Pairs PROVE NoneRevived(pair[e][pr], pair'[e][pr])
    <3>1. \/ pair'[e][pr] = pair[e][pr]
          \/ pair[e][pr] = "registered" /\ pair'[e][pr] = "checked_in"
      BY <1>6 DEF BulkCheckIn, TypeOK
    <3> QED BY <2>1, <3>1, SameIsNotRevived
  <2> QED BY <2>2, <2>3, <2>4 DEF Marks
<1> QED BY <1>1, <1>2, <1>3, <1>4, <1>5, <1>6

\* Every step about an event does one of the six things.
LEMMA FieldStep ==
  ASSUME TypeOK, NEW e \in Events, MemberStep(e) \/ DeskStep(e) \/ CallStep(e)
  PROVE  FieldMoves(e)
<1> USE DEF settings, FieldMoves
<1>1. ASSUME NEW p \in Players, Enter(e, p) PROVE FieldMoves(e)
  <2>1. EntersFit(e, {p})
    BY <1>1 DEF Enter, EntersFit
  <2> QED BY <2>1
<1>2. ASSUME NEW p \in Players, JoinBegins(e, p) \/ JoinRefused(e, p) \/ LeaveWaitlist(e, p)
      PROVE  FieldMoves(e)
  BY <1>2 DEF JoinBegins, JoinRefused, LeaveWaitlist
<1>3. ASSUME NEW p \in Players, Join(e, p) PROVE FieldMoves(e)
  <2>1. waiting[e] \cup {p} \in SUBSET Players
    BY DEF TypeOK
  <2> QED BY <1>3, <2>1, FillEnters DEF Join
<1>4. ASSUME NEW p \in Players, Withdraw(e, p) PROVE FieldMoves(e)
  BY <1>4, MarkingSteps
<1>5. ASSUME MemberStep(e) PROVE FieldMoves(e)
  BY <1>1, <1>2, <1>3, <1>4, <1>5 DEF MemberStep
<1>6. ASSUME NEW S \in SUBSET Players, AddParticipants(e, S) PROVE FieldMoves(e)
  <2>1. EntersFit(e, S)
    BY <1>6 DEF AddParticipants, EntersFit
  <2> QED BY <2>1
<1>7. ASSUME NEW p \in Players, RemoveLoose(e, p) PROVE FieldMoves(e)
  BY <1>7, MarkingSteps
<1>8. ASSUME NEW p \in Players, Promote(e, p) PROVE FieldMoves(e)
  <2>1. EntersFit(e, {p})
    BY <1>8 DEF Promote, EntersFit, Fit
  <2> QED BY <2>1
<1>9. ASSUME NEW pr \in Pairs, RemovePair(e, pr) PROVE FieldMoves(e)
  BY <1>9, MarkingSteps
<1>10. ASSUME NEW p \in Players, NEW s \in DeskStatuses, SetEntryStatus(e, p, s)
       PROVE  FieldMoves(e)
  BY <1>10, MarkingSteps
<1>11. ASSUME NEW pr \in Pairs, NEW s \in DeskStatuses, SetPairStatus(e, pr, s)
       PROVE  FieldMoves(e)
  BY <1>11, MarkingSteps
<1>12. ASSUME BulkCheckIn(e) PROVE FieldMoves(e)
  BY <1>12, MarkingSteps
<1>13. ASSUME NEW enabled \in BOOLEAN, NEW automatic \in BOOLEAN,
              SetWaitlist(e, enabled, automatic)
       PROVE  FieldMoves(e)
  <2>1. waiting[e] \in SUBSET Players
    BY DEF TypeOK
  <2> QED BY <1>13, <2>1, FillEnters DEF SetWaitlist
<1>14. ASSUME NEW n \in LimitValues, SetLimit(e, n) PROVE FieldMoves(e)
  BY <1>14 DEF SetLimit
<1>15. ASSUME ToggleLock(e) \/ Advance(e) PROVE FieldMoves(e)
  BY <1>15 DEF ToggleLock, Advance
<1>16. ASSUME DeskStep(e) PROVE FieldMoves(e)
  BY <1>6, <1>7, <1>8, <1>9, <1>10, <1>11, <1>12, <1>13, <1>14, <1>15, <1>16 DEF DeskStep
<1>17. ASSUME CallStep(e) PROVE FieldMoves(e)
  <2>1. waiting[e] \in SUBSET Players
    BY DEF TypeOK
  <2> QED BY <1>17, <2>1, FillEnters DEF CallStep, AskSettings, RunFill, LoseCall
<1> QED BY <1>5, <1>16, <1>17

\* Any other step leaves them alone.
LEMMA FieldNext ==
  ASSUME TypeOK, [Next]_fieldVars
  PROVE  UNCHANGED <<entry, pair>> \/ \E e \in Events : FieldMoves(e)
<1>1. ASSUME NEW p \in Players, ToggleBar(p) PROVE UNCHANGED <<entry, pair>>
  BY <1>1 DEF ToggleBar
<1> QED BY <1>1, FieldStep DEF Next, ToggleSuspension, fieldVars

-----------------------------------------------------------------------------
(* Out is final.                                                           *)

StayOut(e) ==
    /\ \A p \in Players : entry[e][p] \in Out => entry'[e][p] \in Out \cup {None}
    /\ \A pr \in Pairs : pair[e][pr] \in Out => pair'[e][pr] \in Out \cup {None}

\* In the event that is touched.
LEMMA MovesStayOut ==
  ASSUME TypeOK, NEW e \in Events, FieldMoves(e)
  PROVE  StayOut(e)
<1> USE DEF StayOut
<1>0. None \notin Out
  BY DEF None, Out
<1>1. ASSUME NEW S \in SUBSET Players, EntersFit(e, S) PROVE StayOut(e)
  BY <1>0, <1>1 DEF EntersFit, SetEntries, TypeOK
<1>2. CASE Marks(e)
  BY <1>2 DEF Marks, NoneRevived
<1>3. ASSUME NEW a \in Players, NEW b \in Players, PairUp(e, a, b) PROVE StayOut(e)
  <2>1. <<a, b>> \in Pairs /\ pair[e][<<a, b>>] = None
    BY <1>3, PairTypes DEF PairUp
  <2>2. \A p \in Players : entry'[e][p] \in {None, entry[e][p]}
    BY <1>3 DEF PairUp, SetEntries, TypeOK
  <2>3. \A pr \in Pairs : pr # <<a, b>> => pair'[e][pr] = pair[e][pr]
    BY <1>3, <2>1 DEF PairUp, TypeOK
  <2> QED BY <1>0, <2>1, <2>2, <2>3
<1>4. ASSUME NEW pr \in Pairs, NEW out \in Players \cup {None}, Unpair(e, pr, out)
      PROVE  StayOut(e)
  <2>1. \A p \in Players : entry'[e][p] = entry[e][p] \/ entry[e][p] = None
    BY <1>4 DEF Unpair, TypeOK
  <2>2. \A x \in Pairs : pair'[e][x] \in {None, pair[e][x]}
    BY <1>4 DEF Unpair, TypeOK
  <2> QED BY <1>0, <2>1, <2>2
<1>5. ASSUME NEW pr \in Pairs, NEW out \in Players, NEW in \in Players, Swap(e, pr, out, in)
      PROVE  StayOut(e)
  <2>1. Swapped(pr, out, in) \in Pairs
    BY <1>5, SwappedIsPair DEF Swap
  <2>2. \A p \in Players : entry'[e][p] \in {None, entry[e][p]} \/ entry[e][p] = None
    BY <1>5 DEF Swap, TypeOK
  <2>3. \A x \in Pairs : pair'[e][x] \in {None, pair[e][x]} \/ pair[e][x] = None
    BY <1>5, <2>1 DEF Swap, TypeOK
  <2> QED BY <1>0, <2>2, <2>3
<1> QED BY <1>1, <1>2, <1>3, <1>4, <1>5 DEF FieldMoves

\* And the other events keep their rows.
LEMMA MovesElsewhere ==
  ASSUME TypeOK, NEW e \in Events, FieldMoves(e), NEW x \in Events \ {e}
  PROVE  entry'[x] = entry[x] /\ pair'[x] = pair[x]
  BY DEF FieldMoves, EntersFit, SetEntries, Marks, PairUp, Unpair, Swap, TypeOK

\* Withdrawn and disqualified entries never come back to life.
THEOREM OutIsFinal == Spec => OutStaysOut
<1>1. TypeOK /\ [Next]_fieldVars => [\A e \in Events : StayOut(e)]_fieldVars
  <2> SUFFICES ASSUME TypeOK, [Next]_fieldVars, NEW e \in Events PROVE StayOut(e)
    OBVIOUS
  <2>1. CASE UNCHANGED <<entry, pair>>
    BY <2>1 DEF StayOut
  <2>2. ASSUME NEW x \in Events, FieldMoves(x) PROVE StayOut(e)
    <3>1. CASE x = e
      BY <2>2, <3>1, MovesStayOut
    <3>2. CASE x # e
      BY <2>2, <3>2, MovesElsewhere DEF StayOut
    <3> QED BY <3>1, <3>2
  <2> QED BY <2>1, <2>2, FieldNext
<1> QED BY <1>1, FieldTypeCorrect, PTL DEF Spec, OutStaysOut, StayOut

-----------------------------------------------------------------------------
(* Nobody is in an event twice.                                            *)

\* InOnce for one event.
OnceIn(e) ==
    /\ \A pr \in LivePairs(e) : \A p \in Members(pr) : ~IsLive(entry[e][p])
    /\ \A pr, other \in LivePairs(e) : pr # other => Members(pr) \cap Members(other) = {}

\* What a pair touches is a member.
LEMMA MembersArePlayers == ASSUME NEW pr \in Pairs PROVE Members(pr) \subseteq Players
  BY DEF Pairs, Members

\* None of the six things brings a member into an event a second time.
LEMMA MovesKeepOnce ==
  ASSUME TypeOK, NEW e \in Events, OnceIn(e), FieldMoves(e)
  PROVE  OnceIn(e)'
<1>0. /\ \A p \in Players : InPair(e, p) <=> \E pr \in Pairs : IsLive(pair[e][pr]) /\ p \in Members(pr)
      /\ \A pr \in Pairs : pr \in LivePairs(e) <=> IsLive(pair[e][pr])
      /\ \A pr \in Pairs : pr \in LivePairs(e)' <=> IsLive(pair'[e][pr])
      /\ LivePairs(e) \subseteq Pairs /\ LivePairs(e)' \subseteq Pairs
      /\ ~IsLive(None) /\ ~IsLive("withdrawn") /\ IsLive("registered")
  BY DEF InPair, LivePairs, IsLive, Out, None
<1>1. ASSUME NEW S \in SUBSET Players, EntersFit(e, S) PROVE OnceIn(e)'
  <2>1. \A p \in Players : entry'[e][p] = entry[e][p] \/ ~InPair(e, p)
    BY <1>1 DEF EntersFit, SetEntries, TypeOK
  <2>2. pair' = pair
    BY <1>1 DEF EntersFit
  <2>3. LivePairs(e)' = LivePairs(e)
    BY <2>2 DEF LivePairs
  <2> QED BY <1>0, <2>1, <2>3, MembersArePlayers DEF OnceIn, InPair
<1>2. CASE Marks(e)
  <2>1. LivePairs(e)' \subseteq LivePairs(e)
    BY <1>0, <1>2 DEF Marks, NoneRevived
  <2>2. \A p \in Players : IsLive(entry'[e][p]) => IsLive(entry[e][p])
    BY <1>2 DEF Marks, NoneRevived
  <2> QED BY <1>0, <2>1, <2>2, MembersArePlayers DEF OnceIn
<1>3. ASSUME NEW a \in Players, NEW b \in Players, PairUp(e, a, b) PROVE OnceIn(e)'
  <2>1. <<a, b>> \in Pairs /\ Members(<<a, b>>) = {a, b}
    BY <1>3, PairTypes DEF PairUp, Members
  <2>2. \A p \in Players : entry'[e][p] = IF p \in {a, b} THEN None ELSE entry[e][p]
    BY <1>3 DEF PairUp, SetEntries, TypeOK
  <2>3. \A pr \in Pairs : pr # <<a, b>> => pair'[e][pr] = pair[e][pr]
    BY <1>3, <2>1 DEF PairUp, TypeOK
  <2>4. \A pr \in LivePairs(e)' : pr = <<a, b>> \/ pr \in LivePairs(e)
    BY <1>0, <2>3
  <2>5. \A pr \in LivePairs(e) : Members(pr) \cap {a, b} = {}
    BY <1>3, MembersArePlayers DEF PairUp, InPair
  <2> QED BY <1>0, <2>1, <2>2, <2>4, <2>5, MembersArePlayers DEF OnceIn
<1>4. ASSUME NEW pr \in Pairs, NEW out \in Players \cup {None}, Unpair(e, pr, out)
      PROVE  OnceIn(e)'
  <2>1. \A p \in Players : entry'[e][p] = entry[e][p] \/ p \in Members(pr)
    BY <1>4 DEF Unpair, TypeOK
  <2>2. \A x \in Pairs : pair'[e][x] = IF x = pr THEN None ELSE pair[e][x]
    BY <1>4 DEF Unpair, TypeOK
  <2>3. pr \in LivePairs(e)
    BY <1>4 DEF Unpair
  <2>4. \A x \in LivePairs(e)' : x # pr /\ x \in LivePairs(e)
    BY <1>0, <2>2
  <2> QED BY <1>0, <2>1, <2>3, <2>4, MembersArePlayers DEF OnceIn
<1>5. ASSUME NEW pr \in Pairs, NEW out \in Players, NEW in \in Players, Swap(e, pr, out, in)
      PROVE  OnceIn(e)'
  <2> DEFINE new == Swapped(pr, out, in)
             stays == Partner(pr, out)
  <2>1. /\ new \in Pairs /\ Members(new) = {in, stays} /\ Members(pr) = {out, stays}
        /\ stays \in Players /\ in # stays /\ out # stays
    BY <1>5, SwappedIsPair DEF Swap
  <2> HIDE DEF new, stays
  <2>2. /\ pr \in LivePairs(e) /\ in \in LiveLoose(e)
        /\ \A other \in LivePairs(e) \ {pr} : in \notin Members(other)
    BY <1>5 DEF Swap
  <2>3. /\ pair' = [pair EXCEPT ![e] = [@ EXCEPT ![pr] = None, ![new] = "registered"]]
        /\ entry' = [entry EXCEPT ![e] = [@ EXCEPT ![in] = None, ![out] = "registered"]]
    BY <1>5 DEF Swap, new
  <2>4. in # out /\ new # pr
    <3>1. out \notin LiveLoose(e)
      BY <1>0, <2>1, <2>2 DEF OnceIn, LiveLoose
    <3> QED BY <2>1, <2>2, <3>1
  <2>5. \A p \in Players : entry'[e][p] = IF p = in THEN None ELSE IF p = out THEN "registered" ELSE entry[e][p]
    BY <2>3, <2>4 DEF TypeOK
  <2>6. \A x \in Pairs : pair'[e][x] = IF x = pr THEN None ELSE IF x = new THEN "registered" ELSE pair[e][x]
    BY <2>1, <2>3, <2>4 DEF TypeOK
  <2>7. \A x \in LivePairs(e)' : x = new \/ (x \in LivePairs(e) /\ x # pr)
    BY <1>0, <2>6
  <2>8. \A x \in LivePairs(e) \ {pr} : Members(x) \cap {in, out, stays} = {}
    BY <2>1, <2>2 DEF OnceIn
  <2>9. ~IsLive(entry'[e][in]) /\ ~IsLive(entry'[e][stays])
    BY <1>0, <2>1, <2>2, <2>5 DEF OnceIn
  <2>10. \A x \in LivePairs(e)' : \A p \in Members(x) : ~IsLive(entry'[e][p])
    BY <1>0, <2>1, <2>5, <2>7, <2>8, <2>9, MembersArePlayers DEF OnceIn
  <2>11. \A x, y \in LivePairs(e)' : x # y => Members(x) \cap Members(y) = {}
    BY <2>1, <2>7, <2>8 DEF OnceIn
  <2> QED BY <2>10, <2>11 DEF OnceIn
<1>6. CASE UNCHANGED <<entry, pair>>
  BY <1>6 DEF OnceIn, LivePairs
<1> QED BY <1>1, <1>2, <1>3, <1>4, <1>5, <1>6 DEF FieldMoves

\* The other events are left as they are.
LEMMA ElsewhereOnce ==
  ASSUME NEW x \in Events, OnceIn(x), entry'[x] = entry[x], pair'[x] = pair[x]
  PROVE  OnceIn(x)'
  BY DEF OnceIn, LivePairs

\* A member is in an event at most once, alone or in one pair.
THEOREM EveryoneInOnce == Spec => []InOnce
<1> DEFINE Once == \A e \in Events : OnceIn(e)
<1>1. Init => Once
  BY DEF Init, OnceIn, LivePairs, IsLive, None
<1>2. TypeOK /\ Once /\ [Next]_fieldVars => Once'
  <2> SUFFICES ASSUME TypeOK, Once, [Next]_fieldVars, NEW x \in Events
               PROVE  OnceIn(x)'
    OBVIOUS
  <2>1. CASE UNCHANGED <<entry, pair>>
    BY <2>1, ElsewhereOnce
  <2>2. ASSUME NEW e \in Events, FieldMoves(e) PROVE OnceIn(x)'
    <3>1. CASE x = e
      BY <2>2, <3>1, MovesKeepOnce
    <3>2. CASE x # e
      BY <2>2, <3>2, MovesElsewhere, ElsewhereOnce
    <3> QED BY <3>1, <3>2
  <2> QED BY <2>1, <2>2, FieldNext
<1>3. Once => InOnce
  BY DEF OnceIn, InOnce
<1> QED BY <1>1, <1>2, <1>3, FieldTypeCorrect, PTL DEF Spec

-----------------------------------------------------------------------------
(* The line of an event stays a line.                                      *)

\* LineIsOrdered for one event.
OrderedIn(e) ==
    /\ joining[e] \cap waiting[e] = {}
    /\ \A p, q \in InLine(e) : p # q => (p \in ahead[e][q] <=> q \notin ahead[e][p])
    /\ \A p \in Players : ahead[e][p] \subseteq InLine(e) \ {p}
    /\ \A p \in Players : \A q \in ahead[e][p] : ahead[e][q] \subseteq ahead[e][p]

\* Those in S leave the line of e, from wherever they stand in it.
Shrinks(e, S) ==
    /\ S \subseteq InLine(e)
    /\ InLine(e)' = InLine(e) \ S
    /\ joining'[e] \cap waiting'[e] = {}
    /\ ahead'[e] = [p \in Players |-> IF p \in S THEN {} ELSE ahead[e][p] \ S]
    /\ \A x \in Events \ {e} : UNCHANGED <<joining[x], waiting[x], ahead[x]>>

QueueMoves(e) ==
    \/ UNCHANGED queueVars
    \/ \E p \in Players : JoinBegins(e, p)
    \/ \E S \in SUBSET Players : Shrinks(e, S)

\* Members of a line leave it, and no join is decided.
LEMMA LeavingShrinks ==
  ASSUME TypeOK, NEW e \in Events, OrderedIn(e), NEW S \in SUBSET waiting[e],
         LeaveLine(e, waiting[e], S), UNCHANGED joining
  PROVE  Shrinks(e, S)
<1>1. waiting'[e] = waiting[e] \ S
  BY DEF LeaveLine, TypeOK
<1>2. ahead'[e] = [p \in Players |-> IF p \in S THEN {} ELSE ahead[e][p] \ S]
  BY DEF LeaveLine, TypeOK
<1>3. \A x \in Events \ {e} : UNCHANGED <<joining[x], waiting[x], ahead[x]>>
  BY DEF LeaveLine, TypeOK
<1> QED BY <1>1, <1>2, <1>3 DEF Shrinks, InLine, OrderedIn

\* A join is decided: its member moves into the waitlist, and some leave it.
LEMMA JoiningShrinks ==
  ASSUME TypeOK, NEW e \in Events, OrderedIn(e), NEW p \in joining[e],
         NEW line, line = waiting[e] \/ line = waiting[e] \cup {p},
         NEW S \in SUBSET (waiting[e] \cup {p}), line = waiting[e] => p \in S,
         LeaveLine(e, line, S), joining' = [joining EXCEPT ![e] = @ \ {p}]
  PROVE  Shrinks(e, S)
<1>1. waiting'[e] = line \ S /\ joining'[e] = joining[e] \ {p}
  BY DEF LeaveLine, TypeOK
<1>2. ahead'[e] = [q \in Players |-> IF q \in S THEN {} ELSE ahead[e][q] \ S]
  BY DEF LeaveLine, TypeOK
<1>3. \A x \in Events \ {e} : UNCHANGED <<joining[x], waiting[x], ahead[x]>>
  BY DEF LeaveLine, TypeOK
<1>4. p \notin waiting[e]
  BY DEF OrderedIn
<1>5. InLine(e)' = InLine(e) \ S
  <2>1. InLine(e)' = (joining[e] \ {p}) \cup (line \ S) /\ InLine(e) = joining[e] \cup waiting[e]
    BY <1>1 DEF InLine
  <2>2. joining[e] \cap S \subseteq {p}
    BY DEF OrderedIn
  <2> QED BY <1>4, <2>1, <2>2
<1> QED BY <1>1, <1>2, <1>3, <1>4, <1>5 DEF Shrinks, InLine, OrderedIn

\* A fill is a leaving of some of those it finds in the line.
LEMMA FillLeaves ==
  ASSUME NEW e \in Events, NEW line, NEW enabled, Fill(e, line, enabled)
  PROVE  \E S \in SUBSET line : LeaveLine(e, line, S)
<1>1. Reached(e, line) \in SUBSET line /\ {} \in SUBSET line
  BY DEF Reached
<1> QED BY <1>1 DEF Fill

\* Every step about an event does one of the three things to its line.
LEMMA QueueStep ==
  ASSUME TypeOK, NEW e \in Events, OrderedIn(e), MemberStep(e) \/ DeskStep(e) \/ CallStep(e)
  PROVE  QueueMoves(e)
<1> USE DEF QueueMoves
<1>0. waiting[e] \in SUBSET Players /\ joining[e] \in SUBSET Players
  BY DEF TypeOK
<1>1. ASSUME NEW p \in Players, JoinRefused(e, p) PROVE QueueMoves(e)
  <2>1. Shrinks(e, {p})
    BY <1>1, JoiningShrinks DEF JoinRefused
  <2> QED BY <2>1
<1>2. ASSUME NEW p \in Players, Join(e, p) PROVE QueueMoves(e)
  <2>1. \E S \in SUBSET (waiting[e] \cup {p}) : LeaveLine(e, waiting[e] \cup {p}, S)
    BY <1>2, FillLeaves DEF Join
  <2>2. PICK S \in SUBSET (waiting[e] \cup {p}) : LeaveLine(e, waiting[e] \cup {p}, S)
    BY <2>1
  <2>3. /\ p \in joining[e] /\ p \notin waiting[e]
        /\ joining' = [joining EXCEPT ![e] = @ \ {p}]
    BY <1>2 DEF Join, OrderedIn
  <2> DEFINE line == waiting[e] \cup {p}
  <2>4. line # waiting[e] /\ LeaveLine(e, line, S)
    BY <2>2, <2>3
  <2> HIDE DEF line
  <2>5. Shrinks(e, S)
    BY <2>3, <2>4, JoiningShrinks DEF line
  <2> QED BY <1>0, <2>5
<1>3. ASSUME NEW p \in Players, LeaveWaitlist(e, p) \/ Promote(e, p) PROVE QueueMoves(e)
  <2>1. Shrinks(e, {p})
    BY <1>3, LeavingShrinks DEF LeaveWaitlist, Promote
  <2> QED BY <2>1
<1>4. ASSUME NEW enabled, Fill(e, waiting[e], enabled), UNCHANGED joining PROVE QueueMoves(e)
  <2>1. PICK S \in SUBSET waiting[e] : LeaveLine(e, waiting[e], S)
    BY <1>4, FillLeaves
  <2>2. Shrinks(e, S)
    BY <1>4, <2>1, LeavingShrinks
  <2> QED BY <1>0, <2>2
<1>5. ASSUME NEW enabled \in BOOLEAN, NEW automatic \in BOOLEAN,
             SetWaitlist(e, enabled, automatic)
      PROVE  QueueMoves(e)
  BY <1>4, <1>5 DEF SetWaitlist, queueVars
<1>6. CASE MemberStep(e)
  BY <1>1, <1>2, <1>3, <1>6 DEF MemberStep, Enter, Withdraw
<1>7. CASE CallStep(e)
  BY <1>4, <1>7 DEF CallStep, AskSettings, RunFill, LoseCall
<1>8. CASE DeskStep(e)
  BY <1>3, <1>5, <1>8 DEF DeskStep, AddParticipants, PairUp, Unpair, Swap, RemoveLoose,
     RemovePair, SetEntryStatus, SetPairStatus, BulkCheckIn, SetLimit, ToggleLock, Advance
<1> QED BY <1>6, <1>7, <1>8

\* Each of them keeps the order, and the other events keep their lines.
LEMMA MovesKeepOrder ==
  ASSUME TypeOK, NEW e \in Events, OrderedIn(e), QueueMoves(e)
  PROVE  OrderedIn(e)'
<1>1. CASE UNCHANGED queueVars
  BY <1>1 DEF queueVars, OrderedIn, InLine
<1>2. ASSUME NEW p \in Players, JoinBegins(e, p) PROVE OrderedIn(e)'
  <2>1. /\ p \notin InLine(e) /\ joining'[e] = joining[e] \cup {p} /\ waiting'[e] = waiting[e]
        /\ \A q \in Players : ahead'[e][q] = IF q = p THEN InLine(e) ELSE ahead[e][q]
    BY <1>2 DEF JoinBegins, InLine, TypeOK
  <2>2. InLine(e)' = InLine(e) \cup {p}
    BY <2>1 DEF InLine
  <2>3. InLine(e) \subseteq Players
    BY DEF InLine, TypeOK
  <2>4. p \notin ahead[e][p] /\ \A q \in Players : p \notin ahead[e][q] /\ ahead[e][q] \subseteq InLine(e)
    BY <2>1 DEF OrderedIn
  <2>5. \A q, r \in InLine(e)' : q # r => (q \in ahead'[e][r] <=> r \notin ahead'[e][q])
    BY <2>1, <2>2, <2>3, <2>4 DEF OrderedIn
  <2>6. \A q \in Players : ahead'[e][q] \subseteq InLine(e)' \ {q}
    BY <2>1, <2>2, <2>4 DEF OrderedIn
  <2>7. \A q \in Players : \A r \in ahead'[e][q] : ahead'[e][r] \subseteq ahead'[e][q]
    BY <2>1, <2>2, <2>3, <2>4 DEF OrderedIn
  <2>8. joining'[e] \cap waiting'[e] = {}
    BY <2>1 DEF OrderedIn, InLine
  <2> QED BY <2>5, <2>6, <2>7, <2>8 DEF OrderedIn
<1>3. ASSUME NEW S \in SUBSET Players, Shrinks(e, S) PROVE OrderedIn(e)'
  <2>1. InLine(e)' = InLine(e) \ S /\ joining'[e] \cap waiting'[e] = {}
    BY <1>3 DEF Shrinks
  <2>2. \A q \in Players : \A r : r \in ahead'[e][q] <=> q \notin S /\ r \notin S /\ r \in ahead[e][q]
    <3> SUFFICES ASSUME NEW q \in Players
                 PROVE  \A r : r \in ahead'[e][q] <=> q \notin S /\ r \notin S /\ r \in ahead[e][q]
      OBVIOUS
    <3>1. ahead'[e][q] = IF q \in S THEN {} ELSE ahead[e][q] \ S
      BY <1>3 DEF Shrinks
    <3> QED BY <3>1
  <2>3. \A q, r \in InLine(e)' : q # r => (q \in ahead'[e][r] <=> r \notin ahead'[e][q])
    <3>1. InLine(e) \subseteq Players
      BY DEF InLine, TypeOK
    <3> QED BY <2>1, <2>2, <3>1 DEF OrderedIn
  <2>4. \A q \in Players : ahead'[e][q] \subseteq InLine(e)' \ {q}
    BY <2>1, <2>2 DEF OrderedIn
  <2>5. \A q \in Players : \A r \in ahead'[e][q] : ahead'[e][r] \subseteq ahead'[e][q]
    <3>1. \A q \in Players : ahead[e][q] \subseteq Players
      BY DEF TypeOK
    <3> QED BY <2>2, <3>1 DEF OrderedIn
  <2> QED BY <2>1, <2>3, <2>4, <2>5 DEF OrderedIn
<1> QED BY <1>1, <1>2, <1>3 DEF QueueMoves

\* An event whose line is left alone stays in order.
LEMMA ElsewhereOrder ==
  ASSUME NEW x \in Events, OrderedIn(x), UNCHANGED <<joining[x], waiting[x], ahead[x]>>
  PROVE  OrderedIn(x)'
  BY DEF OrderedIn, InLine

\* A step about one event leaves the line of every other alone.
LEMMA QueueElsewhere ==
  ASSUME TypeOK, NEW e \in Events, QueueMoves(e), NEW x \in Events \ {e}
  PROVE  UNCHANGED <<joining[x], waiting[x], ahead[x]>>
  BY DEF QueueMoves, queueVars, JoinBegins, Shrinks, TypeOK

\* The waitlist of every event is in one order at all times.
THEOREM WaitlistIsALine == Spec => []LineIsOrdered
<1> DEFINE Ordered == \A e \in Events : OrderedIn(e)
<1>1. Init => Ordered
  BY DEF Init, OrderedIn, InLine
<1>2. TypeOK /\ Ordered /\ [Next]_fieldVars => Ordered'
  <2> SUFFICES ASSUME TypeOK, Ordered, [Next]_fieldVars, NEW x \in Events
               PROVE  OrderedIn(x)'
    OBVIOUS
  <2>1. CASE UNCHANGED queueVars
    BY <2>1, ElsewhereOrder DEF queueVars
  <2>2. ASSUME NEW e \in Events, MemberStep(e) \/ DeskStep(e) \/ CallStep(e)
        PROVE  OrderedIn(x)'
    <3>1. QueueMoves(e)
      BY <2>2, QueueStep
    <3>2. CASE x = e
      BY <3>1, <3>2, MovesKeepOrder
    <3>3. CASE x # e
      BY <3>1, <3>3, QueueElsewhere, ElsewhereOrder
    <3> QED BY <3>2, <3>3
  <2>3. ASSUME NEW p \in Players, ToggleBar(p) PROVE UNCHANGED queueVars
    BY <2>3 DEF ToggleBar
  <2> QED BY <2>1, <2>2, <2>3 DEF Next, ToggleSuspension, fieldVars, queueVars
<1>3. Ordered <=> LineIsOrdered
  BY DEF OrderedIn, LineIsOrdered
<1> QED BY <1>1, <1>2, <1>3, FieldTypeCorrect, PTL DEF Spec

-----------------------------------------------------------------------------
(* The line is served in order, and never by an event that does not.       *)

\* A fill enters nobody before a member who stays waiting, unless they were
\* ahead in the line: who is reached has everyone ahead reached too.
LEMMA FillInOrder ==
  ASSUME TypeOK, NEW e \in Events, OrderedIn(e), NEW line \in SUBSET InLine(e),
         NEW enabled, Fill(e, line, enabled), UNCHANGED pair,
         NEW p \in line, p \in waiting'[e],
         NEW q \in Players, q \in InLine(e) => p \in ahead[e][q]
  PROVE  InEvent(e, q) \/ ~InEvent(e, q)'
<1>0. LivePairs(e)' = LivePairs(e)
  BY DEF LivePairs
<1>1. CASE UNCHANGED entry
  BY <1>0, <1>1 DEF InEvent, InPair
<1>2. CASE ~UNCHANGED entry
  <2>1. /\ SetEntries(e, Promoted(e, line), "registered")
        /\ LeaveLine(e, line, Reached(e, line))
    BY <1>2 DEF Fill
  <2>2. p \notin Reached(e, line)
    BY <2>1 DEF LeaveLine, TypeOK
  <2>3. q \notin Promoted(e, line)
    <3> SUFFICES ASSUME q \in Reached(e, line) PROVE FALSE
      BY DEF Promoted
    <3>1. q \in line /\ p \in ahead[e][q] /\ ahead[e][p] \subseteq ahead[e][q]
      BY DEF Reached, OrderedIn
    <3>2. \A r \in line \cap (ahead[e][p] \cup {p}) :
              ~FullFor(e, Cardinality(FitAhead(e, line, r)), 1)
      BY <3>1 DEF Reached
    <3> QED BY <2>2, <3>2 DEF Reached
  <2>4. entry'[e][q] = entry[e][q]
    BY <2>1, <2>3 DEF SetEntries, TypeOK
  <2> QED BY <1>0, <2>4 DEF InEvent, InPair
<1> QED BY <1>1, <1>2

OvertakesNobody(e) ==
    WithoutTheDesk(e) =>
        \A p, q \in Players :
            /\ p \in waiting[e] /\ p \in waiting'[e]
            /\ q \in InLine(e) => p \in ahead[e][q]
            => InEvent(e, q) \/ ~InEvent(e, q)'

\* Of two members the one behind does not come in first.
THEOREM QueueIsRespected == Spec => NobodyOvertakes
<1>1. TypeOK /\ LineIsOrdered /\ [Next]_fieldVars => [\A e \in Events : OvertakesNobody(e)]_fieldVars
  <2> SUFFICES ASSUME TypeOK, LineIsOrdered, NEW e \in Events, WithoutTheDesk(e),
                      NEW p \in Players, NEW q \in Players,
                      p \in waiting[e], p \in waiting'[e], q \in InLine(e) => p \in ahead[e][q]
               PROVE  InEvent(e, q) \/ ~InEvent(e, q)'
    BY DEF OvertakesNobody
  <2>0. OrderedIn(e) /\ waiting[e] \in SUBSET InLine(e)
    BY DEF LineIsOrdered, OrderedIn, InLine
  <2>1. ASSUME NEW x \in Players, Enter(e, x) PROVE FALSE
    BY <2>1 DEF Enter
  <2>2. ASSUME UNCHANGED <<entry, pair>> PROVE InEvent(e, q) \/ ~InEvent(e, q)'
    BY <2>2 DEF InEvent, InPair, LivePairs
  <2>3. ASSUME NEW x \in Players, Join(e, x) PROVE InEvent(e, q) \/ ~InEvent(e, q)'
    <3>1. CASE auto[e]
      <4>1. waiting[e] \cup {x} \in SUBSET InLine(e)
        BY <2>3 DEF Join, InLine
      <4>2. Fill(e, waiting[e] \cup {x}, TRUE) /\ UNCHANGED pair
        BY <2>3, <3>1 DEF Join
      <4> QED BY <2>0, <4>1, <4>2, FillInOrder
    <3>2. CASE ~auto[e]
      BY <2>2, <2>3, <3>2 DEF Join
    <3> QED BY <3>1, <3>2
  <2>4. CASE RunFill(e)
    BY <2>0, <2>4, FillInOrder DEF RunFill
  <2>5. ASSUME NEW enabled \in BOOLEAN, NEW automatic \in BOOLEAN,
               SetWaitlist(e, enabled, automatic)
        PROVE  InEvent(e, q) \/ ~InEvent(e, q)'
    BY <2>0, <2>2, <2>5, FillInOrder DEF SetWaitlist
  <2> QED BY <2>1, <2>3, <2>4, <2>5 DEF WithoutTheDesk
<1> QED BY <1>1, FieldTypeCorrect, WaitlistIsALine, PTL DEF Spec, NobodyOvertakes, OvertakesNobody

\* One event's waitlist is on while somebody waits.
LEMMA MovesKeepServed ==
  ASSUME TypeOK, NEW e \in Events, MemberStep(e) \/ DeskStep(e) \/ CallStep(e),
         WaitersCanBeServed
  PROVE  WaitersCanBeServed'
<1> USE DEF WaitersCanBeServed, settings, queueVars
<1>0. ASSUME NEW line, NEW S, LeaveLine(e, line, S)
      PROVE  waiting'[e] \subseteq line /\ \A x \in Events \ {e} : waiting'[x] = waiting[x]
  BY <1>0 DEF LeaveLine, TypeOK
<1>1. ASSUME NEW line, NEW enabled, Fill(e, line, enabled)
      PROVE  waiting'[e] \subseteq line /\ \A x \in Events \ {e} : waiting'[x] = waiting[x]
  BY <1>0, <1>1 DEF Fill
<1>2. ASSUME NEW p \in Players, JoinRefused(e, p) \/ LeaveWaitlist(e, p) \/ Promote(e, p)
      PROVE  WaitersCanBeServed'
  BY <1>0, <1>2 DEF JoinRefused, LeaveWaitlist, Promote
<1>3. ASSUME NEW p \in Players, Join(e, p) PROVE WaitersCanBeServed'
  <2>1. on[e] /\ on' = on
    BY <1>3 DEF Join, MayJoin
  <2>2. \A x \in Events \ {e} : waiting'[x] = waiting[x]
    BY <1>0, <1>1, <1>3 DEF Join
  <2> QED BY <2>1, <2>2
<1>4. ASSUME NEW enabled \in BOOLEAN, NEW automatic \in BOOLEAN,
             SetWaitlist(e, enabled, automatic)
      PROVE  WaitersCanBeServed'
  <2>1. \A x \in Events : on'[x] = IF x = e THEN enabled ELSE on[x]
    BY <1>4 DEF SetWaitlist, TypeOK
  <2>2. \A x \in Events \ {e} : waiting'[x] = waiting[x]
    BY <1>1, <1>4 DEF SetWaitlist
  <2>3. enabled \/ waiting'[e] = {}
    BY <1>4 DEF SetWaitlist
  <2> QED BY <2>1, <2>2, <2>3
<1>5. CASE MemberStep(e)
  BY <1>2, <1>3, <1>5 DEF MemberStep, Enter, JoinBegins, Withdraw
<1>6. CASE CallStep(e)
  BY <1>1, <1>6 DEF CallStep, AskSettings, RunFill, LoseCall
<1>7. CASE DeskStep(e)
  BY <1>2, <1>4, <1>7 DEF DeskStep, AddParticipants, PairUp, Unpair, Swap, RemoveLoose,
     RemovePair, SetEntryStatus, SetPairStatus, BulkCheckIn, SetLimit, ToggleLock, Advance,
     changeVars
<1> QED BY <1>5, <1>6, <1>7

\* Nobody waits in a line that is not served.
THEOREM WaitersAreServed == Spec => []WaitersCanBeServed
<1>1. Init => WaitersCanBeServed
  BY DEF Init, WaitersCanBeServed
<1>2. TypeOK /\ WaitersCanBeServed /\ [Next]_fieldVars => WaitersCanBeServed'
  <2>1. ASSUME NEW p \in Players, ToggleBar(p), WaitersCanBeServed PROVE WaitersCanBeServed'
    BY <2>1 DEF ToggleBar, WaitersCanBeServed, queueVars
  <2>2. ASSUME ToggleSuspension \/ UNCHANGED fieldVars, WaitersCanBeServed
        PROVE  WaitersCanBeServed'
    BY <2>2 DEF ToggleSuspension, WaitersCanBeServed, queueVars, fieldVars
  <2> QED BY <2>1, <2>2, MovesKeepServed DEF Next
<1> QED BY <1>1, <1>2, FieldTypeCorrect, PTL DEF Spec

-----------------------------------------------------------------------------
(* The cap on a member's entries.                                          *)

\* A member has finitely many entries.
LEMMA FiniteEntries == ASSUME NEW p \in Players PROVE IsFiniteSet(Entries(p))
<1>1. IsFiniteSet(Players \X Players)
  BY EventFieldAssumption, FS_Product
<1>2. IsFiniteSet(Events \X (Players \X Players))
  BY <1>1, EventFieldAssumption, FS_Product
<1>3. Entries(p) \in SUBSET (Events \X (Players \X Players))
  BY DEF Entries, Pairs, Alone
<1> QED BY <1>2, <1>3, FS_Subset

\* What counts as an entry of p in e.
EntryIn(e, p, k) ==
    \/ k = Alone(p) /\ p \in LiveLoose(e)
    \/ k \in LivePairs(e) /\ p \in Members(k)

\* The entries of a member, read off the rows one event at a time.
LEMMA EntriesAre ==
  ASSUME NEW p \in Players
  PROVE  Entries(p) = {x \in Events \X (Players \X Players) : EntryIn(x[1], p, x[2])}
<1>1. ASSUME NEW x, x \in Entries(p)
      PROVE  x \in Events \X (Players \X Players) /\ EntryIn(x[1], p, x[2])
  BY <1>1 DEF Entries, EntryIn, Pairs, Alone, LivePairs
<1>2. ASSUME NEW x \in Events \X (Players \X Players), EntryIn(x[1], p, x[2])
      PROVE  x \in Entries(p)
  BY <1>2 DEF Entries, EntryIn, Pairs, Alone, LivePairs
<1> QED BY <1>1, <1>2

\* A set that loses at least one element and gains at most one does not grow.
LEMMA Exchange ==
  ASSUME NEW A, IsFiniteSet(A), NEW B, NEW x \in A, NEW y, B \subseteq (A \ {x}) \cup {y}
  PROVE  Cardinality(B) <= Cardinality(A)
<1>1. IsFiniteSet(A \ {x}) /\ Cardinality(A \ {x}) = Cardinality(A) - 1
  BY FS_RemoveElement
<1> DEFINE L == A \ {x}
<1> HIDE DEF L
<1>2. IsFiniteSet(L \cup {y}) /\ Cardinality(L \cup {y}) <= Cardinality(A)
  <2>1. IsFiniteSet(L) /\ Cardinality(L) = Cardinality(A) - 1
    BY <1>1 DEF L
  <2>2. /\ IsFiniteSet(L \cup {y})
        /\ Cardinality(L \cup {y}) = IF y \in L THEN Cardinality(L) ELSE Cardinality(L) + 1
    BY <2>1, FS_AddElement
  <2>3. Cardinality(A) \in Nat
    BY FS_CardinalityType
  <2> QED BY <2>1, <2>2, <2>3
<1>3. Cardinality(B) <= Cardinality(L \cup {y}) /\ IsFiniteSet(B)
  <2>1. B \in SUBSET (L \cup {y})
    BY DEF L
  <2> QED BY <1>2, <2>1, FS_Subset
<1> QED BY <1>2, <1>3, FS_CardinalityType

\* A set that gains at most one element grows by at most one.
LEMMA GrowsByOne ==
  ASSUME NEW A, IsFiniteSet(A), NEW B, NEW y, B \subseteq A \cup {y}
  PROVE  Cardinality(B) <= Cardinality(A) + 1
<1>1. IsFiniteSet(A \cup {y}) /\ Cardinality(A \cup {y}) <= Cardinality(A) + 1
  <2>1. /\ IsFiniteSet(A \cup {y})
        /\ Cardinality(A \cup {y}) = IF y \in A THEN Cardinality(A) ELSE Cardinality(A) + 1
    BY FS_AddElement
  <2>2. Cardinality(A) \in Nat
    BY FS_CardinalityType
  <2> QED BY <2>1, <2>2
<1>2. Cardinality(B) <= Cardinality(A \cup {y}) /\ IsFiniteSet(B)
  BY <1>1, FS_Subset
<1> QED BY <1>1, <1>2, FS_CardinalityType

Capped(p) == EntryCap > 0 => Cardinality(Entries(p)) <= EntryCap

\* p's entries in e are those before without gone, and perhaps with come.
EntriesChange(e, p, gone, come) ==
    \A k \in Players \X Players :
        EntryIn(e, p, k)' => k \in come \/ (EntryIn(e, p, k) /\ k \notin gone)

\* So are p's entries in the tournament.
LEMMA EntriesFollow ==
  ASSUME NEW e \in Events, NEW p \in Players, NEW gone, NEW come, EntriesChange(e, p, gone, come),
         \A x \in Events \ {e} : entry'[x] = entry[x] /\ pair'[x] = pair[x]
  PROVE  Entries(p)' \subseteq (Entries(p) \ ({e} \X gone)) \cup ({e} \X come)
<1>1. \A x \in Events \ {e} : \A k : EntryIn(x, p, k)' => EntryIn(x, p, k)
  BY DEF EntryIn, LiveLoose, LivePairs
<1>2. ASSUME NEW x, x \in Entries(p)'
      PROVE  x \in Events \X (Players \X Players) /\ EntryIn(x[1], p, x[2])'
  BY <1>2 DEF Entries, EntryIn, Pairs, Alone, LivePairs
<1>3. ASSUME NEW x, x \in Entries(p)'
      PROVE  x \in (Entries(p) \ ({e} \X gone)) \cup ({e} \X come)
  <2>1. x \in Events \X (Players \X Players) /\ EntryIn(x[1], p, x[2])'
    BY <1>2, <1>3
  <2>2. CASE x[1] = e
    BY <2>1, <2>2, EntriesAre DEF EntriesChange
  <2>3. CASE x[1] # e
    BY <1>1, <2>1, <2>3, EntriesAre
  <2> QED BY <2>2, <2>3
<1> QED BY <1>3

\* Capped survives a loss, an exchange, and a gain below the cap.
LEMMA LossIsCapped ==
  ASSUME NEW e \in Events, NEW p \in Players, EntriesChange(e, p, {}, {}), Capped(p),
         \A x \in Events \ {e} : entry'[x] = entry[x] /\ pair'[x] = pair[x]
  PROVE  Capped(p)'
<1>1. Entries(p)' \in SUBSET Entries(p)
  BY EntriesFollow
<1>2. Cardinality(Entries(p)') <= Cardinality(Entries(p))
  BY <1>1, FiniteEntries, FS_Subset
<1>3. Cardinality(Entries(p)) \in Nat /\ Cardinality(Entries(p)') \in Nat
  BY <1>1, FiniteEntries, FS_Subset, FS_CardinalityType
<1> QED BY <1>2, <1>3, EventFieldAssumption DEF Capped

\* A member who gives up an entry for another stays within the cap.
LEMMA ExchangeIsCapped ==
  ASSUME NEW e \in Events, NEW p \in Players, NEW x \in Players \X Players, EntryIn(e, p, x),
         NEW y, EntriesChange(e, p, {x}, {y}), Capped(p),
         \A o \in Events \ {e} : entry'[o] = entry[o] /\ pair'[o] = pair[o]
  PROVE  Capped(p)'
<1>1. Entries(p)' \subseteq (Entries(p) \ {<<e, x>>}) \cup {<<e, y>>}
  BY EntriesFollow
<1>2. <<e, x>> \in Entries(p)
  BY EntriesAre
<1>3. Cardinality(Entries(p)') <= Cardinality(Entries(p))
  BY <1>1, <1>2, FiniteEntries, Exchange
<1>4. Cardinality(Entries(p)) \in Nat /\ Cardinality(Entries(p)') \in Nat
  <2>1. IsFiniteSet((Entries(p) \ {<<e, x>>}) \cup {<<e, y>>})
    BY FiniteEntries, FS_RemoveElement, FS_AddElement
  <2> QED BY <1>1, <2>1, FiniteEntries, FS_Subset, FS_CardinalityType
<1> QED BY <1>3, <1>4, EventFieldAssumption DEF Capped

\* A member below the cap may gain one entry.
LEMMA GainIsCapped ==
  ASSUME NEW e \in Events, NEW p \in Players, NEW y, EntriesChange(e, p, {}, {y}),
         ~AtCap(p, Cardinality(Entries(p))),
         \A o \in Events \ {e} : entry'[o] = entry[o] /\ pair'[o] = pair[o]
  PROVE  Capped(p)'
<1>1. Entries(p)' \subseteq Entries(p) \cup {<<e, y>>}
  BY EntriesFollow
<1>2. Cardinality(Entries(p)') <= Cardinality(Entries(p)) + 1
  BY <1>1, FiniteEntries, GrowsByOne
<1>3. Cardinality(Entries(p)) \in Nat /\ Cardinality(Entries(p)') \in Nat
  <2>1. IsFiniteSet(Entries(p) \cup {<<e, y>>})
    BY FiniteEntries, FS_AddElement
  <2> QED BY <1>1, <2>1, FiniteEntries, FS_Subset, FS_CardinalityType
<1> QED BY <1>2, <1>3, EventFieldAssumption DEF Capped, AtCap

\* None of the six things takes a member over the cap.
LEMMA MovesKeepCap ==
  ASSUME TypeOK, NEW e \in Events, OnceIn(e), FieldMoves(e), NEW p \in Players, Capped(p)
  PROVE  Capped(p)'
<1>0. /\ \A x \in Events \ {e} : entry'[x] = entry[x] /\ pair'[x] = pair[x]
      /\ ~IsLive(None) /\ ~IsLive("withdrawn") /\ IsLive("registered")
  BY MovesElsewhere DEF IsLive, Out, None
<1>1. /\ p \in LiveLoose(e) <=> IsLive(entry[e][p])
      /\ p \in LiveLoose(e)' <=> IsLive(entry'[e][p])
      /\ \A k : k \in LivePairs(e) <=> k \in Pairs /\ IsLive(pair[e][k])
      /\ \A k : k \in LivePairs(e)' <=> k \in Pairs /\ IsLive(pair'[e][k])
  BY DEF LiveLoose, LivePairs
<1>2. CASE UNCHANGED <<entry, pair>>
  <2>1. EntriesChange(e, p, {}, {})
    BY <1>2 DEF EntriesChange, EntryIn, LiveLoose, LivePairs
  <2> QED BY <1>0, <2>1, LossIsCapped
<1>3. CASE Marks(e)
  <2>1. EntriesChange(e, p, {}, {})
    BY <1>1, <1>3 DEF EntriesChange, EntryIn, Marks, NoneRevived
  <2> QED BY <1>0, <2>1, LossIsCapped
<1>4. ASSUME NEW S \in SUBSET Players, EntersFit(e, S) PROVE Capped(p)'
  <2>0. LivePairs(e)' = LivePairs(e)
    BY <1>4 DEF EntersFit, LivePairs
  <2>1. CASE p \in S
    <3>1. EntriesChange(e, p, {}, {Alone(p)})
      BY <2>0 DEF EntriesChange, EntryIn
    <3> QED BY <1>0, <1>4, <2>1, <3>1, GainIsCapped DEF EntersFit
  <2>2. CASE p \notin S
    <3>1. entry'[e][p] = entry[e][p]
      BY <1>4, <2>2 DEF EntersFit, SetEntries, TypeOK
    <3>2. EntriesChange(e, p, {}, {})
      BY <1>1, <2>0, <3>1 DEF EntriesChange, EntryIn
    <3> QED BY <1>0, <3>2, LossIsCapped
  <2> QED BY <2>1, <2>2
<1>5. ASSUME NEW a \in Players, NEW b \in Players, PairUp(e, a, b) PROVE Capped(p)'
  <2>1. /\ <<a, b>> \in Pairs /\ Members(<<a, b>>) = {a, b}
        /\ entry'[e][p] = IF p \in {a, b} THEN None ELSE entry[e][p]
    BY <1>5, PairTypes DEF PairUp, SetEntries, TypeOK, Members
  <2>2. \A k \in LivePairs(e)' : k = <<a, b>> \/ k \in LivePairs(e)
    BY <1>1, <1>5, <2>1 DEF PairUp, TypeOK
  <2>3. CASE p \notin {a, b}
    <3>1. EntriesChange(e, p, {}, {})
      BY <1>1, <2>1, <2>2, <2>3 DEF EntriesChange, EntryIn
    <3> QED BY <1>0, <3>1, LossIsCapped
  <2>4. CASE p \in {a, b} /\ p \in LiveLoose(e)
    <3>1. EntryIn(e, p, Alone(p)) /\ Alone(p) \in (Players \X Players) \ Pairs
      BY <2>4 DEF EntryIn, Alone, Pairs
    <3>2. EntriesChange(e, p, {Alone(p)}, {<<a, b>>})
      BY <1>0, <1>1, <2>1, <2>2, <2>4, <3>1 DEF EntriesChange, EntryIn
    <3> QED BY <1>0, <3>1, <3>2, ExchangeIsCapped
  <2>5. CASE p \in {a, b} /\ p \notin LiveLoose(e)
    <3>1. EntriesChange(e, p, {}, {<<a, b>>})
      BY <1>0, <1>1, <2>1, <2>2, <2>5 DEF EntriesChange, EntryIn
    <3>2. ~AtCap(p, Cardinality(Entries(p)) - 0)
      BY <1>5, <2>5 DEF PairUp
    <3>3. Cardinality(Entries(p)) \in Nat
      BY FiniteEntries, FS_CardinalityType
    <3>4. ~AtCap(p, Cardinality(Entries(p)))
      BY <3>2, <3>3
    <3> QED BY <1>0, <3>1, <3>4, GainIsCapped
  <2> QED BY <2>3, <2>4, <2>5
<1>6. ASSUME NEW pr \in Pairs, NEW out \in Players \cup {None}, Unpair(e, pr, out)
      PROVE  Capped(p)'
  <2>1. /\ pr \in LivePairs(e)
        /\ entry'[e][p] = entry[e][p] \/ p \in Members(pr)
        /\ \A k \in LivePairs(e)' : k # pr /\ k \in LivePairs(e)
    BY <1>0, <1>1, <1>6 DEF Unpair, TypeOK
  <2>2. CASE p \in Members(pr)
    <3>1. EntryIn(e, p, pr) /\ pr \in Players \X Players /\ Alone(p) \notin Pairs
      BY <2>1, <2>2 DEF EntryIn, Pairs, Alone
    <3>2. EntriesChange(e, p, {pr}, {Alone(p)})
      BY <1>1, <2>1, <3>1 DEF EntriesChange, EntryIn
    <3> QED BY <1>0, <3>1, <3>2, ExchangeIsCapped
  <2>3. CASE p \notin Members(pr)
    <3>1. EntriesChange(e, p, {}, {})
      BY <1>1, <2>1, <2>3 DEF EntriesChange, EntryIn
    <3> QED BY <1>0, <3>1, LossIsCapped
  <2> QED BY <2>2, <2>3
<1>7. ASSUME NEW pr \in Pairs, NEW out \in Players, NEW in \in Players, Swap(e, pr, out, in)
      PROVE  Capped(p)'
  <2> DEFINE new == Swapped(pr, out, in)
             stays == Partner(pr, out)
  <2>1. /\ new \in Pairs /\ Members(new) = {in, stays} /\ Members(pr) = {out, stays}
        /\ in # stays /\ out # stays
    BY <1>7, SwappedIsPair DEF Swap
  <2>2. /\ pair' = [pair EXCEPT ![e] = [@ EXCEPT ![pr] = None, ![new] = "registered"]]
        /\ entry' = [entry EXCEPT ![e] = [@ EXCEPT ![in] = None, ![out] = "registered"]]
        /\ pr \in LivePairs(e) /\ in \in LiveLoose(e)
    BY <1>7 DEF Swap
  <2> HIDE DEF new, stays
  <2>3. in # out
    BY <1>1, <2>1, <2>2 DEF OnceIn, LiveLoose
  <2>4. entry'[e][p] = IF p = in THEN None ELSE IF p = out THEN "registered" ELSE entry[e][p]
    BY <2>2, <2>3 DEF TypeOK
  <2>5. \A k \in LivePairs(e)' : k = new \/ (k \in LivePairs(e) /\ k # pr)
    BY <1>0, <1>1, <2>1, <2>2 DEF TypeOK
  <2>6. Alone(p) \in (Players \X Players) \ Pairs /\ pr \in Players \X Players
    BY DEF Alone, Pairs
  <2>7. CASE p = in
    <3>1. EntryIn(e, p, Alone(p))
      BY <2>2, <2>7 DEF EntryIn
    <3>2. EntriesChange(e, p, {Alone(p)}, {new})
      BY <1>0, <1>1, <2>4, <2>5, <2>6, <2>7 DEF EntriesChange, EntryIn
    <3> QED BY <1>0, <2>6, <3>1, <3>2, ExchangeIsCapped
  <2>8. CASE p = out
    <3>1. EntryIn(e, p, pr)
      BY <2>1, <2>2, <2>8 DEF EntryIn
    <3>2. EntriesChange(e, p, {pr}, {Alone(p)})
      BY <1>1, <2>1, <2>3, <2>5, <2>6, <2>8 DEF EntriesChange, EntryIn
    <3> QED BY <1>0, <2>6, <3>1, <3>2, ExchangeIsCapped
  <2>9. CASE p = stays
    <3>1. EntryIn(e, p, pr)
      BY <2>1, <2>2, <2>9 DEF EntryIn
    <3>2. entry'[e][p] = entry[e][p] /\ ~IsLive(entry[e][p])
      BY <2>1, <2>2, <2>4, <2>9 DEF OnceIn
    <3>3. EntriesChange(e, p, {pr}, {new})
      BY <1>1, <2>5, <3>2 DEF EntriesChange, EntryIn
    <3> QED BY <1>0, <2>6, <3>1, <3>3, ExchangeIsCapped
  <2>10. CASE p \notin {in, out, stays}
    <3>1. EntriesChange(e, p, {}, {})
      BY <1>1, <2>1, <2>4, <2>5, <2>10 DEF EntriesChange, EntryIn
    <3> QED BY <1>0, <3>1, LossIsCapped
  <2> QED BY <2>7, <2>8, <2>9, <2>10
<1> QED BY <1>2, <1>3, <1>4, <1>5, <1>6, <1>7 DEF FieldMoves

\* Nobody holds more live entries in a tournament than its cap allows.
THEOREM EntryCapHolds == Spec => []WithinEntryCap
<1> DEFINE AllCapped == \A p \in Players : Capped(p)
<1>1. Init => AllCapped
  <2> SUFFICES ASSUME Init, NEW p \in Players PROVE Capped(p)
    OBVIOUS
  <2>1. Entries(p) = {}
    BY DEF Init, Entries, LiveLoose, LivePairs, IsLive, None
  <2> QED BY <2>1, FS_EmptySet, EventFieldAssumption DEF Capped
<1>2. TypeOK /\ InOnce /\ AllCapped /\ [Next]_fieldVars => AllCapped'
  <2> SUFFICES ASSUME TypeOK, InOnce, [Next]_fieldVars, NEW p \in Players, Capped(p)
               PROVE  Capped(p)'
    OBVIOUS
  <2>1. CASE UNCHANGED <<entry, pair>>
    BY <2>1 DEF Capped, Entries, LiveLoose, LivePairs
  <2>2. ASSUME NEW e \in Events, FieldMoves(e) PROVE Capped(p)'
    BY <2>2, MovesKeepCap DEF InOnce, OnceIn
  <2> QED BY <2>1, <2>2, FieldNext
<1>3. AllCapped => WithinEntryCap
  BY DEF Capped, WithinEntryCap
<1> QED BY <1>1, <1>2, <1>3, FieldTypeCorrect, EveryoneInOnce, PTL DEF Spec
-----------------------------------------------------------------------------
(* Counting places.                                                        *)

\* Members and pairs are finitely many.
LEMMA FieldFinite ==
  /\ \A S \in SUBSET Players : IsFiniteSet(S) /\ Cardinality(S) \in Nat
  /\ \A S \in SUBSET Pairs : IsFiniteSet(S) /\ Cardinality(S) \in Nat
<1>1. IsFiniteSet(Players \X Players)
  BY EventFieldAssumption, FS_Product
<1>2. Pairs \in SUBSET (Players \X Players)
  BY DEF Pairs
<1>3. IsFiniteSet(Pairs)
  BY <1>1, <1>2, FS_Subset
<1> QED BY <1>3, EventFieldAssumption, FS_Subset, FS_CardinalityType

\* What an event counts.
LEMMA Counts ==
  ASSUME NEW e \in Events
  PROVE  /\ LiveLoose(e) \in SUBSET Players /\ LivePairs(e) \in SUBSET Pairs
         /\ LiveLoose(e)' \in SUBSET Players /\ LivePairs(e)' \in SUBSET Pairs
         /\ Cardinality(LiveLoose(e)) \in Nat /\ Cardinality(LivePairs(e)) \in Nat
         /\ Cardinality(LiveLoose(e)') \in Nat /\ Cardinality(LivePairs(e)') \in Nat
<1>1. /\ LiveLoose(e) \in SUBSET Players /\ LivePairs(e) \in SUBSET Pairs
      /\ LiveLoose(e)' \in SUBSET Players /\ LivePairs(e)' \in SUBSET Pairs
  BY DEF LiveLoose, LivePairs
<1> QED BY <1>1, FieldFinite

\* Two members without a partner make a place.
LEMMA HalfPlaces ==
  ASSUME NEW n \in Nat
  PROVE  (n + 1) \div 2 \in Nat /\ (2 * ((n + 1) \div 2) = n \/ 2 * ((n + 1) \div 2) = n + 1)
  OBVIOUS

\* Places are numbers; one more member takes a place or fills one that is taken by half.
LEMMA PlacesAre ==
  ASSUME NEW e, NEW n \in Nat, NEW l \in Nat
  PROVE  /\ Places(e, n, l) \in Nat
         /\ e \notin DoublesEvents => Places(e, n, l) = l
         /\ e \in DoublesEvents =>
              \/ 2 * Places(e, n, l) = 2 * n + l
              \/ 2 * Places(e, n, l) = 2 * n + l + 1
  BY HalfPlaces DEF Places

\* More entries take no fewer places.
LEMMA PlacesGrow ==
  ASSUME NEW e, NEW n \in Nat, NEW l \in Nat, NEW m \in Nat, NEW k \in Nat, m <= n, k <= l
  PROVE  Places(e, m, k) <= Places(e, n, l)
<1>1. CASE e \in DoublesEvents
  <2>1. /\ Places(e, n, l) \in Nat /\ Places(e, m, k) \in Nat
        /\ 2 * Places(e, n, l) = 2 * n + l \/ 2 * Places(e, n, l) = 2 * n + l + 1
        /\ 2 * Places(e, m, k) = 2 * m + k \/ 2 * Places(e, m, k) = 2 * m + k + 1
    BY <1>1, PlacesAre
  <2>2. PICK a \in Nat, b \in Nat : a = Places(e, n, l) /\ b = Places(e, m, k)
    BY <2>1
  <2> QED BY <2>1, <2>2
<1>2. CASE e \notin DoublesEvents
  BY <1>2, PlacesAre
<1> QED BY <1>1, <1>2

\* An event full for one more: the next entry would take a place beyond the limit.
Full(e, n, l) == OverLimit(e, Places(e, n, l), Places(e, n, l + 1))

LEMMA FullIs ==
  ASSUME NEW e \in Events, NEW k \in Nat
  PROVE  FullFor(e, k, 1) <=> Full(e, Cardinality(LivePairs(e)), Cardinality(LiveLoose(e)) + k)
  BY Counts DEF FullFor, Full

\* The same after a step that leaves n pairs and l members without a partner.
LEMMA FullNext ==
  ASSUME NEW e \in Events, NEW n, NEW l,
         n = Cardinality(LivePairs(e)'), l = Cardinality(LiveLoose(e)')
  PROVE  /\ FullFor(e, 0, 1)' <=> Full(e, n, l)'
         /\ TakenPlaces(e)' = Places(e, n, l)
<1>1. n \in Nat /\ l \in Nat
  BY Counts
<1>2. TakenPlaces(e)' = Places(e, n, l)
  BY DEF TakenPlaces, Places
<1>3. l + 0 = l
  BY <1>1
<1>4. FullFor(e, 0, 1)' <=> Full(e, n, l + 0)'
  BY DEF FullFor, Full
<1> QED BY <1>2, <1>3, <1>4

-----------------------------------------------------------------------------
(* What the promoter's loop does to a line.                                *)

\* Of some members in line, one is behind all the others, and one ahead of them.
LEMMA LastInLine ==
  ASSUME TypeOK, NEW e \in Events, OrderedIn(e), NEW T \in SUBSET InLine(e), T # {}
  PROVE  \E q \in T : \A r \in T : r # q => r \in ahead[e][q]
<1> DEFINE behind(q) == InLine(e) \ ahead[e][q]
           F == {behind(q) : q \in T}
<1>1. InLine(e) \in SUBSET Players
  BY DEF TypeOK, InLine
<1>2. F \in SUBSET SUBSET InLine(e) /\ F # {}
  OBVIOUS
<1>3. IsFiniteSet(InLine(e))
  BY <1>1, FieldFinite
<1> HIDE DEF F
<1>4. PICK s \in F : \A u \in F : u \subseteq s => u = s
  BY <1>2, <1>3, SmallestSet
<1>5. PICK q \in T : s = behind(q)
  BY <1>4 DEF F
<1>6. ASSUME NEW r \in T, r # q, r \notin ahead[e][q] PROVE FALSE
  <2>1. q \in ahead[e][r] /\ r \in Players /\ q \in Players
    BY <1>1, <1>6 DEF OrderedIn
  <2>2. ahead[e][q] \subseteq ahead[e][r]
    BY <2>1 DEF OrderedIn
  <2>3. behind(r) \subseteq behind(q) /\ behind(r) \in F
    BY <2>2 DEF F
  <2>4. behind(r) = behind(q)
    BY <1>4, <1>5, <2>3
  <2>5. q \in behind(q)
    BY <2>1 DEF OrderedIn
  <2> QED BY <2>1, <2>4, <2>5
<1> QED BY <1>6

LEMMA FirstInLine ==
  ASSUME TypeOK, NEW e \in Events, OrderedIn(e), NEW T \in SUBSET InLine(e), T # {}
  PROVE  \E q \in T : \A r \in T : r # q => q \in ahead[e][r]
<1> DEFINE F == {ahead[e][q] : q \in T}
<1>1. InLine(e) \in SUBSET Players
  BY DEF TypeOK, InLine
<1>2. F \in SUBSET SUBSET Players /\ F # {}
  BY <1>1 DEF TypeOK
<1>3. IsFiniteSet(Players)
  BY EventFieldAssumption
<1> HIDE DEF F
<1>4. PICK s \in F : \A u \in F : u \subseteq s => u = s
  BY <1>2, <1>3, SmallestSet
<1>5. PICK q \in T : s = ahead[e][q]
  BY <1>4 DEF F
<1>6. ASSUME NEW r \in T, r # q, q \notin ahead[e][r] PROVE FALSE
  <2>1. r \in ahead[e][q] /\ r \in Players /\ q \in Players
    BY <1>1, <1>6 DEF OrderedIn
  <2>2. ahead[e][r] \subseteq ahead[e][q] /\ ahead[e][r] \in F
    BY <2>1 DEF OrderedIn, F
  <2>3. ahead[e][r] = ahead[e][q]
    BY <1>4, <1>5, <2>2
  <2> QED BY <2>1, <2>3 DEF OrderedIn
<1> QED BY <1>6

\* Whoever is ahead of a member that the loop reaches, and is fit, is promoted.
LEMMA AheadArePromoted ==
  ASSUME TypeOK, NEW e \in Events, OrderedIn(e), NEW line \in SUBSET InLine(e),
         NEW q \in Reached(e, line)
  PROVE  FitAhead(e, line, q) \subseteq Promoted(e, line)
<1> SUFFICES ASSUME NEW r \in FitAhead(e, line, q) PROVE r \in Promoted(e, line)
  OBVIOUS
<1>1. r \in line /\ r \in ahead[e][q] /\ Fit(e, r) /\ q \in line /\ q \in Players
  BY DEF FitAhead, Reached, InLine, TypeOK
<1>2. ahead[e][r] \subseteq ahead[e][q]
  BY <1>1 DEF OrderedIn
<1>3. line \cap (ahead[e][r] \cup {r}) \subseteq line \cap (ahead[e][q] \cup {q})
  BY <1>1, <1>2
<1>4. r \in Reached(e, line)
  BY <1>1, <1>3 DEF Reached
<1> QED BY <1>1, <1>4 DEF Promoted

\* Of those promoted up to some member of the line, the last had room after the others.
LEMMA LastHadRoom ==
  ASSUME TypeOK, NEW e \in Events, OrderedIn(e), NEW line \in SUBSET InLine(e),
         NEW T \in SUBSET Promoted(e, line), T # {},
         \A r \in T : Promoted(e, line) \cap ahead[e][r] \subseteq T
  PROVE  \E q \in T : FitAhead(e, line, q) = T \ {q}
                     /\ ~FullFor(e, Cardinality(T \ {q}), 1)
<1>1. \A r \in Promoted(e, line) : r \in line /\ r \in InLine(e) /\ r \in Reached(e, line) /\ Fit(e, r)
  BY DEF Promoted, Reached
<1>2. T \in SUBSET InLine(e)
  BY <1>1
<1>3. PICK q \in T : \A r \in T : r # q => r \in ahead[e][q]
  BY <1>2, LastInLine
<1>4. FitAhead(e, line, q) \subseteq T \ {q}
  <2>1. q \notin ahead[e][q]
    BY <1>2 DEF OrderedIn, InLine, TypeOK
  <2>2. FitAhead(e, line, q) \subseteq Promoted(e, line) \cap ahead[e][q]
    BY <1>1, AheadArePromoted DEF FitAhead
  <2> QED BY <2>1, <2>2
<1>5. T \ {q} \subseteq FitAhead(e, line, q)
  BY <1>1, <1>3 DEF FitAhead
<1>6. ~FullFor(e, Cardinality(FitAhead(e, line, q)), 1)
  BY <1>1 DEF Reached
<1>7. FitAhead(e, line, q) = T \ {q}
  BY <1>4, <1>5
<1> QED BY <1>6, <1>7

\* When somebody is left waiting, the event is full after those promoted.
LEMMA LeftWaiting ==
  ASSUME TypeOK, NEW e \in Events, OrderedIn(e), NEW line \in SUBSET InLine(e),
         line \ Reached(e, line) # {}
  PROVE  FullFor(e, Cardinality(Promoted(e, line)), 1)
<1> DEFINE B == {x \in line : FullFor(e, Cardinality(FitAhead(e, line, x)), 1)}
<1>1. B # {}
  BY DEF Reached
<1>2. B \in SUBSET InLine(e)
  OBVIOUS
<1> HIDE DEF B
<1>3. PICK q \in B : \A r \in B : r # q => q \in ahead[e][r]
  BY <1>1, <1>2, FirstInLine
<1>4. q \in line /\ q \in InLine(e) /\ q \in Players /\ FullFor(e, Cardinality(FitAhead(e, line, q)), 1)
  BY <1>3 DEF B, InLine, TypeOK
<1>5. ASSUME NEW r \in FitAhead(e, line, q) PROVE r \in Promoted(e, line)
  <2>1. r \in line /\ r \in ahead[e][q] /\ Fit(e, r)
    BY DEF FitAhead
  <2>2. ASSUME NEW x \in line \cap (ahead[e][r] \cup {r}), x \in B PROVE FALSE
    <3>1. x \in ahead[e][q]
      BY <1>4, <2>1 DEF OrderedIn
    <3>2. x # q /\ q \in ahead[e][x] /\ x \in InLine(e)
      BY <1>2, <1>3, <1>4, <2>2, <3>1 DEF OrderedIn
    <3> QED BY <1>4, <3>1, <3>2 DEF OrderedIn
  <2>3. r \in Reached(e, line)
    BY <2>1, <2>2 DEF Reached, B
  <2> QED BY <2>1, <2>3 DEF Promoted
<1>6. ASSUME NEW r \in Promoted(e, line) PROVE r \in FitAhead(e, line, q)
  <2>1. r \in line /\ r \in InLine(e) /\ r \in Reached(e, line) /\ Fit(e, r)
    BY DEF Promoted, Reached
  <2>2. q \notin ahead[e][r] /\ q # r
    BY <1>4, <2>1 DEF Reached
  <2>3. r \in ahead[e][q]
    BY <1>4, <2>1, <2>2 DEF OrderedIn
  <2> QED BY <2>1, <2>3 DEF FitAhead
<1>7. FitAhead(e, line, q) = Promoted(e, line)
  BY <1>5, <1>6
<1> QED BY <1>4, <1>7

-----------------------------------------------------------------------------
(* What an entry and a fill do to the places.                              *)

\* Members without a row are entered: the loose entries are so many more.
LEMMA EntersCount ==
  ASSUME TypeOK, NEW e \in Events, NEW S \in SUBSET Players, \A p \in S : entry[e][p] = None,
         SetEntries(e, S, "registered"), UNCHANGED pair
  PROVE  /\ Cardinality(LiveLoose(e)') = Cardinality(LiveLoose(e)) + Cardinality(S)
         /\ LivePairs(e)' = LivePairs(e)
<1>1. \A p \in Players : entry'[e][p] = IF p \in S THEN "registered" ELSE entry[e][p]
  BY DEF SetEntries, TypeOK
<1>2. IsLive("registered") /\ ~IsLive(None)
  BY DEF IsLive, Out, None
<1>3. LiveLoose(e)' = LiveLoose(e) \cup S /\ LiveLoose(e) \cap S = {}
  BY <1>1, <1>2 DEF LiveLoose
<1>4. /\ IsFiniteSet(S) /\ IsFiniteSet(LiveLoose(e)) /\ Cardinality(S) \in Nat
      /\ Cardinality(LiveLoose(e)) \in Nat
  BY Counts, FieldFinite
<1>5. Cardinality(LiveLoose(e) \cup S) =
        Cardinality(LiveLoose(e)) + Cardinality(S) - Cardinality(LiveLoose(e) \cap S)
  BY <1>4, FS_Union
<1>6. Cardinality(LiveLoose(e) \cap S) = 0
  BY <1>3, FS_EmptySet
<1>7. Cardinality(LiveLoose(e)') = Cardinality(LiveLoose(e)) + Cardinality(S)
  BY <1>3, <1>4, <1>5, <1>6
<1>8. LivePairs(e)' = LivePairs(e)
  BY DEF LivePairs
<1> QED BY <1>7, <1>8

\* A number of places that is under the limit, or no more than before.
NotBeyond(e, before, after) == limit[e] > 0 => after <= limit[e] \/ after <= before

\* The last promotions of a fill: the last one had room for a place, or filled one
\* that the one before it took.
LEMMA PromotedHaveRoom ==
  ASSUME TypeOK, NEW e \in Events, OrderedIn(e), NEW line \in SUBSET InLine(e),
         NEW n, NEW l, n = Cardinality(LivePairs(e)), l = Cardinality(LiveLoose(e)),
         NEW k, k = Cardinality(Promoted(e, line))
  PROVE  NotBeyond(e, Places(e, n, l), Places(e, n, l + k))
<1>1. PICK P : P = Promoted(e, line)
  OBVIOUS
<1>2. P \in SUBSET Players /\ n \in Nat /\ l \in Nat /\ limit[e] \in Nat
  <2>1. P \in SUBSET Players
    BY <1>1 DEF Promoted, Reached, InLine, TypeOK
  <2>2. limit[e] \in Nat
    BY EventFieldAssumption DEF TypeOK
  <2> QED BY <2>1, <2>2, Counts
<1>3. IsFiniteSet(P) /\ k \in Nat
  BY <1>1, <1>2, FieldFinite
<1>4. Places(e, n, l) \in Nat
  BY <1>2, PlacesAre
<1>5. CASE P = {}
  <2>1. k = 0
    BY <1>1, <1>5, FS_EmptySet
  <2>2. l + k = l
    BY <1>2, <2>1
  <2> QED BY <1>4, <2>2 DEF NotBeyond
<1>6. ASSUME NEW T \in SUBSET P, T # {}, \A r \in T : P \cap ahead[e][r] \subseteq T
      PROVE  \E q \in T : /\ FitAhead(e, line, q) = T \ {q}
                         /\ \E j \in Nat : /\ j = Cardinality(T \ {q}) /\ Cardinality(T) = j + 1
                                         /\ ~OverLimit(e, Places(e, n, l + j), Places(e, n, l + j + 1))
  <2>1. PICK q \in T : FitAhead(e, line, q) = T \ {q} /\ ~FullFor(e, Cardinality(T \ {q}), 1)
    BY <1>1, <1>6, LastHadRoom
  <2>2. T \ {q} \in SUBSET Players /\ T \in SUBSET Players
    BY <1>2
  <2>3. PICK j \in Nat : j = Cardinality(T \ {q})
    BY <2>2, FieldFinite
  <2>4. Cardinality(T) = j + 1
    <3>1. IsFiniteSet(T) /\ Cardinality(T) \in Nat
      BY <2>2, FieldFinite
    <3>2. Cardinality(T \ {q}) = Cardinality(T) - 1
      BY <3>1, FS_RemoveElement
    <3> QED BY <2>3, <3>1, <3>2
  <2>5. ~Full(e, n, l + j)
    BY <2>1, <2>3, FullIs
  <2> QED BY <2>1, <2>3, <2>4, <2>5 DEF Full
<1>7. CASE P # {}
  <2>1. PICK q \in P, j \in Nat :
            /\ FitAhead(e, line, q) = P \ {q} /\ j = Cardinality(P \ {q}) /\ k = j + 1
            /\ ~OverLimit(e, Places(e, n, l + j), Places(e, n, l + j + 1))
    BY <1>1, <1>6, <1>7
  <2>2. l + k = l + j + 1 /\ l + j \in Nat /\ l + j + 1 \in Nat
    BY <1>2, <2>1
  <2>3. PICK b \in Nat, c \in Nat : b = Places(e, n, l + j) /\ c = Places(e, n, l + j + 1)
    BY <1>2, <2>2, PlacesAre
  <2>4. CASE c > b
    BY <1>2, <2>1, <2>2, <2>3, <2>4 DEF OverLimit, NotBeyond
  <2>5. CASE c <= b /\ P \ {q} = {}
    <3>1. j = 0
      BY <2>1, <2>5, FS_EmptySet
    <3>2. l + j = l
      BY <1>2, <3>1
    <3> QED BY <2>2, <2>3, <2>5, <3>2 DEF NotBeyond
  <2>6. CASE c <= b /\ P \ {q} # {}
    <3>1. \A r \in P \ {q} : P \cap ahead[e][r] \subseteq P \ {q}
      <4> SUFFICES ASSUME NEW r \in P \ {q}, q \in ahead[e][r] PROVE FALSE
        OBVIOUS
      <4>1. r \in ahead[e][q] /\ r \in InLine(e) /\ q \in InLine(e) /\ r # q
        BY <1>1, <2>1 DEF FitAhead, Promoted, Reached
      <4> QED BY <4>1 DEF OrderedIn
    <3>2. PICK i \in Nat : /\ j = i + 1
                          /\ ~OverLimit(e, Places(e, n, l + i), Places(e, n, l + i + 1))
      BY <1>6, <2>1, <2>6, <3>1
    <3>3. l + i + 1 = l + j /\ l + i \in Nat
      BY <1>2, <3>2
    <3>4. PICK a \in Nat : a = Places(e, n, l + i)
      BY <1>2, <3>3, PlacesAre
    <3>5. b > a
      <4>1. CASE e \notin DoublesEvents
        <5>1. a = l + i /\ b = l + j
          BY <1>2, <2>2, <2>3, <3>3, <3>4, <4>1, PlacesAre
        <5> QED BY <1>2, <3>2, <5>1
      <4>2. CASE e \in DoublesEvents
        <5>1. 2 * a = 2 * n + (l + i) \/ 2 * a = 2 * n + (l + i) + 1
          BY <1>2, <3>3, <3>4, <4>2, PlacesAre
        <5>2. 2 * b = 2 * n + (l + j) \/ 2 * b = 2 * n + (l + j) + 1
          BY <1>2, <2>2, <2>3, <4>2, PlacesAre
        <5>3. 2 * c = 2 * n + (l + j + 1) \/ 2 * c = 2 * n + (l + j + 1) + 1
          BY <1>2, <2>2, <2>3, <4>2, PlacesAre
        <5> QED BY <1>2, <2>6, <3>2, <5>1, <5>2, <5>3
      <4> QED BY <4>1, <4>2
    <3>6. limit[e] > 0 => b <= limit[e]
      BY <1>2, <2>3, <3>2, <3>3, <3>4, <3>5 DEF OverLimit
    <3> QED BY <1>2, <2>2, <2>3, <2>6, <3>6 DEF NotBeyond
  <2> QED BY <2>3, <2>4, <2>5, <2>6
<1> QED BY <1>5, <1>7

-----------------------------------------------------------------------------
(* What the desk's work on pairs does to the counts.                       *)

\* Only events in doubles have pairs.
NoPairsIn(e) == e \notin DoublesEvents => LivePairs(e) = {}

LEMMA MovesKeepPairs ==
  ASSUME TypeOK, NEW e \in Events, NoPairsIn(e), FieldMoves(e)
  PROVE  NoPairsIn(e)'
<1> USE DEF NoPairsIn
<1>0. ~IsLive(None)
  BY DEF IsLive, None
<1>1. CASE UNCHANGED pair
  BY <1>1 DEF LivePairs
<1>2. CASE Marks(e)
  BY <1>2 DEF Marks, NoneRevived, LivePairs
<1>3. ASSUME NEW a \in Players, NEW b \in Players, PairUp(e, a, b) PROVE NoPairsIn(e)'
  BY <1>3 DEF PairUp
<1>4. ASSUME NEW pr \in Pairs, NEW out \in Players \cup {None}, Unpair(e, pr, out)
      PROVE  NoPairsIn(e)'
  BY <1>4 DEF Unpair
<1>5. ASSUME NEW pr \in Pairs, NEW out \in Players, NEW in \in Players, Swap(e, pr, out, in)
      PROVE  NoPairsIn(e)'
  BY <1>5 DEF Swap
<1> QED BY <1>1, <1>2, <1>3, <1>4, <1>5 DEF FieldMoves, EntersFit

\* A pair more, and those of the two who were in the pool fewer.
LEMMA PairUpCounts ==
  ASSUME TypeOK, NEW e \in Events, NEW a \in Players, NEW b \in Players, PairUp(e, a, b),
         NEW c, c = Cardinality({a, b} \cap LiveLoose(e))
  PROVE  /\ c \in {0, 1, 2} /\ c <= Cardinality(LiveLoose(e))
         /\ Cardinality(LivePairs(e)') = Cardinality(LivePairs(e)) + 1
         /\ Cardinality(LiveLoose(e)') = Cardinality(LiveLoose(e)) - c
<1>0. ~IsLive(None) /\ IsLive("registered")
  BY DEF IsLive, Out, None
<1>1. PICK pooled : pooled = {a, b} \cap LiveLoose(e)
  OBVIOUS
<1>2. a # b /\ <<a, b>> \in Pairs /\ pair[e][<<a, b>>] = None
  BY PairTypes DEF PairUp
<1>3. /\ LiveLoose(e)' = LiveLoose(e) \ pooled
  <2>1. \A p \in Players : entry'[e][p] = IF p \in {a, b} THEN None ELSE entry[e][p]
    BY DEF PairUp, SetEntries, TypeOK
  <2> QED BY <1>0, <1>1, <2>1 DEF LiveLoose
<1>4. LivePairs(e)' = LivePairs(e) \cup {<<a, b>>} /\ <<a, b>> \notin LivePairs(e)
  <2>1. \A pr \in Pairs : pair'[e][pr] = IF pr = <<a, b>> THEN "registered" ELSE pair[e][pr]
    BY <1>2 DEF PairUp, TypeOK
  <2> QED BY <1>0, <1>2, <2>1 DEF LivePairs
<1>5. /\ IsFiniteSet(LiveLoose(e)) /\ IsFiniteSet(LivePairs(e)) /\ pooled \in SUBSET LiveLoose(e)
      /\ IsFiniteSet(pooled) /\ Cardinality(pooled) \in Nat /\ Cardinality(LiveLoose(e)) \in Nat
      /\ Cardinality(LivePairs(e)) \in Nat
  BY <1>1, Counts, FieldFinite
<1>6. Cardinality(LivePairs(e)') = Cardinality(LivePairs(e)) + 1
  <2>1. Cardinality(LivePairs(e) \cup {<<a, b>>}) = Cardinality(LivePairs(e)) + 1
    BY <1>4, <1>5, FS_AddElement
  <2> QED BY <1>4, <2>1
<1>7. Cardinality(LiveLoose(e)') = Cardinality(LiveLoose(e)) - c /\ c <= Cardinality(LiveLoose(e))
  <2>1. Cardinality(LiveLoose(e) \ pooled) = Cardinality(LiveLoose(e)) - Cardinality(LiveLoose(e) \cap pooled)
    BY <1>5, FS_Difference
  <2>2. LiveLoose(e) \cap pooled = pooled
    BY <1>5
  <2>3. Cardinality(pooled) <= Cardinality(LiveLoose(e))
    BY <1>5, FS_Subset
  <2> QED BY <1>1, <1>3, <2>1, <2>2, <2>3
<1>8. c \in {0, 1, 2}
  <2>1. IsFiniteSet({a}) /\ Cardinality({a}) = 1
    BY FS_Singleton
  <2>2. IsFiniteSet({a} \cup {b}) /\ Cardinality({a} \cup {b}) = 2
    <3>1. b \notin {a}
      BY <1>2
    <3>2. IsFiniteSet({a} \cup {b}) /\ Cardinality({a} \cup {b}) = Cardinality({a}) + 1
      BY <2>1, <3>1, FS_AddElement
    <3> QED BY <2>1, <3>2
  <2>3. pooled \in SUBSET ({a} \cup {b})
    BY <1>1
  <2>4. Cardinality(pooled) <= 2
    BY <2>2, <2>3, FS_Subset
  <2> QED BY <1>1, <1>5, <2>4
<1> QED BY <1>6, <1>7, <1>8

\* A pair fewer, and two more in the pool at most.
LEMMA UnpairCounts ==
  ASSUME TypeOK, NEW e \in Events, NEW pr \in Pairs, NEW out \in Players \cup {None},
         Unpair(e, pr, out)
  PROVE  /\ Cardinality(LivePairs(e)) = Cardinality(LivePairs(e)') + 1
         /\ Cardinality(LiveLoose(e)') <= Cardinality(LiveLoose(e)) + 2
<1>0. ~IsLive(None)
  BY DEF IsLive, None
<1>1. LivePairs(e)' = LivePairs(e) \ {pr} /\ pr \in LivePairs(e)
  <2>1. \A x \in Pairs : pair'[e][x] = IF x = pr THEN None ELSE pair[e][x]
    BY DEF Unpair, TypeOK
  <2> QED BY <1>0, <2>1 DEF LivePairs, Unpair
<1>2. LiveLoose(e)' \subseteq (LiveLoose(e) \cup {pr[1]}) \cup {pr[2]}
  <2>1. \A p \in Players : entry'[e][p] = entry[e][p] \/ p \in Members(pr)
    BY DEF Unpair, TypeOK
  <2> QED BY <2>1 DEF LiveLoose, Members
<1>3. /\ IsFiniteSet(LiveLoose(e)) /\ IsFiniteSet(LivePairs(e)) /\ Cardinality(LiveLoose(e)) \in Nat
      /\ Cardinality(LivePairs(e)) \in Nat
  BY Counts, FieldFinite
<1>4. Cardinality(LivePairs(e)) = Cardinality(LivePairs(e)') + 1
  <2>1. Cardinality(LivePairs(e) \ {pr}) = Cardinality(LivePairs(e)) - 1
    BY <1>1, <1>3, FS_RemoveElement
  <2> QED BY <1>1, <1>3, <2>1
<1>5. \A x : \A S : IsFiniteSet(S) =>
          /\ IsFiniteSet(S \cup {x}) /\ Cardinality(S \cup {x}) \in Nat
          /\ Cardinality(S \cup {x}) <= Cardinality(S) + 1
  <2> SUFFICES ASSUME NEW x, NEW S, IsFiniteSet(S)
               PROVE  /\ IsFiniteSet(S \cup {x}) /\ Cardinality(S \cup {x}) \in Nat
                      /\ Cardinality(S \cup {x}) <= Cardinality(S) + 1
    OBVIOUS
  <2>1. IsFiniteSet(S \cup {x})
    BY FS_AddElement
  <2>2. Cardinality(S \cup {x}) <= Cardinality(S) + 1
    BY GrowsByOne
  <2> QED BY <2>1, <2>2, FS_CardinalityType
<1>6. PICK u : u = LiveLoose(e) \cup {pr[1]}
  OBVIOUS
<1>7. PICK w : w = u \cup {pr[2]}
  OBVIOUS
<1>8. /\ IsFiniteSet(u) /\ Cardinality(u) \in Nat /\ Cardinality(u) <= Cardinality(LiveLoose(e)) + 1
      /\ IsFiniteSet(w) /\ Cardinality(w) \in Nat /\ Cardinality(w) <= Cardinality(u) + 1
  BY <1>3, <1>5, <1>6, <1>7
<1>9. Cardinality(LiveLoose(e)') <= Cardinality(w) /\ Cardinality(LiveLoose(e)') \in Nat
  BY <1>2, <1>6, <1>7, <1>8, FS_Subset, Counts
<1> QED BY <1>3, <1>4, <1>8, <1>9

\* As many of both.
LEMMA SwapCounts ==
  ASSUME TypeOK, NEW e \in Events, NEW pr \in Pairs, NEW out \in Players, NEW in \in Players,
         Swap(e, pr, out, in)
  PROVE  /\ Cardinality(LivePairs(e)') = Cardinality(LivePairs(e))
         /\ Cardinality(LiveLoose(e)') = Cardinality(LiveLoose(e))
<1>0. ~IsLive(None) /\ IsLive("registered")
  BY DEF IsLive, Out, None
<1>1. PICK new \in Pairs : new = Swapped(pr, out, in)
  BY SwappedIsPair DEF Swap
<1>2. /\ in # out /\ new # pr /\ pr \in LivePairs(e) /\ new \notin LivePairs(e)
      /\ in \in LiveLoose(e) /\ out \notin LiveLoose(e)
  <2>1. /\ pr \in LivePairs(e) /\ in \in LiveLoose(e) /\ out \notin LiveLoose(e)
        /\ new \notin LivePairs(e)
    BY <1>0, <1>1 DEF Swap, LiveLoose, LivePairs
  <2> QED BY <2>1
<1>3. \A x \in Pairs : pair'[e][x] = IF x = pr THEN None ELSE IF x = new THEN "registered" ELSE pair[e][x]
  BY <1>1, <1>2 DEF Swap, TypeOK
<1>4. \A p \in Players : entry'[e][p] = IF p = in THEN None ELSE IF p = out THEN "registered" ELSE entry[e][p]
  BY <1>2 DEF Swap, TypeOK
<1>5. LivePairs(e)' = (LivePairs(e) \ {pr}) \cup {new}
  BY <1>0, <1>2, <1>3 DEF LivePairs
<1>6. LiveLoose(e)' = (LiveLoose(e) \ {in}) \cup {out}
  BY <1>0, <1>2, <1>4 DEF LiveLoose
<1>7. ASSUME NEW S, IsFiniteSet(S), NEW x \in S, NEW y, y \notin S
      PROVE  Cardinality((S \ {x}) \cup {y}) = Cardinality(S)
  <2>1. IsFiniteSet(S \ {x}) /\ Cardinality(S \ {x}) = Cardinality(S) - 1
    BY <1>7, FS_RemoveElement
  <2>2. y \notin S \ {x}
    BY <1>7
  <2>3. Cardinality((S \ {x}) \cup {y}) = Cardinality(S \ {x}) + 1
    BY <2>1, <2>2, FS_AddElement
  <2>4. Cardinality(S) \in Nat
    BY <1>7, FS_CardinalityType
  <2> QED BY <2>1, <2>3, <2>4
<1>8. IsFiniteSet(LiveLoose(e)) /\ IsFiniteSet(LivePairs(e))
  BY Counts, FieldFinite
<1> QED BY <1>2, <1>5, <1>6, <1>7, <1>8

-----------------------------------------------------------------------------
(* No step takes a place beyond the limit.                                 *)

WithinLimit(e) ==
    TakenPlaces(e)' > TakenPlaces(e) /\ limit'[e] > 0 => TakenPlaces(e)' <= limit'[e]

\* What a fill of the line writes.
LEMMA FillWrites ==
  ASSUME TypeOK, NEW e \in Events, OrderedIn(e), NEW line \in SUBSET InLine(e), NEW enabled,
         Fill(e, line, enabled), UNCHANGED pair
  PROVE  \/ UNCHANGED <<entry, pair>> /\ missed'[e] = TRUE
         \/ /\ Cardinality(LiveLoose(e)') = Cardinality(LiveLoose(e)) + Cardinality(Promoted(e, line))
            /\ LivePairs(e)' = LivePairs(e) /\ Cardinality(Promoted(e, line)) \in Nat
            /\ waiting'[e] = line \ Reached(e, line)
<1>1. CASE ClosedToFill(e) \/ ~enabled
  BY <1>1 DEF Fill, TypeOK
<1>2. CASE ~(ClosedToFill(e) \/ ~enabled)
  <2>1. /\ SetEntries(e, Promoted(e, line), "registered")
        /\ LeaveLine(e, line, Reached(e, line))
    BY <1>2 DEF Fill
  <2>2. Promoted(e, line) \in SUBSET Players
    BY DEF Promoted, Reached, InLine, TypeOK
  <2>3. \A p \in Promoted(e, line) : entry[e][p] = None
    BY DEF Promoted, Fit
  <2>4. waiting'[e] = line \ Reached(e, line)
    BY <2>1 DEF LeaveLine, TypeOK
  <2> QED BY <2>1, <2>2, <2>3, <2>4, EntersCount, FieldFinite
<1> QED BY <1>1, <1>2

\* In the event that is touched.
LEMMA StepWithinLimit ==
  ASSUME TypeOK, NEW e \in Events, OrderedIn(e), NoPairsIn(e),
         MemberStep(e) \/ DeskStep(e) \/ CallStep(e)
  PROVE  WithinLimit(e)
<1> USE DEF settings, queueVars
<1>1. PICK n, l, m, k : /\ n = Cardinality(LivePairs(e)) /\ l = Cardinality(LiveLoose(e))
                        /\ m = Cardinality(LivePairs(e)') /\ k = Cardinality(LiveLoose(e)')
  OBVIOUS
<1>2. n \in Nat /\ l \in Nat /\ m \in Nat /\ k \in Nat /\ limit[e] \in Nat
  <2>1. limit[e] \in Nat
    BY EventFieldAssumption DEF TypeOK
  <2> QED BY <1>1, <2>1, Counts
<1>3. PICK before \in Nat, after \in Nat : before = Places(e, n, l) /\ after = Places(e, m, k)
  BY <1>2, PlacesAre
<1>4. TakenPlaces(e) = before /\ TakenPlaces(e)' = after
  BY <1>1, <1>3, FullNext DEF TakenPlaces
<1>5. ASSUME after <= before PROVE WithinLimit(e)
  BY <1>3, <1>4, <1>5 DEF WithinLimit
<1>6. ASSUME limit' = limit, NotBeyond(e, before, after) PROVE WithinLimit(e)
  BY <1>2, <1>3, <1>4, <1>6 DEF WithinLimit, NotBeyond
<1>7. ASSUME m <= n, k <= l PROVE WithinLimit(e)
  BY <1>2, <1>3, <1>5, <1>7, PlacesGrow
<1>8. ASSUME UNCHANGED <<entry, pair>> PROVE WithinLimit(e)
  <2>1. m = n /\ k = l
    BY <1>1, <1>8 DEF LiveLoose, LivePairs
  <2> QED BY <1>2, <1>7, <2>1
<1>9. ASSUME Marks(e) PROVE WithinLimit(e)
  <2>1. LiveLoose(e)' \in SUBSET LiveLoose(e) /\ LivePairs(e)' \in SUBSET LivePairs(e)
    BY <1>9 DEF Marks, NoneRevived, LiveLoose, LivePairs
  <2>2. IsFiniteSet(LiveLoose(e)) /\ IsFiniteSet(LivePairs(e))
    BY Counts, FieldFinite
  <2>3. m <= n /\ k <= l
    BY <1>1, <2>1, <2>2, FS_Subset
  <2> QED BY <1>7, <2>3
<1>10. ASSUME NEW S \in SUBSET Players, \A p \in S : entry[e][p] = None,
              SetEntries(e, S, "registered"), UNCHANGED <<pair, limit>>,
              ~FullFor(e, 0, Cardinality(S))
       PROVE  WithinLimit(e)
  <2>1. k = l + Cardinality(S) /\ m = n
    BY <1>1, <1>10, EntersCount
  <2>2. ~OverLimit(e, before, after)
    BY <1>1, <1>2, <1>3, <1>10, <2>1 DEF FullFor
  <2> QED BY <1>2, <1>3, <1>6, <1>10, <2>2 DEF OverLimit, NotBeyond
<1>11. ASSUME NEW line \in SUBSET InLine(e), NEW enabled, Fill(e, line, enabled),
              UNCHANGED <<pair, limit>>
       PROVE  WithinLimit(e)
  <2>1. CASE UNCHANGED <<entry, pair>>
    BY <1>8, <2>1
  <2>2. CASE /\ Cardinality(LiveLoose(e)') = Cardinality(LiveLoose(e)) + Cardinality(Promoted(e, line))
             /\ LivePairs(e)' = LivePairs(e)
    <3>1. m = n /\ k = l + Cardinality(Promoted(e, line))
      BY <1>1, <2>2
    <3>2. NotBeyond(e, before, after)
      BY <1>1, <1>3, <3>1, PromotedHaveRoom
    <3> QED BY <1>6, <1>11, <3>2
  <2> QED BY <1>11, <2>1, <2>2, FillWrites
<1>12. ASSUME NEW a \in Players, NEW b \in Players, PairUp(e, a, b) PROVE WithinLimit(e)
  <2>1. PICK c : c = Cardinality({a, b} \cap LiveLoose(e))
    OBVIOUS
  <2>2. m = n + 1 /\ k = l - c
    BY <1>1, <1>12, <2>1, PairUpCounts
  <2>3. ~OverLimit(e, before, after)
    BY <1>1, <1>3, <1>12, <2>1, <2>2 DEF PairUp
  <2>4. limit' = limit
    BY <1>12 DEF PairUp
  <2> QED BY <1>2, <1>3, <1>6, <2>3, <2>4 DEF OverLimit, NotBeyond
<1>13. ASSUME NEW pr \in Pairs, NEW out \in Players \cup {None}, Unpair(e, pr, out)
       PROVE  WithinLimit(e)
  <2>1. n = m + 1 /\ k <= l + 2
    BY <1>1, <1>13, UnpairCounts
  <2>2. e \in DoublesEvents
    BY <1>13 DEF Unpair, NoPairsIn
  <2>3. 2 * before = 2 * n + l \/ 2 * before = 2 * n + l + 1
    BY <1>2, <1>3, <2>2, PlacesAre
  <2>4. Places(e, m, k) <= Places(e, m, l + 2) /\ Places(e, m, l + 2) \in Nat
    <3>1. l + 2 \in Nat /\ k <= l + 2 /\ m <= m
      BY <1>2, <2>1
    <3>2. Places(e, m, l + 2) \in Nat
      BY <1>2, <3>1, PlacesAre
    <3>3. Places(e, m, k) <= Places(e, m, l + 2)
      BY <1>2, <3>1, PlacesGrow
    <3> QED BY <3>2, <3>3
  <2>5. Places(e, m, l + 2) = before
    <3>1. Places(e, m, l + 2) = m + (l + 2 + 1) \div 2 /\ before = n + (l + 1) \div 2
      BY <1>3, <2>2 DEF Places
    <3>2. (l + 2 + 1) \div 2 = (l + 1) \div 2 + 1
      BY <1>2
    <3>3. (l + 1) \div 2 \in Nat
      BY <1>2, HalfPlaces
    <3> QED BY <1>2, <2>1, <3>1, <3>2, <3>3
  <2> QED BY <1>3, <1>5, <2>4, <2>5
<1>14. ASSUME NEW pr \in Pairs, NEW out \in Players, NEW in \in Players, Swap(e, pr, out, in)
       PROVE  WithinLimit(e)
  <2>1. m = n /\ k = l
    BY <1>1, <1>14, SwapCounts
  <2> QED BY <1>2, <1>7, <2>1
<1>15. ASSUME NEW p \in Players, Enter(e, p) \/ Promote(e, p) PROVE WithinLimit(e)
  <2>1. Cardinality({p}) = 1 /\ {p} \in SUBSET Players
    BY FS_Singleton
  <2>2. entry[e][p] = None /\ SetEntries(e, {p}, "registered") /\ UNCHANGED <<pair, limit>>
        /\ ~FullFor(e, 0, 1)
    BY <1>15 DEF Enter, Promote, Fit
  <2> QED BY <1>10, <2>1, <2>2
<1>16. ASSUME NEW S \in SUBSET Players, AddParticipants(e, S) PROVE WithinLimit(e)
  BY <1>10, <1>16 DEF AddParticipants
<1>17. waiting[e] \in SUBSET InLine(e)
  BY DEF InLine
<1>18. ASSUME NEW p \in Players, Join(e, p) PROVE WithinLimit(e)
  <2>1. waiting[e] \cup {p} \in SUBSET InLine(e)
    BY <1>18 DEF Join, InLine
  <2> QED BY <1>8, <1>11, <1>18, <2>1 DEF Join
<1>19. CASE MemberStep(e)
  BY <1>8, <1>9, <1>15, <1>18, <1>19, MarkingSteps
     DEF MemberStep, JoinBegins, JoinRefused, LeaveWaitlist
<1>20. CASE DeskStep(e)
  <2>1. ASSUME NEW enabled \in BOOLEAN, NEW automatic \in BOOLEAN,
               SetWaitlist(e, enabled, automatic)
        PROVE  WithinLimit(e)
    BY <1>8, <1>11, <1>17, <2>1 DEF SetWaitlist
  <2>2. ASSUME NEW j \in LimitValues, SetLimit(e, j) PROVE WithinLimit(e)
    BY <1>8, <2>2 DEF SetLimit
  <2> QED BY <1>8, <1>9, <1>12, <1>13, <1>14, <1>15, <1>16, <1>20, <2>1, <2>2, MarkingSteps
          DEF DeskStep, ToggleLock, Advance
<1>21. CASE CallStep(e)
  BY <1>8, <1>11, <1>17, <1>21 DEF CallStep, AskSettings, RunFill, LoseCall
<1> QED BY <1>19, <1>20, <1>21

\* In the other events.
LEMMA ElsewhereWithinLimit ==
  ASSUME TypeOK, NEW x \in Events, entry'[x] = entry[x], pair'[x] = pair[x]
  PROVE  WithinLimit(x)
<1>1. TakenPlaces(x)' = TakenPlaces(x) /\ TakenPlaces(x) \in Nat
  BY Counts, PlacesAre DEF TakenPlaces, LiveLoose, LivePairs, Places
<1> QED BY <1>1 DEF WithinLimit

\* No entry, pairing, promotion or change by the desk takes a draw place beyond the
\* limit, however the calls of several events and members interleave.
THEOREM NoPlaceBeyondLimit == Spec => PlacesWithinLimit
<1> DEFINE NoPairs == \A e \in Events : NoPairsIn(e)
<1>1. Init => NoPairs
  BY DEF Init, NoPairsIn, LivePairs, IsLive, None
<1>2. TypeOK /\ NoPairs /\ [Next]_fieldVars => NoPairs'
  <2> SUFFICES ASSUME TypeOK, NoPairs, [Next]_fieldVars, NEW x \in Events PROVE NoPairsIn(x)'
    OBVIOUS
  <2>1. CASE UNCHANGED <<entry, pair>>
    BY <2>1 DEF NoPairsIn, LivePairs
  <2>2. ASSUME NEW e \in Events, FieldMoves(e) PROVE NoPairsIn(x)'
    <3>1. CASE x = e
      BY <2>2, <3>1, MovesKeepPairs
    <3>2. CASE x # e
      BY <2>2, <3>2, MovesElsewhere DEF NoPairsIn, LivePairs
    <3> QED BY <3>1, <3>2
  <2> QED BY <2>1, <2>2, FieldNext
<1>3. TypeOK /\ LineIsOrdered /\ NoPairs /\ [Next]_fieldVars =>
          [\A e \in Events : WithinLimit(e)]_fieldVars
  <2> SUFFICES ASSUME TypeOK, LineIsOrdered, NoPairs, Next, NEW x \in Events PROVE WithinLimit(x)
    OBVIOUS
  <2>1. CASE UNCHANGED <<entry, pair>>
    BY <2>1, ElsewhereWithinLimit
  <2>2. ASSUME NEW e \in Events, MemberStep(e) \/ DeskStep(e) \/ CallStep(e)
        PROVE  WithinLimit(x)
    <3>1. CASE x = e
      BY <2>2, <3>1, StepWithinLimit DEF LineIsOrdered, OrderedIn
    <3>2. CASE x # e
      BY <2>2, <3>2, FieldStep, MovesElsewhere, ElsewhereWithinLimit
    <3> QED BY <3>1, <3>2
  <2> QED BY <2>1, <2>2 DEF Next, ToggleSuspension, ToggleBar
<1> HIDE DEF NoPairs
<1>4. Spec => [][\A e \in Events : WithinLimit(e)]_fieldVars
  BY <1>1, <1>2, <1>3, FieldTypeCorrect, WaitlistIsALine, PTL DEF Spec
<1> QED BY <1>4 DEF PlacesWithinLimit, WithinLimit

-----------------------------------------------------------------------------
(* A place that stands free while somebody waits has a call on its way.    *)

\* The premise without the lock and the status, which come and go under the call.
OfferedIn(e) ==
    on[e] /\ auto[e] /\ waiting[e] # {} /\ ~FullFor(e, 0, 1) /\ ~missed[e]
        => asking[e] + filling[e] > 0

\* A pairing that is not refused leaves a full event full: the pair takes a place of its
\* own, or that of the two who were waiting for a partner, and one who fills half a place
\* would have taken a place beyond the limit.
LEMMA PairUpKeepsFull ==
  ASSUME TypeOK, NEW e \in Events, e \in DoublesEvents,
         NEW n \in Nat, NEW l \in Nat, NEW c \in {0, 1, 2}, c <= l, Full(e, n, l),
         ~OverLimit(e, Places(e, n, l), Places(e, n + 1, l - c))
  PROVE  Full(e, n + 1, l - c)
<1>1. limit[e] \in Nat
  BY EventFieldAssumption DEF TypeOK
<1>2. l - c \in Nat /\ n + 1 \in Nat /\ l + 1 \in Nat /\ l - c + 1 \in Nat
  OBVIOUS
<1>3. PICK a \in Nat, b \in Nat, u \in Nat, v \in Nat :
          /\ a = Places(e, n, l) /\ b = Places(e, n, l + 1)
          /\ u = Places(e, n + 1, l - c) /\ v = Places(e, n + 1, l - c + 1)
  BY <1>2, PlacesAre
<1>4. 2 * a = 2 * n + l \/ 2 * a = 2 * n + l + 1
  BY <1>3, PlacesAre
<1>5. 2 * b = 2 * n + (l + 1) \/ 2 * b = 2 * n + (l + 1) + 1
  BY <1>2, <1>3, PlacesAre
<1>6. 2 * u = 2 * (n + 1) + (l - c) \/ 2 * u = 2 * (n + 1) + (l - c) + 1
  BY <1>2, <1>3, PlacesAre
<1>7. 2 * v = 2 * (n + 1) + (l - c + 1) \/ 2 * v = 2 * (n + 1) + (l - c + 1) + 1
  BY <1>2, <1>3, PlacesAre
<1>8. limit[e] > 0 /\ b > limit[e] /\ b > a
  BY <1>3 DEF Full, OverLimit
<1>9. ~(u > limit[e] /\ u > a)
  BY <1>3, <1>8 DEF OverLimit
<1>10. CASE c = 0
  BY <1>1, <1>4, <1>5, <1>6, <1>7, <1>8, <1>10, <1>3 DEF Full, OverLimit
<1>11. CASE c = 1
  BY <1>1, <1>4, <1>5, <1>6, <1>8, <1>9, <1>11
<1>12. CASE c = 2
  BY <1>1, <1>4, <1>5, <1>6, <1>7, <1>8, <1>12, <1>3 DEF Full, OverLimit
<1> QED BY <1>10, <1>11, <1>12

\* Entries that are not refused find the event with room for one.
LEMMA EntriesHadRoom ==
  ASSUME TypeOK, NEW e \in Events, NEW k \in Nat \ {0}, ~FullFor(e, 0, k)
  PROVE  ~Full(e, Cardinality(LivePairs(e)), Cardinality(LiveLoose(e)))
<1>1. PICK n \in Nat, l \in Nat : n = Cardinality(LivePairs(e)) /\ l = Cardinality(LiveLoose(e))
  BY Counts
<1>2. limit[e] \in Nat
  BY EventFieldAssumption DEF TypeOK
<1>3. l + k \in Nat /\ l + 1 \in Nat /\ l + 1 <= l + k /\ l + 0 = l
  OBVIOUS
<1>4. PICK a \in Nat, b \in Nat, c \in Nat :
          a = Places(e, n, l) /\ b = Places(e, n, l + 1) /\ c = Places(e, n, l + k)
  BY <1>3, PlacesAre
<1>5. b <= c
  BY <1>3, <1>4, PlacesGrow
<1>6. ~(limit[e] > 0 /\ c > limit[e] /\ c > a)
  BY <1>1, <1>3, <1>4 DEF FullFor, OverLimit
<1>7. ~(limit[e] > 0 /\ b > limit[e] /\ b > a)
  BY <1>2, <1>5, <1>6
<1> QED BY <1>1, <1>4, <1>7 DEF Full, OverLimit

\* A status that is not withdrawn or disqualified keeps a live entry live.
LEMMA MaySetKeepsLive ==
  ASSUME NEW e \in Events, NEW from, NEW s \in EntryStatus \ Out, MaySet(e, from, s)
  PROVE  IsLive(from) /\ IsLive(s)
  BY DEF MaySet, IsLive, EntryStatus, Out, None

\* In the event that is touched.
LEMMA StepKeepsOffered ==
  ASSUME TypeOK, NEW e \in Events, OrderedIn(e), OfferedIn(e),
         MemberStep(e) \/ DeskStep(e) \/ CallStep(e)
  PROVE  OfferedIn(e)'
<1> USE DEF settings, queueVars, callVars, changeVars
<1>1. PICK n, l, m, k : /\ n = Cardinality(LivePairs(e)) /\ l = Cardinality(LiveLoose(e))
                        /\ m = Cardinality(LivePairs(e)') /\ k = Cardinality(LiveLoose(e)')
  OBVIOUS
<1>2. n \in Nat /\ l \in Nat /\ m \in Nat /\ k \in Nat
  BY <1>1, Counts
<1>3. asking[e] \in Nat /\ filling[e] \in Nat /\ waiting[e] \in SUBSET Players
  BY DEF TypeOK
<1>4. FullFor(e, 0, 1) <=> Full(e, n, l)
  <2>1. l + 0 = l
    BY <1>2
  <2> QED BY <1>1, <2>1, FullIs
<1>5. limit' = limit => (FullFor(e, 0, 1)' <=> Full(e, m, k))
  <2>1. FullFor(e, 0, 1)' <=> Full(e, m, k)'
    BY <1>1, FullNext
  <2> QED BY <2>1 DEF Full, OverLimit, Places
<1>6. ASSUME CallFill(e) PROVE OfferedIn(e)'
  <2>1. asking'[e] = asking[e] + 1 /\ filling'[e] = filling[e]
    BY <1>6 DEF CallFill, TypeOK
  <2> QED BY <1>3, <2>1 DEF OfferedIn
<1>7. ASSUME UNCHANGED <<limit, on, auto, asking, filling, missed>>,
             waiting'[e] \subseteq waiting[e], Full(e, n, l) => Full(e, m, k)
      PROVE  OfferedIn(e)'
  BY <1>4, <1>5, <1>7 DEF OfferedIn
<1>8. ASSUME UNCHANGED <<entry, pair>> PROVE m = n /\ k = l
  BY <1>1, <1>8 DEF LiveLoose, LivePairs
<1>9. ASSUME NEW k0 \in Nat \ {0}, ~FullFor(e, 0, k0) PROVE ~Full(e, n, l)
  BY <1>1, <1>9, EntriesHadRoom
<1>10. ASSUME NEW line \in SUBSET InLine(e), NEW enabled, Fill(e, line, enabled),
              UNCHANGED <<pair, limit>>
       PROVE  OfferedIn(e)'
  <2>1. CASE missed'[e] = TRUE
    BY <2>1 DEF OfferedIn
  <2>2. CASE missed'[e] # TRUE
    <3>1. /\ k = l + Cardinality(Promoted(e, line)) /\ m = n
          /\ Cardinality(Promoted(e, line)) \in Nat
          /\ waiting'[e] = line \ Reached(e, line)
      BY <1>1, <1>10, <2>2, FillWrites
    <3>2. ASSUME waiting'[e] # {} PROVE FullFor(e, 0, 1)'
      <4>1. FullFor(e, Cardinality(Promoted(e, line)), 1)
        BY <3>1, <3>2, LeftWaiting
      <4>2. Full(e, n, l + Cardinality(Promoted(e, line)))
        BY <1>1, <3>1, <4>1, FullIs
      <4> QED BY <1>5, <1>10, <3>1, <4>2
    <3> QED BY <3>2 DEF OfferedIn
  <2> QED BY <2>1, <2>2
<1>11. waiting[e] \in SUBSET InLine(e)
  BY DEF InLine
<1>12. ASSUME NEW line, NEW S, LeaveLine(e, line, S) PROVE waiting'[e] = line \ S
  BY <1>12 DEF LeaveLine, TypeOK
<1>13. CASE MemberStep(e)
  <2>1. ASSUME NEW p \in Players, Enter(e, p) PROVE OfferedIn(e)'
    BY <2>1 DEF Enter, OfferedIn
  <2>2. ASSUME NEW p \in Players, JoinBegins(e, p) PROVE OfferedIn(e)'
    BY <1>7, <1>8, <2>2 DEF JoinBegins
  <2>3. ASSUME NEW p \in Players, JoinRefused(e, p) \/ LeaveWaitlist(e, p) PROVE OfferedIn(e)'
    <3>1. waiting'[e] \subseteq waiting[e]
      BY <1>12, <2>3 DEF JoinRefused, LeaveWaitlist
    <3>2. UNCHANGED <<limit, on, auto, asking, filling, missed, entry, pair>>
      BY <2>3 DEF JoinRefused, LeaveWaitlist
    <3> QED BY <1>7, <1>8, <3>1, <3>2
  <2>4. ASSUME NEW p \in Players, Join(e, p) PROVE OfferedIn(e)'
    <3>1. CASE auto[e]
      <4>1. waiting[e] \cup {p} \in SUBSET InLine(e)
        BY <2>4 DEF Join, InLine
      <4>2. Fill(e, waiting[e] \cup {p}, TRUE) /\ UNCHANGED <<pair, limit>>
        BY <2>4, <3>1 DEF Join
      <4> QED BY <1>10, <4>1, <4>2
    <3>2. CASE ~auto[e]
      BY <2>4, <3>2 DEF Join, OfferedIn
    <3> QED BY <3>1, <3>2
  <2>5. ASSUME NEW p \in Players, Withdraw(e, p) PROVE OfferedIn(e)'
    BY <1>6, <2>5 DEF Withdraw
  <2> QED BY <1>13, <2>1, <2>2, <2>3, <2>4, <2>5 DEF MemberStep
<1>14. CASE DeskStep(e)
  <2>1. ASSUME NEW S \in SUBSET Players, AddParticipants(e, S) PROVE OfferedIn(e)'
    <3>1. Cardinality(S) \in Nat \ {0}
      <4>1. IsFiniteSet(S) /\ Cardinality(S) \in Nat
        BY FieldFinite
      <4>2. Cardinality(S) # 0
        BY <2>1, <4>1, FS_EmptySet DEF AddParticipants
      <4> QED BY <4>1, <4>2
    <3>2. ~Full(e, n, l)
      BY <1>9, <2>1, <3>1 DEF AddParticipants
    <3> QED BY <1>7, <2>1, <3>2 DEF AddParticipants
  <2>2. ASSUME NEW a \in Players, NEW b \in Players, PairUp(e, a, b) PROVE OfferedIn(e)'
    <3>1. PICK c : c = Cardinality({a, b} \cap LiveLoose(e))
      OBVIOUS
    <3>2. c \in {0, 1, 2} /\ c <= l /\ m = n + 1 /\ k = l - c
      BY <1>1, <2>2, <3>1, PairUpCounts
    <3>3. e \in DoublesEvents /\ ~OverLimit(e, Places(e, n, l), Places(e, n + 1, l - c))
      BY <1>1, <2>2, <3>1 DEF PairUp
    <3>4. Full(e, n, l) => Full(e, m, k)
      BY <1>2, <3>2, <3>3, PairUpKeepsFull
    <3> QED BY <1>7, <2>2, <3>4 DEF PairUp
  <2>3. ASSUME NEW pr \in Pairs, NEW out \in Players \cup {None}, Unpair(e, pr, out)
        PROVE  OfferedIn(e)'
    BY <1>6, <2>3 DEF Unpair
  <2>4. ASSUME NEW pr \in Pairs, NEW out \in Players, NEW in \in Players, Swap(e, pr, out, in)
        PROVE  OfferedIn(e)'
    <3>1. m = n /\ k = l
      BY <1>1, <2>4, SwapCounts
    <3> QED BY <1>7, <2>4, <3>1 DEF Swap
  <2>5. ASSUME NEW p \in Players, RemoveLoose(e, p) PROVE OfferedIn(e)'
    BY <1>6, <2>5 DEF RemoveLoose
  <2>6. ASSUME NEW p \in Players, Promote(e, p) PROVE OfferedIn(e)'
    <3>1. ~Full(e, n, l)
      BY <1>4, <2>6 DEF Promote
    <3>2. waiting'[e] \subseteq waiting[e]
      BY <1>12, <2>6 DEF Promote
    <3> QED BY <1>7, <2>6, <3>1, <3>2 DEF Promote
  <2>7. ASSUME NEW pr \in Pairs, RemovePair(e, pr) PROVE OfferedIn(e)'
    BY <1>6, <2>7 DEF RemovePair
  <2>8. ASSUME NEW p \in Players, NEW s \in DeskStatuses, SetEntryStatus(e, p, s)
        PROVE  OfferedIn(e)'
    <3>1. CASE s \in Out
      BY <1>6, <2>8, <3>1 DEF SetEntryStatus, CallAfterExit
    <3>2. CASE s \notin Out
      <4>1. IsLive(entry[e][p]) /\ IsLive(s)
        BY <2>8, <3>2, EventFieldAssumption, MaySetKeepsLive DEF SetEntryStatus
      <4>2. \A q \in Players : entry'[e][q] = IF q = p THEN s ELSE entry[e][q]
        BY <2>8 DEF SetEntryStatus, SetEntries, TypeOK
      <4>3. LiveLoose(e)' = LiveLoose(e) /\ LivePairs(e)' = LivePairs(e)
        BY <2>8, <4>1, <4>2 DEF SetEntryStatus, LiveLoose, LivePairs
      <4>4. m = n /\ k = l
        BY <1>1, <4>3
      <4> QED BY <1>7, <2>8, <3>2, <4>4 DEF SetEntryStatus, CallAfterExit
    <3> QED BY <3>1, <3>2
  <2>9. ASSUME NEW pr \in Pairs, NEW s \in DeskStatuses, SetPairStatus(e, pr, s)
        PROVE  OfferedIn(e)'
    <3>1. CASE s \in Out
      BY <1>6, <2>9, <3>1 DEF SetPairStatus, CallAfterExit
    <3>2. CASE s \notin Out
      <4>1. IsLive(pair[e][pr]) /\ IsLive(s)
        BY <2>9, <3>2, EventFieldAssumption, MaySetKeepsLive DEF SetPairStatus
      <4>2. \A x \in Pairs : pair'[e][x] = IF x = pr THEN s ELSE pair[e][x]
        BY <2>9 DEF SetPairStatus, TypeOK
      <4>3. LiveLoose(e)' = LiveLoose(e) /\ LivePairs(e)' = LivePairs(e)
        BY <2>9, <4>1, <4>2 DEF SetPairStatus, LiveLoose, LivePairs
      <4>4. m = n /\ k = l
        BY <1>1, <4>3
      <4> QED BY <1>7, <2>9, <3>2, <4>4 DEF SetPairStatus, CallAfterExit
    <3> QED BY <3>1, <3>2
  <2>10. CASE BulkCheckIn(e)
    <3>0. IsLive("registered") /\ IsLive("checked_in")
      BY DEF IsLive, Out, None
    <3>1. /\ \A p \in Players : entry'[e][p] # entry[e][p] =>
                    entry[e][p] = "registered" /\ entry'[e][p] = "checked_in"
          /\ \A pr \in Pairs : pair'[e][pr] # pair[e][pr] =>
                    pair[e][pr] = "registered" /\ pair'[e][pr] = "checked_in"
      <4>1. CASE e \in DoublesEvents
        <5>1. \A pr \in Pairs : pair'[e][pr] =
                  IF pair[e][pr] = "registered" THEN "checked_in" ELSE pair[e][pr]
          BY <2>10, <4>1 DEF BulkCheckIn, TypeOK
        <5>2. UNCHANGED entry
          BY <2>10, <4>1 DEF BulkCheckIn
        <5> QED BY <5>1, <5>2
      <4>2. CASE e \notin DoublesEvents
        <5>1. \A p \in Players : entry'[e][p] =
                  IF entry[e][p] = "registered" THEN "checked_in" ELSE entry[e][p]
          BY <2>10, <4>2 DEF BulkCheckIn, TypeOK
        <5>2. UNCHANGED pair
          BY <2>10, <4>2 DEF BulkCheckIn
        <5> QED BY <5>1, <5>2
      <4> QED BY <4>1, <4>2
    <3>2. LiveLoose(e)' = LiveLoose(e) /\ LivePairs(e)' = LivePairs(e)
      BY <3>0, <3>1 DEF LiveLoose, LivePairs
    <3>3. m = n /\ k = l
      BY <1>1, <3>2
    <3> QED BY <1>7, <2>10, <3>3 DEF BulkCheckIn
  <2>11. ASSUME NEW enabled \in BOOLEAN, NEW automatic \in BOOLEAN,
                SetWaitlist(e, enabled, automatic)
         PROVE  OfferedIn(e)'
    <3>1. CASE enabled /\ automatic
      BY <1>10, <1>11, <2>11, <3>1 DEF SetWaitlist
    <3>2. CASE ~(enabled /\ automatic)
      <4>1. on'[e] = enabled /\ auto'[e] = automatic
        BY <2>11 DEF SetWaitlist, TypeOK
      <4> QED BY <3>2, <4>1 DEF OfferedIn
    <3> QED BY <3>1, <3>2
  <2>12. ASSUME NEW j \in LimitValues, SetLimit(e, j) PROVE OfferedIn(e)'
    BY <1>6, <2>12 DEF SetLimit
  <2>13. CASE ToggleLock(e) \/ Advance(e)
    BY <1>7, <1>8, <2>13 DEF ToggleLock, Advance
  <2> QED BY <1>14, <2>1, <2>2, <2>3, <2>4, <2>5, <2>6, <2>7, <2>8, <2>9, <2>10, <2>11, <2>12, <2>13
          DEF DeskStep
<1>15. CASE CallStep(e)
  <2>1. CASE AskSettings(e)
    <3>1. CASE on[e] /\ auto[e]
      <4>1. asking'[e] + filling'[e] = asking[e] + filling[e]
        <5>1. asking'[e] = asking[e] - 1 /\ filling'[e] = filling[e] + 1
          BY <2>1, <3>1 DEF AskSettings, TypeOK
        <5> QED BY <1>3, <5>1
      <4>2. FullFor(e, 0, 1)' <=> FullFor(e, 0, 1)
        BY <1>4, <1>5, <1>8, <2>1 DEF AskSettings
      <4> QED BY <2>1, <4>1, <4>2 DEF AskSettings, OfferedIn
    <3>2. CASE ~(on[e] /\ auto[e])
      BY <2>1, <3>2 DEF AskSettings, OfferedIn
    <3> QED BY <3>1, <3>2
  <2>2. CASE RunFill(e)
    BY <1>10, <1>11, <2>2 DEF RunFill
  <2>3. CASE LoseCall(e)
    BY <2>3 DEF LoseCall, OfferedIn, TypeOK
  <2> QED BY <1>15, <2>1, <2>2, <2>3 DEF CallStep
<1> QED BY <1>13, <1>14, <1>15

\* In the other events.
LEMMA ElsewhereOffered ==
  ASSUME TypeOK, NEW e \in Events, NEW x \in Events \ {e}, OfferedIn(x),
         MemberStep(e) \/ DeskStep(e) \/ CallStep(e)
  PROVE  OfferedIn(x)'
<1> USE DEF settings, queueVars, callVars, changeVars
<1>1. entry'[x] = entry[x] /\ pair'[x] = pair[x]
  BY FieldStep, MovesElsewhere
<1>2. ASSUME NEW line, NEW S, LeaveLine(e, line, S) PROVE waiting'[x] = waiting[x]
  BY <1>2 DEF LeaveLine, TypeOK
<1>3. ASSUME NEW line, NEW enabled, Fill(e, line, enabled)
      PROVE  waiting'[x] = waiting[x] /\ missed'[x] = missed[x]
  BY <1>2, <1>3 DEF Fill, TypeOK
<1>4. ASSUME CallFill(e)
      PROVE  asking'[x] = asking[x] /\ UNCHANGED <<filling, missed>>
  BY <1>4 DEF CallFill, TypeOK
<1>5. /\ limit'[x] = limit[x] /\ on'[x] = on[x] /\ auto'[x] = auto[x]
      /\ waiting'[x] = waiting[x] /\ missed'[x] = missed[x]
      /\ asking'[x] = asking[x] /\ filling'[x] = filling[x]
  <2>1. CASE MemberStep(e)
    BY <1>2, <1>3, <1>4, <2>1
       DEF MemberStep, Enter, JoinBegins, JoinRefused, Join, LeaveWaitlist, Withdraw, TypeOK
  <2>2. CASE DeskStep(e)
    <3>1. ASSUME NEW s, CallAfterExit(e, s)
          PROVE  asking'[x] = asking[x] /\ UNCHANGED <<filling, missed>>
      BY <1>4, <3>1 DEF CallAfterExit
    <3>2. ASSUME NEW enabled \in BOOLEAN, NEW automatic \in BOOLEAN,
                 SetWaitlist(e, enabled, automatic)
          PROVE  waiting'[x] = waiting[x] /\ missed'[x] = missed[x] /\ on'[x] = on[x]
                 /\ auto'[x] = auto[x] /\ UNCHANGED <<limit, asking, filling>>
      BY <1>3, <3>2 DEF SetWaitlist, TypeOK
    <3>3. ASSUME NEW j \in LimitValues, SetLimit(e, j)
          PROVE  limit'[x] = limit[x] /\ UNCHANGED <<on, auto, waiting>>
      BY <3>3 DEF SetLimit, TypeOK
    <3>4. ASSUME NEW p \in Players, Promote(e, p) PROVE waiting'[x] = waiting[x]
      BY <1>2, <3>4 DEF Promote
    <3> QED BY <1>4, <2>2, <3>1, <3>2, <3>3, <3>4
            DEF DeskStep, AddParticipants, PairUp, Unpair, Swap, RemoveLoose, Promote, RemovePair,
                SetEntryStatus, SetPairStatus, BulkCheckIn, ToggleLock, Advance, SetLimit
  <2>3. CASE CallStep(e)
    BY <1>3, <2>3 DEF CallStep, AskSettings, RunFill, LoseCall, TypeOK
  <2> QED BY <2>1, <2>2, <2>3
<1>6. FullFor(x, 0, 1)' <=> FullFor(x, 0, 1)
  BY <1>1, <1>5 DEF FullFor, OverLimit, Places, LiveLoose, LivePairs
<1> QED BY <1>5, <1>6 DEF OfferedIn

\* Whenever a place stands free for a member who waits, a call that will offer it is on
\* its way, unless one was lost or refused: no operation of the member or the desk frees a
\* place silently, and no fill stops while there is room.
THEOREM FreePlacesAreOffered == Spec => []FreePlaceIsOffered
<1> DEFINE Offered == \A e \in Events : OfferedIn(e)
<1>1. Init => Offered
  BY DEF Init, OfferedIn
<1>2. TypeOK /\ LineIsOrdered /\ Offered /\ [Next]_fieldVars => Offered'
  <2> SUFFICES ASSUME TypeOK, LineIsOrdered, Offered, [Next]_fieldVars, NEW x \in Events
               PROVE  OfferedIn(x)'
    OBVIOUS
  <2>1. ASSUME NEW e \in Events, MemberStep(e) \/ DeskStep(e) \/ CallStep(e)
        PROVE  OfferedIn(x)'
    <3>1. CASE x = e
      BY <2>1, <3>1, StepKeepsOffered DEF LineIsOrdered, OrderedIn
    <3>2. CASE x # e
      BY <2>1, <3>2, ElsewhereOffered
    <3> QED BY <3>1, <3>2
  <2>2. ASSUME UNCHANGED <<limit, entry, pair, on, auto, waiting, asking, filling, missed>>
        PROVE  OfferedIn(x)'
    <3>1. FullFor(x, 0, 1)' <=> FullFor(x, 0, 1)
      BY <2>2 DEF FullFor, OverLimit, Places, LiveLoose, LivePairs
    <3> QED BY <2>2, <3>1 DEF OfferedIn
  <2> QED BY <2>1, <2>2 DEF Next, ToggleSuspension, ToggleBar, fieldVars, queueVars, callVars
<1>3. Offered => FreePlaceIsOffered
  BY DEF OfferedIn, FreePlaceIsOffered, PlaceStandsFree
<1> HIDE DEF Offered
<1> QED BY <1>1, <1>2, <1>3, FieldTypeCorrect, WaitlistIsALine, PTL DEF Spec
=============================================================================
