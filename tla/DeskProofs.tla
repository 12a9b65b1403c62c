-------------------------------- MODULE DeskProofs -------------------------------
(***************************************************************************)
(* All the operations of a bracket: the rows keep their shape whatever the *)
(* desks do and whatever fails, and where one desk is at work every        *)
(* decided match is rated, in order, for the result it shows.              *)
(***************************************************************************)
EXTENDS BracketProofs

(* What is read of a match, and the requests of all operations.            *)
Occupant == Entries \cup {None}
AnyPrior == {<< >>} \cup {<<r>> : r \in RowType}
AnyWrite == [do : {"write"}, m : Matches, was : RowType, to : Decided, win : Occupant, lose : Occupant]
AnyLook == [do : {"look"}, m : Matches, prior : AnyPrior]
AnyRate == [do : {"rate"}, m : Matches, for : Entries \X Entries, prior : AnyPrior]
AnyRestore == [do : {"restore"}, m : Matches, was : RowType]
AnySeat == [do : {"seat"}, m : Matches, was : RowType, side : Sides, e : Occupant]
GuardTask == [do : {"guard", "reverse"}, m : Matches]
FindTask == [do : {"find"}, slot : Slots, e : Entries]
ClearTask == [do : {"clear"}, slot : Slots, e : Entries, to : Status]
VoidTask == [do : {"void", "noshow"}, m : Matches, was : RowType]
ResetTask == [do : {"unvoid", "undo"}, m : Matches, to : {"pending", "ready"}]
EditTask == [do : {"edit"}, m : Matches, was : RowType, win : Occupant, lose : Occupant, to : Decided]
MarkTask == [do : {"mark"}, who : SUBSET Entries]
ListTask == [do : {"list"}, e : Entries]
ForfeitTask == [do : {"forfeit"}, m : Matches, e : Entries]

OnMatch == AnyWrite \cup AnyLook \cup AnyRate \cup AnyRestore \cup AnySeat \cup CallTask
              \cup SettleTask \cup GuardTask \cup VoidTask \cup ResetTask \cup EditTask
              \cup ForfeitTask
OnSlots == RouteTask \cup PlaceTask \cup FindTask \cup ClearTask
AnyTask == OnMatch \cup OnSlots \cup MarkTask \cup ListTask

TypeInv ==
    /\ row \in [Matches -> RowType]
    /\ swing \in [Entries -> Int]
    /\ standing \in [Entries -> {"in", "no_show", "out"}]
    /\ todo \in [Desks -> Seq(AnyTask)]
    /\ begun \in Seq(Ops) /\ faults \in Nat
-----------------------------------------------------------------------------
(* Requests.                                                               *)

\* What a request does tells which fields it has.
LEMMA FieldsOf ==
  ASSUME NEW k \in AnyTask
  PROVE  /\ k.do = "write" => k \in AnyWrite
         /\ k.do = "look" => k \in AnyLook
         /\ k.do = "rate" => k \in AnyRate
         /\ k.do = "restore" => k \in AnyRestore
         /\ k.do = "seat" => k \in AnySeat
         /\ k.do = "call" => k \in CallTask
         /\ k.do \in {"settle", "ready"} => k \in SettleTask
         /\ k.do \in {"guard", "reverse"} => k \in GuardTask
         /\ k.do \in {"void", "noshow"} => k \in VoidTask
         /\ k.do \in {"unvoid", "undo"} => k \in ResetTask
         /\ k.do = "edit" => k \in EditTask
         /\ k.do = "forfeit" => k \in ForfeitTask
         /\ k.do = "route" => k \in RouteTask
         /\ k.do = "place" => k \in PlaceTask
         /\ k.do = "find" => k \in FindTask
         /\ k.do = "clear" => k \in ClearTask
         /\ k.do = "mark" => k \in MarkTask
         /\ k.do = "list" => k \in ListTask
<1>1. CASE k \in OnMatch
  BY <1>1 DEF OnMatch, AnyWrite, AnyLook, AnyRate, AnyRestore, AnySeat, CallTask,
         SettleTask, GuardTask, VoidTask, ResetTask, EditTask, ForfeitTask
<1>2. CASE k \in OnSlots \cup MarkTask \cup ListTask
  BY <1>2 DEF OnSlots, RouteTask, PlaceTask, FindTask, ClearTask, MarkTask, ListTask
<1> QED BY <1>1, <1>2 DEF AnyTask

\* Every match has a row of which both sides are entries or empty.
LEMMA RowOf ==
  ASSUME NEW r \in RowType
  PROVE  /\ r \in RowType /\ r.status \in Status
         /\ r.a \in Occupant /\ r.b \in Occupant /\ r.win \in Occupant /\ r.lose \in Occupant
         /\ \A side \in Sides : r[side] \in Occupant /\ Other(side) \in Sides /\ r[Other(side)] \in Occupant
  BY DEF RowType, Occupant, Sides, Other

\* A slot that is not missing is a match and a side.
LEMMA SlotOf ==
  ASSUME NEW slot \in Slots \cup {NoSlot}, slot # NoSlot
  PROVE  slot \in Slots /\ slot[1] \in Matches /\ slot[2] \in Sides
  BY DEF Slots

\* Two short lists, one after the other.
LEMMA Joined ==
  ASSUME NEW s \in Seq(AnyTask), NEW t \in Seq(AnyTask)
  PROVE  s \o t \in Seq(AnyTask)
  BY ConcatProperties
-----------------------------------------------------------------------------
(* The lists of requests.                                                  *)

\* Moving an entry along.
LEMMA RouteTyped ==
  ASSUME NEW slot \in Slots \cup {NoSlot}, NEW e \in Occupant, NEW onDecided \in {"skip", "refuse"}
  PROVE  /\ RouteTasks(slot, e, onDecided) \in Seq(AnyTask)
         /\ RouteLoser(slot, e, onDecided) \in Seq(AnyTask)
<1>1. CASE slot = NoSlot
  BY <1>1 DEF RouteTasks, RouteLoser
<1>2. CASE slot # NoSlot
  <2>1. [do |-> "route", slot |-> slot, e |-> e, onDecided |-> onDecided] \in RouteTask
    BY <1>2 DEF RouteTask, Occupant
  <2>2. [do |-> "route", slot |-> slot, e |-> e, onDecided |-> onDecided] \in AnyTask
    BY <2>1 DEF AnyTask, OnSlots
  <2> QED BY <1>2, <2>2 DEF RouteTasks, RouteLoser
<1> QED BY <1>1, <1>2

\* Recording a result.
LEMMA ResultTyped ==
  ASSUME NEW m \in Matches, NEW was \in RowType, NEW side \in Sides, NEW to \in Decided
  PROVE  ResultTasks(m, was, side, to) \in Seq(AnyTask)
<1> DEFINE onDecided == IF to = "walkover" THEN "skip" ELSE "refuse"
           w == [do |-> "write", m |-> m, was |-> was, to |-> to,
                 win |-> was[side], lose |-> was[Other(side)]]
           k == [do |-> "look", m |-> m, prior |-> <<was>>]
           winner == RouteTasks(WinnerTo[m], was[side], onDecided)
           loser == RouteLoser(LoserTo[m], was[Other(side)], onDecided)
<1>1. was[side] \in Occupant /\ was[Other(side)] \in Occupant
  BY RowOf
<1>2. w \in AnyWrite /\ k \in AnyLook
  BY <1>1 DEF AnyWrite, AnyLook, AnyPrior
<1>3. winner \in Seq(AnyTask) /\ loser \in Seq(AnyTask)
  BY <1>1, RouteTyped, BracketAssumption DEF BracketAssumption
<1> HIDE DEF w, k, winner, loser
<1>4. <<w, k>> \in Seq(AnyTask)
  BY <1>2 DEF AnyTask, OnMatch
<1>5. ResultTasks(m, was, side, to) = (<<w, k>> \o winner) \o loser
  BY DEF ResultTasks, w, k, winner, loser
<1> QED BY <1>3, <1>4, <1>5, Joined

\* Looking at the matches that follow.
LEMMA GuardTyped ==
  ASSUME NEW m \in Matches
  PROVE  GuardTasks(m) \in Seq(AnyTask)
<1>1. ASSUME NEW slot \in Slots \cup {NoSlot}
      PROVE  OnSlot(slot, [do |-> "guard", m |-> slot[1]]) \in Seq(AnyTask)
  <2>1. CASE slot = NoSlot
    BY <2>1 DEF OnSlot
  <2>2. CASE slot # NoSlot
    <3>1. [do |-> "guard", m |-> slot[1]] \in GuardTask
      BY <2>2, SlotOf DEF GuardTask
    <3> QED BY <2>2, <3>1 DEF OnSlot, AnyTask, OnMatch
  <2> QED BY <2>1, <2>2
<1>2. WinnerTo[m] \in Slots \cup {NoSlot} /\ LoserTo[m] \in Slots \cup {NoSlot}
  BY BracketAssumption DEF BracketAssumption
<1> QED BY <1>1, <1>2, Joined DEF GuardTasks

\* Taking a rating back.
LEMMA ReverseTyped ==
  ASSUME NEW m \in Matches, NEW was
  PROVE  ReverseTasks(m, was) \in Seq(AnyTask)
<1>1. [do |-> "reverse", m |-> m] \in AnyTask
  BY DEF GuardTask, AnyTask, OnMatch
<1> QED BY <1>1 DEF ReverseTasks

\* Clearing the slots a match feeds.
LEMMA ClearTyped ==
  ASSUME NEW m \in Matches, NEW was \in RowType
  PROVE  ClearTasks(m, was) \in Seq(AnyTask)
<1>1. ASSUME NEW slot \in Slots \cup {NoSlot}, NEW e \in Occupant, e # None
      PROVE  OnSlot(slot, [do |-> "find", slot |-> slot, e |-> e]) \in Seq(AnyTask)
  <2>1. CASE slot = NoSlot
    BY <2>1 DEF OnSlot
  <2>2. CASE slot # NoSlot
    <3>1. [do |-> "find", slot |-> slot, e |-> e] \in FindTask
      BY <1>1, <2>2 DEF FindTask, Occupant
    <3> QED BY <2>2, <3>1 DEF OnSlot, AnyTask, OnSlots
  <2> QED BY <2>1, <2>2
<1>2. WinnerTo[m] \in Slots \cup {NoSlot} /\ LoserTo[m] \in Slots \cup {NoSlot}
  BY BracketAssumption DEF BracketAssumption
<1>3. was.win \in Occupant /\ was.lose \in Occupant
  BY RowOf
<1>4. << >> \in Seq(AnyTask)
  OBVIOUS
<1> QED BY <1>1, <1>2, <1>3, <1>4, Joined DEF ClearTasks

\* Writing a slot, and writing it outright for a correction.
LEMMA PlaceTyped ==
  ASSUME NEW slot \in Slots \cup {NoSlot}, NEW e \in Occupant
  PROVE  /\ slot # NoSlot => [do |-> "place", slot |-> slot, e |-> e] \in AnyTask
         /\ PlaceTasks(slot, e) \in Seq(AnyTask)
<1>1. CASE slot = NoSlot \/ e = None
  <2>1. ASSUME slot # NoSlot PROVE [do |-> "place", slot |-> slot, e |-> e] \in PlaceTask
    BY <2>1 DEF PlaceTask, Occupant
  <2> QED BY <1>1, <2>1 DEF PlaceTasks, AnyTask, OnSlots
<1>2. CASE slot # NoSlot /\ e # None
  <2>1. [do |-> "place", slot |-> slot, e |-> e] \in PlaceTask
    BY <1>2 DEF PlaceTask, Occupant
  <2>2. [do |-> "place", slot |-> slot, e |-> e] \in AnyTask
    BY <2>1 DEF AnyTask, OnSlots
  <2> QED BY <1>2, <2>2 DEF PlaceTasks
<1> QED BY <1>1, <1>2

-----------------------------------------------------------------------------
(* Every step keeps the types.                                             *)

TodoTyped == todo' \in [Desks -> Seq(AnyTask)]
RowTyped == row' \in [Matches -> RowType]

\* What is known of a desk that is at work.
LEMMA AtWork ==
  ASSUME TypeInv, NEW d \in Desks, ~Idle(d)
  PROVE  /\ todo[d] # << >> /\ todo[d] \in Seq(AnyTask)
         /\ Head(todo[d]) \in AnyTask /\ Tail(todo[d]) \in Seq(AnyTask)
<1>1. todo[d] # << >> /\ todo[d] \in Seq(AnyTask)
  BY DEF TypeInv, Idle
<1> QED BY <1>1, HeadTailProperties

\* Replacing the first request.
LEMMA ThenTyped ==
  ASSUME TypeInv, NEW d \in Desks, ~Idle(d), NEW tasks \in Seq(AnyTask), Then(d, tasks)
  PROVE  TodoTyped
<1>1. tasks \o Tail(todo[d]) \in Seq(AnyTask)
  BY AtWork, Joined
<1> QED BY <1>1 DEF Then, TodoTyped, TypeInv

\* Going on, and stopping.
LEMMA GoTyped ==
  ASSUME TypeInv, NEW d \in Desks, (~Idle(d) /\ Go(d)) \/ Stop(d)
  PROVE  TodoTyped
<1>1. << >> \in Seq(AnyTask)
  OBVIOUS
<1>2. CASE ~Idle(d) /\ Go(d)
  BY <1>1, <1>2, ThenTyped DEF Go
<1>3. CASE Stop(d)
  BY <1>1, <1>3 DEF Stop, TodoTyped, TypeInv
<1> QED BY <1>2, <1>3

\* A rating is given up.
LEMMA GiveUpTyped ==
  ASSUME TypeInv, NEW d \in Desks, Doing(d, "look") \/ Doing(d, "rate"), GiveUpRating(d)
  PROVE  TodoTyped
<1> DEFINE k == Head(todo[d])
           r == [do |-> "restore", m |-> k.m, was |-> k.prior[1]]
<1>1. k \in AnyTask /\ k.do \in {"look", "rate"}
  BY AtWork DEF Doing, Idle
<1>2. k.m \in Matches /\ k.prior \in AnyPrior
  BY <1>1, FieldsOf DEF AnyLook, AnyRate
<1>3. CASE k.prior = << >>
  <2>1. << >> \in Seq(AnyTask)
    OBVIOUS
  <2> QED BY <1>3, <2>1 DEF GiveUpRating, TodoTyped, TypeInv
<1>4. CASE k.prior # << >>
  <2>1. PICK was \in RowType : k.prior = <<was>>
    BY <1>2, <1>4 DEF AnyPrior
  <2>2. r \in AnyRestore
    BY <1>2, <2>1 DEF AnyRestore
  <2>3. <<r>> \in Seq(AnyTask)
    <3>1. r \in AnyTask
      BY <2>2 DEF AnyTask, OnMatch
    <3> QED BY <3>1
  <2> QED BY <1>4, <2>3 DEF GiveUpRating, TodoTyped, TypeInv
<1> QED BY <1>3, <1>4

\* Writing one row.
LEMMA OneRow ==
  ASSUME TypeInv, NEW m \in Matches, NEW new \in RowType, row' = [row EXCEPT ![m] = new]
  PROVE  RowTyped
  BY DEF TypeInv, RowTyped

\* A row given a status and a result.
LEMMA ResultRow ==
  ASSUME NEW r \in RowType, NEW status \in Status, NEW win \in Occupant, NEW lose \in Occupant
  PROVE  LET new == [r EXCEPT !.status = status, !.win = win, !.lose = lose]
         IN  /\ new \in RowType
             /\ new.status = status /\ new.win = win /\ new.lose = lose
             /\ new.a = r.a /\ new.b = r.b /\ new.rated = r.rated
  BY DEF RowType, Occupant

\* A row given a status only.
LEMMA StatusRow ==
  ASSUME NEW r \in RowType, NEW status \in Status
  PROVE  LET new == [r EXCEPT !.status = status]
         IN  /\ new \in RowType
             /\ new.status = status /\ new.win = r.win /\ new.lose = r.lose
             /\ new.a = r.a /\ new.b = r.b /\ new.rated = r.rated
  BY DEF RowType

\* A row given an entry in a side, or the side emptied.
LEMMA SideRow ==
  ASSUME NEW r \in RowType, NEW side \in Sides, NEW e \in Occupant
  PROVE  LET new == [r EXCEPT ![side] = e]
         IN  /\ new \in RowType /\ new[side] = e /\ new[Other(side)] = r[Other(side)]
             /\ new.status = r.status /\ new.win = r.win /\ new.lose = r.lose
             /\ new.rated = r.rated
<1>1. CASE side = "a"
  BY <1>1 DEF RowType, Occupant, Other
<1>2. CASE side = "b"
  BY <1>2 DEF RowType, Occupant, Other
<1> QED BY <1>1, <1>2 DEF Sides

\* A row given a rating.
LEMMA RatedAs ==
  ASSUME NEW r \in RowType, NEW for \in (Entries \X Entries) \cup {NoPair}
  PROVE  LET new == [r EXCEPT !.rated = for]
         IN  /\ new \in RowType /\ new.rated = for
             /\ new.status = r.status /\ new.win = r.win /\ new.lose = r.lose
             /\ new.a = r.a /\ new.b = r.b
  BY DEF RowType

-----------------------------------------------------------------------------
(* The operations begin.                                                   *)

\* A list that a desk begins with.
LEMMA BeginTyped ==
  ASSUME TypeInv, NEW d \in Desks, NEW op, NEW tasks \in Seq(AnyTask), Begin(d, op, tasks),
         standing' \in [Entries -> {"in", "no_show", "out"}]
  PROVE  TypeInv'
  BY DEF Begin, TypeInv

\* One request.
LEMMA Alone1 ==
  ASSUME NEW k \in AnyTask
  PROVE  <<k>> \in Seq(AnyTask)
  OBVIOUS

\* Every operation begins with a list of requests.
LEMMA BeginTypes ==
  ASSUME TypeInv, NEW d \in Desks, BeginStep(d)
  PROVE  TypeInv'
<1>1. /\ \A m \in Matches : row[m] \in RowType
      /\ standing \in [Entries -> {"in", "no_show", "out"}]
      /\ << >> \in Seq(AnyTask)
  BY DEF TypeInv
<1>2. WinnerTo \in [Matches -> Slots \cup {NoSlot}] /\ LoserTo \in [Matches -> Slots \cup {NoSlot}]
  BY BracketAssumption DEF BracketAssumption
<1>3. ASSUME NEW m \in Matches, NEW side \in Sides, Enter(d, m, side) PROVE TypeInv'
  <2>1. ResultTasks(m, row[m], side, "completed") \in Seq(AnyTask)
    BY <1>1, ResultTyped DEF Decided
  <2> QED BY <1>1, <1>3, <2>1, BeginTyped DEF Enter
<1>4. ASSUME NEW m \in Matches, NEW side \in Sides, Walkover(d, m, side) PROVE TypeInv'
  <2>1. ResultTasks(m, row[m], side, "walkover") \in Seq(AnyTask)
    BY <1>1, ResultTyped DEF Decided
  <2> QED BY <1>1, <1>4, <2>1, BeginTyped DEF Walkover
<1>5. ASSUME NEW m \in Matches, NEW side \in Sides, NEW played \in BOOLEAN, Edit(d, m, side, played)
      PROVE  TypeInv'
  <2> DEFINE r == row[m]
             k == [do |-> "edit", m |-> m, was |-> r, win |-> r[side], lose |-> r[Other(side)],
                   to |-> IF played THEN "completed" ELSE r.status]
             l == [do |-> "look", m |-> m, prior |-> << >>]
  <2>1. /\ r \in RowType /\ r[side] \in Occupant /\ r[Other(side)] \in Occupant
        /\ r.status \in Decided
    BY <1>1, <1>5, RowOf DEF Edit
  <2>2. k \in EditTask /\ l \in AnyLook
    BY <2>1 DEF EditTask, AnyLook, AnyPrior, Decided
  <2>3. k \in AnyTask /\ l \in AnyTask
    BY <2>2 DEF AnyTask, OnMatch
  <2>4. /\ GuardTasks(m) \in Seq(AnyTask) /\ ReverseTasks(m, r) \in Seq(AnyTask)
        /\ PlaceTasks(WinnerTo[m], r[side]) \in Seq(AnyTask)
        /\ PlaceTasks(LoserTo[m], r[Other(side)]) \in Seq(AnyTask)
    BY <1>2, <2>1, GuardTyped, ReverseTyped, PlaceTyped
  <2> DEFINE tasks == GuardTasks(m) \o ReverseTasks(m, r) \o <<k>> \o PlaceTasks(WinnerTo[m], r[side])
                      \o PlaceTasks(LoserTo[m], r[Other(side)]) \o <<l>>
  <2>5. Begin(d, Correction(r, side), tasks) /\ standing' = standing
    BY <1>5 DEF Edit
  <2> HIDE DEF k, l
  <2>6. tasks \in Seq(AnyTask)
    BY <2>3, <2>4, Joined, Alone1
  <2> HIDE DEF tasks
  <2> QED BY <1>1, <2>5, <2>6, BeginTyped
<1>6. ASSUME NEW m \in Matches, NEW side \in Sides, NEW e \in Entries \cup {None}, SetEntry(d, m, side, e)
      PROVE  TypeInv'
  <2> DEFINE k == [do |-> "seat", m |-> m, was |-> row[m], side |-> side, e |-> e]
  <2>1. k \in AnySeat
    BY <1>1 DEF AnySeat, Occupant
  <2>2. k \in AnyTask
    BY <2>1 DEF AnyTask, OnMatch
  <2>3. Begin(d, "seat", <<k>>) /\ standing' = standing
    BY <1>6 DEF SetEntry
  <2> HIDE DEF k
  <2> QED BY <1>1, <2>2, <2>3, BeginTyped, Alone1
<1>7. ASSUME NEW m \in Matches, Void(d, m) PROVE TypeInv'
  <2> DEFINE k == [do |-> "void", m |-> m, was |-> row[m]]
             tasks == GuardTasks(m) \o ReverseTasks(m, row[m]) \o ClearTasks(m, row[m]) \o <<k>>
  <2>1. k \in VoidTask
    BY <1>1 DEF VoidTask
  <2>2. k \in AnyTask
    BY <2>1 DEF AnyTask, OnMatch
  <2>3. Begin(d, "void", tasks) /\ standing' = standing
    BY <1>7 DEF Void
  <2> HIDE DEF k
  <2>4. tasks \in Seq(AnyTask)
    BY <1>1, <2>2, GuardTyped, ReverseTyped, ClearTyped, Joined, Alone1
  <2> HIDE DEF tasks
  <2> QED BY <1>1, <2>3, <2>4, BeginTyped
<1>8. ASSUME NEW m \in Matches, DoubleNoShow(d, m) PROVE TypeInv'
  <2> DEFINE k == [do |-> "noshow", m |-> m, was |-> row[m]]
             l == [do |-> "mark", who |-> {row[m].a, row[m].b}]
             tasks == GuardTasks(m) \o ReverseTasks(m, row[m]) \o <<k>>
                        \o ClearTasks(m, row[m]) \o <<l>>
  <2>1. row[m].a \in Entries /\ row[m].b \in Entries
    <3>1. row[m].a \in Occupant /\ row[m].b \in Occupant
      BY <1>1, RowOf
    <3> QED BY <1>8, <3>1 DEF DoubleNoShow, Known, Occupant
  <2>2. k \in VoidTask /\ l \in MarkTask
    BY <1>1, <2>1 DEF VoidTask, MarkTask
  <2>3. k \in AnyTask /\ l \in AnyTask
    BY <2>2 DEF AnyTask, OnMatch
  <2>4. Begin(d, "noshow", tasks) /\ standing' = standing
    BY <1>8 DEF DoubleNoShow
  <2> HIDE DEF k, l
  <2>5. tasks \in Seq(AnyTask)
    BY <1>1, <2>3, GuardTyped, ReverseTyped, ClearTyped, Joined, Alone1
  <2> HIDE DEF tasks
  <2> QED BY <1>1, <2>4, <2>5, BeginTyped
<1>9. ASSUME NEW m \in Matches, Unvoid(d, m) PROVE TypeInv'
  <2> DEFINE k == [do |-> "unvoid", m |-> m, to |-> Playable(row[m])]
             tasks == ReverseTasks(m, row[m]) \o <<k>>
  <2>1. k \in ResetTask
    BY DEF ResetTask, Playable
  <2>2. k \in AnyTask
    BY <2>1 DEF AnyTask, OnMatch
  <2>3. Begin(d, "unvoid", tasks) /\ standing' = standing
    BY <1>9 DEF Unvoid
  <2> HIDE DEF k
  <2>4. tasks \in Seq(AnyTask)
    BY <2>2, ReverseTyped, Joined, Alone1
  <2> HIDE DEF tasks
  <2> QED BY <1>1, <2>3, <2>4, BeginTyped
<1>10. ASSUME NEW m \in Matches, Undo(d, m) PROVE TypeInv'
  <2> DEFINE k == [do |-> "undo", m |-> m, to |-> Playable(row[m])]
             tasks == GuardTasks(m) \o ReverseTasks(m, row[m]) \o ClearTasks(m, row[m]) \o <<k>>
  <2>1. k \in ResetTask
    BY DEF ResetTask, Playable
  <2>2. k \in AnyTask
    BY <2>1 DEF AnyTask, OnMatch
  <2>3. Begin(d, "undo", tasks) /\ standing' = standing
    BY <1>10 DEF Undo
  <2> HIDE DEF k
  <2>4. tasks \in Seq(AnyTask)
    BY <1>1, <2>2, GuardTyped, ReverseTyped, ClearTyped, Joined, Alone1
  <2> HIDE DEF tasks
  <2> QED BY <1>1, <2>3, <2>4, BeginTyped
<1>11. ASSUME NEW m \in Matches, SetLive(d, m) PROVE TypeInv'
  <2> DEFINE k == [do |-> "call", m |-> m, from |-> row[m].status]
  <2>1. k \in CallTask
    BY <1>11 DEF SetLive, CallTask, Open
  <2>2. k \in AnyTask
    BY <2>1 DEF AnyTask, OnMatch
  <2>3. Begin(d, "live", <<k>>) /\ standing' = standing
    BY <1>11 DEF SetLive
  <2> HIDE DEF k
  <2> QED BY <1>1, <2>2, <2>3, BeginTyped, Alone1
<1>12. ASSUME NEW e \in Entries, ExitDraw(d, e) PROVE TypeInv'
  <2> DEFINE k == [do |-> "list", e |-> e]
  <2>1. k \in ListTask
    BY DEF ListTask
  <2>2. k \in AnyTask
    BY <2>1 DEF AnyTask
  <2>3. Begin(d, "exit", <<k>>) /\ standing' = [standing EXCEPT ![e] = "out"]
    BY <1>12 DEF ExitDraw
  <2> HIDE DEF k
  <2> QED BY <1>1, <2>2, <2>3, BeginTyped, Alone1
<1> QED BY <1>3, <1>4, <1>5, <1>6, <1>7, <1>8, <1>9, <1>10, <1>11, <1>12 DEF BeginStep

-----------------------------------------------------------------------------
(* The requests.                                                           *)

\* A step on the rows and the lists only.
LEMMA PlainTypes ==
  ASSUME TypeInv, RowTyped, TodoTyped, UNCHANGED <<swing, standing, begun, faults>>
  PROVE  TypeInv'
  BY DEF TypeInv, RowTyped, TodoTyped

\* The row may be left alone.
LEMMA RowKept ==
  ASSUME TypeInv, row' = row
  PROVE  RowTyped
  BY DEF TypeInv, RowTyped

\* An update with conditions.
LEMMA SwapTypes ==
  ASSUME TypeInv, NEW d \in Desks, ~Idle(d), NEW m \in Matches, NEW holds \in BOOLEAN, NEW new,
         CompareAndSwap(d, m, holds, new), holds => new \in RowType
  PROVE  RowTyped /\ TodoTyped
  BY GoTyped, RowKept, OneRow DEF CompareAndSwap

\* The requests that write a result or take it off.
LEMMA ResultRequests ==
  ASSUME TypeInv, NEW d \in Desks,
         Write(d) \/ WriteNoShow(d) \/ WriteUnvoid(d) \/ WriteUndo(d) \/ WriteEdit(d)
  PROVE  TypeInv'
<1> DEFINE k == Head(todo[d])
           r == row[k.m]
<1>1. /\ ~Idle(d) /\ k \in AnyTask
      /\ k.do \in {"write", "noshow", "unvoid", "undo", "edit"}
      /\ UNCHANGED <<swing, standing, begun, faults>>
  BY AtWork DEF Write, WriteNoShow, WriteUnvoid, WriteUndo, WriteEdit, Doing, Idle
<1>2. k.m \in Matches
  BY <1>1, FieldsOf DEF AnyWrite, VoidTask, ResetTask, EditTask
<1>3. r \in RowType
  BY <1>2 DEF TypeInv
<1>4. None \in Occupant
  BY DEF Occupant
<1>5. RowTyped /\ TodoTyped
  <2>1. CASE Write(d)
    <3>1. k \in AnyWrite
      BY <1>1, <2>1, FieldsOf DEF Write, Doing
    <3>2. k.to \in Status /\ k.win \in Occupant /\ k.lose \in Occupant
      BY <3>1, Statuses DEF AnyWrite
    <3>3w. PICK holds \in BOOLEAN :
                 CompareAndSwap(d, k.m, holds, [r EXCEPT !.status = k.to, !.win = k.win, !.lose = k.lose])
      BY <2>1 DEF Write
    <3>3. PICK new :
                 /\ CompareAndSwap(d, k.m, holds, new)
                 /\ new = [r EXCEPT !.status = k.to, !.win = k.win, !.lose = k.lose]
                 /\ holds \in BOOLEAN
      BY <3>3w
    <3>4. new \in RowType
      BY <1>3, <3>2, <3>3, ResultRow
    <3> QED BY <1>1, <1>2, <3>3, <3>4, SwapTypes
  <2>2. CASE WriteEdit(d)
    <3>1. k \in EditTask
      BY <1>1, <2>2, FieldsOf DEF WriteEdit, Doing
    <3>2. k.to \in Status /\ k.win \in Occupant /\ k.lose \in Occupant
      BY <3>1, Statuses DEF EditTask
    <3>3w. PICK holds \in BOOLEAN :
                 CompareAndSwap(d, k.m, holds, [r EXCEPT !.status = k.to, !.win = k.win, !.lose = k.lose])
      BY <2>2 DEF WriteEdit
    <3>3. PICK new :
                 /\ CompareAndSwap(d, k.m, holds, new)
                 /\ new = [r EXCEPT !.status = k.to, !.win = k.win, !.lose = k.lose]
                 /\ holds \in BOOLEAN
      BY <3>3w
    <3>4. new \in RowType
      BY <1>3, <3>2, <3>3, ResultRow
    <3> QED BY <1>1, <1>2, <3>3, <3>4, SwapTypes
  <2>3. CASE WriteNoShow(d)
    <3>1w. PICK holds \in BOOLEAN :
                 CompareAndSwap(d, k.m, holds, [r EXCEPT !.status = "voided", !.win = None, !.lose = None])
      BY <2>3 DEF WriteNoShow, MayErase
    <3>1. PICK new :
                 /\ CompareAndSwap(d, k.m, holds, new)
                 /\ new = [r EXCEPT !.status = "voided", !.win = None, !.lose = None]
                 /\ holds \in BOOLEAN
      BY <3>1w
    <3>2. "voided" \in Status
      BY DEF Status
    <3>3. new \in RowType
      BY <1>3, <1>4, <3>1, <3>2, ResultRow
    <3> QED BY <1>1, <1>2, <3>1, <3>3, SwapTypes
  <2>4. CASE WriteUnvoid(d) \/ WriteUndo(d)
    <3>1w. PICK holds \in BOOLEAN :
                 CompareAndSwap(d, k.m, holds, [r EXCEPT !.status = k.to, !.win = None, !.lose = None])
      BY <2>4 DEF WriteUnvoid, WriteUndo
    <3>1. PICK new :
                 /\ CompareAndSwap(d, k.m, holds, new)
                 /\ new = [r EXCEPT !.status = k.to, !.win = None, !.lose = None]
                 /\ holds \in BOOLEAN
      BY <3>1w
    <3>2. k \in ResetTask
      BY <1>1, <2>4, FieldsOf DEF WriteUnvoid, WriteUndo, Doing
    <3>3. k.to \in Status
      BY <3>2, Statuses DEF ResetTask
    <3>4. new \in RowType
      BY <1>3, <1>4, <3>1, <3>3, ResultRow
    <3> QED BY <1>1, <1>2, <3>1, <3>4, SwapTypes
  <2> QED BY <2>1, <2>2, <2>3, <2>4
<1> QED BY <1>1, <1>5, PlainTypes

\* The requests that give a row a status or an entry.
LEMMA RowRequests ==
  ASSUME TypeInv, NEW d \in Desks,
         WriteVoid(d) \/ WriteLive(d) \/ Ready(d) \/ WriteSeat(d) \/ Place(d) \/ Clear(d)
  PROVE  TypeInv'
<1> DEFINE k == Head(todo[d])
<1>1. /\ ~Idle(d) /\ k \in AnyTask
      /\ k.do \in {"void", "call", "ready", "seat", "place", "clear"}
      /\ UNCHANGED <<swing, standing, begun, faults>>
  BY AtWork DEF WriteVoid, WriteLive, Ready, WriteSeat, Place, Clear, Doing, Idle
<1>2. \A m \in Matches : row[m] \in RowType
  BY DEF TypeInv
<1>3. CASE WriteVoid(d)
  <2>1. k.m \in Matches
    BY <1>1, <1>3, FieldsOf DEF WriteVoid, Doing, VoidTask
  <2>2w. PICK holds \in BOOLEAN :
               CompareAndSwap(d, k.m, holds, [row[k.m] EXCEPT !.status = "voided"])
    BY <1>3 DEF WriteVoid, MayErase
  <2>2. PICK new :
               /\ CompareAndSwap(d, k.m, holds, new)
               /\ new = [row[k.m] EXCEPT !.status = "voided"]
               /\ holds \in BOOLEAN
    BY <2>2w
  <2>3. "voided" \in Status
    BY DEF Status
  <2>4. new \in RowType
    BY <1>2, <2>1, <2>2, <2>3, StatusRow
  <2> QED BY <1>1, <2>1, <2>2, <2>4, SwapTypes, PlainTypes
<1>4. CASE WriteLive(d)
  <2>1. k.m \in Matches
    BY <1>1, <1>4, FieldsOf DEF WriteLive, Doing, CallTask
  <2>2w. PICK holds \in BOOLEAN, status \in {"ready", "live"} :
               CompareAndSwap(d, k.m, holds, [row[k.m] EXCEPT !.status = status])
    BY <1>4 DEF WriteLive
  <2>2. PICK new :
               /\ CompareAndSwap(d, k.m, holds, new)
               /\ new = [row[k.m] EXCEPT !.status = status]
               /\ status \in {"ready", "live"}
               /\ holds \in BOOLEAN
    BY <2>2w
  <2>3. new \in RowType
    BY <1>2, <2>1, <2>2, StatusRow, Statuses
  <2> QED BY <1>1, <2>1, <2>2, <2>3, SwapTypes, PlainTypes
<1>5. CASE Ready(d)
  <2>1. k.m \in Matches
    BY <1>1, <1>5, FieldsOf DEF Ready, Doing, SettleTask
  <2>2. row' = row \/ row' = [row EXCEPT ![k.m] = [row[k.m] EXCEPT !.status = "ready"]]
    BY <1>5 DEF Ready, TypeInv
  <2>3. [row[k.m] EXCEPT !.status = "ready"] \in RowType
    BY <1>2, <2>1, StatusRow, Statuses
  <2>4. RowTyped
    BY <2>1, <2>2, <2>3, RowKept, OneRow
  <2> QED BY <1>1, <1>5, <2>4, GoTyped, PlainTypes DEF Ready
<1>6. CASE WriteSeat(d)
  <2>1. k.m \in Matches /\ k.side \in Sides /\ k.e \in Occupant
    BY <1>1, <1>6, FieldsOf DEF WriteSeat, Doing, AnySeat
  <2>2w. PICK holds \in BOOLEAN, status \in {"ready", "pending"} :
               CompareAndSwap(d, k.m, holds, [[row[k.m] EXCEPT ![k.side] = k.e] EXCEPT !.status = status])
    BY <1>6 DEF WriteSeat
  <2>2. PICK seat, new :
               /\ CompareAndSwap(d, k.m, holds, new)
               /\ seat = [row[k.m] EXCEPT ![k.side] = k.e]
               /\ new = [seat EXCEPT !.status = status]
               /\ status \in {"ready", "pending"}
               /\ holds \in BOOLEAN
    BY <2>2w
  <2>3. seat \in RowType
    BY <1>2, <2>1, <2>2, SideRow
  <2>4. new \in RowType
    BY <2>2, <2>3, StatusRow, Statuses
  <2> QED BY <1>1, <2>1, <2>2, <2>4, SwapTypes, PlainTypes
<1>7. CASE Place(d)
  <2>1. k.slot \in Slots /\ k.e \in Occupant
    BY <1>1, <1>7, FieldsOf DEF Place, Doing, PlaceTask, Occupant
  <2>2. k.slot[1] \in Matches /\ k.slot[2] \in Sides /\ k.e \in Occupant
    BY <2>1 DEF Slots
  <2>3. row' = [row EXCEPT ![k.slot[1]] = [row[k.slot[1]] EXCEPT ![k.slot[2]] = k.e]]
    BY <1>7, <2>2 DEF Place, TypeInv
  <2>4. [row[k.slot[1]] EXCEPT ![k.slot[2]] = k.e] \in RowType
    BY <1>2, <2>2, SideRow
  <2>5. RowTyped
    BY <2>2, <2>3, <2>4, OneRow
  <2> QED BY <1>1, <1>7, <2>5, GoTyped, PlainTypes DEF Place
<1>8. CASE Clear(d)
  <2>1. k.slot \in Slots /\ k.to \in Status
    BY <1>1, <1>8, FieldsOf DEF Clear, Doing, ClearTask
  <2>2. k.slot[1] \in Matches /\ k.slot[2] \in Sides /\ None \in Occupant
    BY <2>1 DEF Slots, Occupant
  <2>3. PICK empty, new :
           /\ empty = [row[k.slot[1]] EXCEPT ![k.slot[2]] = None]
           /\ new = [empty EXCEPT !.status = k.to]
    OBVIOUS
  <2>4. row' = row \/ row' = [row EXCEPT ![k.slot[1]] = new]
    BY <1>8, <2>2, <2>3 DEF Clear, TypeInv
  <2>5. empty \in RowType
    BY <1>2, <2>2, <2>3, SideRow
  <2>6. new \in RowType
    BY <2>1, <2>3, <2>5, StatusRow
  <2>7. RowTyped
    BY <2>2, <2>4, <2>6, RowKept, OneRow
  <2> QED BY <1>1, <1>8, <2>7, GoTyped, PlainTypes DEF Clear
<1> QED BY <1>3, <1>4, <1>5, <1>6, <1>7, <1>8


\* A rating is carried out.
LEMMA RatingTypes ==
  ASSUME TypeInv, NEW m \in Matches, NEW for \in Entries \X Entries, ApplyRating(m, for)
  PROVE  RowTyped /\ swing' \in [Entries -> Int]
<1>1. row[m] \in RowType
  BY DEF TypeInv
<1>2. row' = [row EXCEPT ![m] = [row[m] EXCEPT !.rated = for]]
  BY DEF ApplyRating, TypeInv
<1>3. [row[m] EXCEPT !.rated = for] \in RowType
  BY <1>1, RatedAs
<1>4. RowTyped
  BY <1>2, <1>3, OneRow
<1>5. swing' \in [Entries -> Int]
  BY DEF ApplyRating, TypeInv
<1> QED BY <1>4, <1>5

\* What a request for a rating holds.
LEMMA RateHolds ==
  ASSUME TypeInv, NEW d \in Desks, Doing(d, "rate")
  PROVE  Head(todo[d]).m \in Matches /\ Head(todo[d]).for \in Entries \X Entries
BY AtWork, FieldsOf DEF Doing, Idle, AnyRate

\* The requests around a rating.
LEMMA RatingRequests ==
  ASSUME TypeInv, NEW d \in Desks, Look(d) \/ Rate(d) \/ Restore(d) \/ Reverse(d)
  PROVE  TypeInv'
<1> DEFINE k == Head(todo[d])
<1>1. /\ ~Idle(d) /\ k \in AnyTask /\ k.do \in {"look", "rate", "restore", "reverse"}
      /\ UNCHANGED <<standing, begun, faults>>
  BY AtWork DEF Look, Rate, Restore, Reverse, Doing, Idle
<1>2. k.m \in Matches
  BY <1>1, FieldsOf DEF AnyLook, AnyRate, AnyRestore, GuardTask
<1>3. row[k.m] \in RowType
  BY <1>2 DEF TypeInv
<1>4. CASE Look(d)
  <2> DEFINE r == row[k.m]
             q == [do |-> "rate", m |-> k.m, for |-> <<r.win, r.lose>>, prior |-> k.prior]
  <2>1. UNCHANGED <<row, swing>>
    BY <1>4 DEF Look
  <2>2. CASE Go(d)
    BY <1>1, <2>1, <2>2, GoTyped, RowKept, PlainTypes
  <2>3. CASE Then(d, <<q>>) /\ r.win # None /\ r.lose # None
    <3>1. k \in AnyLook
      BY <1>1, <1>4, FieldsOf DEF Look, Doing
    <3>2. r.win \in Entries /\ r.lose \in Entries
      BY <1>3, <2>3, RowOf DEF Occupant
    <3>3. q \in AnyRate
      BY <1>2, <3>1, <3>2 DEF AnyRate, AnyLook
    <3>4. q \in AnyTask
      BY <3>3 DEF AnyTask, OnMatch
    <3> HIDE DEF q
    <3> QED BY <1>1, <2>1, <2>3, <3>4, Alone1, ThenTyped, RowKept, PlainTypes
  <2> QED BY <1>4, <2>2, <2>3 DEF Look
<1>5. CASE Rate(d)
  <2>1. CASE ApplyRating(k.m, k.for) /\ Go(d)
    <3>1. RowTyped /\ swing' \in [Entries -> Int]
      BY <1>5, <2>1, RateHolds, RatingTypes DEF Rate
    <3> QED BY <1>1, <2>1, <3>1, GoTyped DEF TypeInv, RowTyped, TodoTyped
  <2>2. CASE GiveUpRating(d) /\ UNCHANGED <<row, swing>>
    BY <1>1, <1>5, <2>2, GiveUpTyped, RowKept, PlainTypes DEF Rate
  <2> QED BY <1>5, <2>1, <2>2 DEF Rate
<1>6. CASE Restore(d)
  <2>1. k \in AnyRestore
    BY <1>1, <1>6, FieldsOf DEF Restore, Doing
  <2>2. k.was \in RowType
    BY <2>1 DEF AnyRestore
  <2>3. k.was.status \in Status /\ k.was.win \in Occupant /\ k.was.lose \in Occupant
    BY <2>2, RowOf
  <2>4. PICK new : new = [row[k.m] EXCEPT !.status = k.was.status, !.win = k.was.win, !.lose = k.was.lose]
    OBVIOUS
  <2>5. new \in RowType
    BY <1>3, <2>3, <2>4, ResultRow
  <2>6. row' = row \/ row' = [row EXCEPT ![k.m] = new]
    BY <1>2, <1>6, <2>4 DEF Restore, TypeInv
  <2>7. RowTyped
    BY <1>2, <2>5, <2>6, RowKept, OneRow
  <2> QED BY <1>1, <1>6, <2>7, GoTyped, PlainTypes DEF Restore
<1>7. CASE Reverse(d)
  <2>1. row' = [row EXCEPT ![k.m] = [row[k.m] EXCEPT !.rated = NoPair]]
    BY <1>2, <1>7 DEF Reverse, TypeInv
  <2>2. RowTyped
    BY <1>2, <1>3, <2>1, RatedAs, OneRow
  <2>3. swing' \in [Entries -> Int]
    BY <1>7 DEF Reverse, TypeInv
  <2> QED BY <1>1, <1>7, <2>2, <2>3, GoTyped DEF Reverse, TypeInv, RowTyped, TodoTyped
<1> QED BY <1>4, <1>5, <1>6, <1>7

\* An advancement.
LEMMA AdvanceTypes ==
  ASSUME TypeInv, NEW d \in Desks, Doing(d, "route"), Advance(d)
  PROVE  TodoTyped
<1> DEFINE k == Head(todo[d])
           p == [do |-> "place", slot |-> k.slot, e |-> k.e]
           q == [do |-> "settle", m |-> k.slot[1]]
<1>1. ~Idle(d) /\ k \in RouteTask
  BY AtWork, FieldsOf DEF Doing, Idle
<1>2. k.slot \in Slots /\ k.slot[1] \in Matches /\ k.e \in Occupant
  BY <1>1 DEF RouteTask, Slots, Occupant
<1>3. q \in SettleTask
  BY <1>2 DEF SettleTask
<1>4. q \in AnyTask
  BY <1>3 DEF AnyTask, OnMatch
<1>5. p \in AnyTask
  <2>1. k.slot # NoSlot
    BY <1>2, BracketAssumption DEF Slots, NoSlot, BracketAssumption
  <2> QED BY <1>2, <2>1, PlaceTyped
<1>6. Then(d, <<p, q>>)
  BY DEF Advance
<1> HIDE DEF p, q, k
<1>7. <<p, q>> \in Seq(AnyTask)
  BY <1>4, <1>5
<1> QED BY <1>1, <1>6, <1>7, ThenTyped

\* An entry that is out has an opponent who is not, when one side is out.
LEMMA WinnerByForfeit ==
  ASSUME NEW out \in SUBSET Sides, Cardinality(out) = 1
  PROVE  (CHOOSE s \in Sides \ out : TRUE) \in Sides \ out
<1>1. out # Sides
  <2>1. Cardinality({"a", "b"}) = 2
    <3>1. IsFiniteSet({}) /\ Cardinality({}) = 0
      BY FS_EmptySet
    <3>2. IsFiniteSet({"a"}) /\ Cardinality({"a"}) = 1
      BY FS_Singleton
    <3>3. Cardinality({"a"} \cup {"b"}) = 2
      BY <3>2, FS_AddElement
    <3>4. {"a"} \cup {"b"} = {"a", "b"}
      OBVIOUS
    <3> QED BY <3>3, <3>4
  <2> QED BY <2>1 DEF Sides
<1>2. \E s : s \in Sides \ out
  BY <1>1
<1> QED BY <1>2

\* The requests that only change the list, and the marking of absentees.
LEMMA ListRequests ==
  ASSUME TypeInv, NEW d \in Desks,
         Route(d) \/ Settle(d) \/ Guard(d) \/ Find(d) \/ Mark(d) \/ List(d) \/ Forfeit(d)
  PROVE  TypeInv'
<1> DEFINE k == Head(todo[d])
<1>1. /\ ~Idle(d) /\ k \in AnyTask
      /\ k.do \in {"route", "settle", "guard", "find", "mark", "list", "forfeit"}
      /\ UNCHANGED <<row, swing, begun, faults>>
  BY AtWork DEF Route, Settle, Guard, Find, Mark, List, Forfeit, Doing, Idle
<1>2. RowTyped /\ \A m \in Matches : row[m] \in RowType
  BY <1>1, RowKept DEF TypeInv
<1>3. ASSUME standing' = standing, TodoTyped PROVE TypeInv'
  BY <1>1, <1>2, <1>3, PlainTypes
<1>4. ASSUME Go(d) \/ Stop(d) PROVE TodoTyped
  BY <1>1, <1>4, GoTyped
<1>5. CASE Route(d)
  BY <1>3, <1>4, <1>5, AdvanceTypes DEF Route
<1>6. CASE Settle(d)
  <2> DEFINE r == row[k.m]
             out == {s \in Sides : standing[r[s]] = "out"}
             side == CHOOSE s \in Sides \ out : TRUE
             q == [do |-> "ready", m |-> k.m]
  <2>1. k.m \in Matches /\ r \in RowType /\ standing' = standing
    BY <1>1, <1>2, <1>6, FieldsOf DEF Settle, Doing, SettleTask
  <2>2. CASE Go(d)
    BY <1>3, <1>4, <2>1, <2>2
  <2>3. CASE Known(r) /\ Cardinality(out) = 1 /\ Then(d, ResultTasks(k.m, r, side, "walkover"))
    <3>1. side \in Sides
      BY <2>3, WinnerByForfeit
    <3> HIDE DEF side
    <3>2. ResultTasks(k.m, r, side, "walkover") \in Seq(AnyTask)
      BY <2>1, <3>1, ResultTyped DEF Decided
    <3> QED BY <1>1, <1>3, <2>1, <2>3, <3>2, ThenTyped
  <2>4. CASE Then(d, <<q>>)
    <3>1. q \in SettleTask
      BY <2>1 DEF SettleTask
    <3>2. q \in AnyTask
      BY <3>1 DEF AnyTask, OnMatch
    <3> HIDE DEF q
    <3> QED BY <1>1, <1>3, <2>1, <2>4, <3>2, Alone1, ThenTyped
  <2> QED BY <1>6, <2>2, <2>3, <2>4 DEF Settle
<1>7. CASE Guard(d)
  BY <1>3, <1>4, <1>7 DEF Guard
<1>8. CASE Find(d)
  <2> DEFINE r == row[k.slot[1]]
             q == [do |-> "clear", slot |-> k.slot, e |-> k.e,
                   to |-> IF r.status \in {"ready", "live"} THEN "pending" ELSE r.status]
  <2>1. k \in FindTask /\ standing' = standing
    BY <1>1, <1>8, FieldsOf DEF Find, Doing
  <2>2. CASE Go(d)
    BY <1>3, <1>4, <2>1, <2>2
  <2>3. CASE Then(d, <<q>>)
    <3>1. r \in RowType
      BY <1>2, <2>1 DEF FindTask, Slots
    <3>2. q \in ClearTask
      BY <2>1, <3>1, RowOf, Statuses DEF FindTask, ClearTask
    <3>3. q \in AnyTask
      BY <3>2 DEF AnyTask, OnSlots
    <3> HIDE DEF q
    <3> QED BY <1>1, <1>3, <2>1, <2>3, <3>3, Alone1, ThenTyped
  <2> QED BY <1>8, <2>2, <2>3 DEF Find
<1>9. CASE Mark(d)
  <2>1. standing' \in [Entries -> {"in", "no_show", "out"}]
    BY <1>9 DEF Mark, TypeInv
  <2>2. TodoTyped
    BY <1>4, <1>9 DEF Mark
  <2> QED BY <1>1, <1>2, <2>1, <2>2 DEF TypeInv, RowTyped, TodoTyped
<1>10. CASE List(d)
  <2> DEFINE open == {i \in DOMAIN Rounds : row[Rounds[i]].status \in Open /\ In(k.e, row[Rounds[i]])}
             n == Cardinality(open)
  <2>1. k \in ListTask /\ standing' = standing
    BY <1>1, <1>10, FieldsOf DEF List, Doing
  <2>2. PICK nth \in [1..n -> open] :
            Then(d, [i \in DOMAIN nth |-> [do |-> "forfeit", m |-> Rounds[nth[i]], e |-> k.e]])
    BY <1>10 DEF List
  <2>3. Rounds \in Seq(Matches)
    BY BracketAssumption DEF BracketAssumption
  <2>4. n \in Nat
    <3>1. IsFiniteSet(DOMAIN Rounds)
      <4>1. Len(Rounds) \in Nat /\ DOMAIN Rounds = 1..Len(Rounds)
        BY <2>3, LenProperties
      <4> QED BY <4>1, FS_Interval
    <3>2. open \subseteq DOMAIN Rounds
      OBVIOUS
    <3> HIDE DEF open
    <3>3. IsFiniteSet(open)
      BY <3>1, <3>2, FS_Subset
    <3> QED BY <3>3, FS_CardinalityType
  <2> DEFINE tasks == [i \in 1..n |-> [do |-> "forfeit", m |-> Rounds[nth[i]], e |-> k.e]]
  <2>5. \A i \in 1..n : [do |-> "forfeit", m |-> Rounds[nth[i]], e |-> k.e] \in AnyTask
    <3> TAKE i \in 1..n
    <3>1. nth[i] \in DOMAIN Rounds
      BY <2>2
    <3>2. Rounds[nth[i]] \in Matches
      BY <2>3, <3>1, LenProperties
    <3>3. [do |-> "forfeit", m |-> Rounds[nth[i]], e |-> k.e] \in ForfeitTask
      BY <2>1, <3>2 DEF ForfeitTask, ListTask
    <3> QED BY <3>3 DEF AnyTask, OnMatch
  <2>6. DOMAIN nth = 1..n
    BY <2>2
  <2>7. Then(d, tasks)
    BY <2>2, <2>6
  <2> HIDE DEF n
  <2>8. tasks \in [1..n -> AnyTask]
    BY <2>5
  <2> HIDE DEF tasks
  <2>9. tasks \in Seq(AnyTask)
    BY <2>4, <2>8, SeqDef
  <2> QED BY <1>1, <1>3, <2>1, <2>7, <2>9, ThenTyped
<1>11. CASE Forfeit(d)
  <2> DEFINE r == row[k.m]
             winner == IF r.a = k.e THEN "b" ELSE "a"
  <2>1. k.m \in Matches /\ r \in RowType /\ standing' = standing
    BY <1>1, <1>2, <1>11, FieldsOf DEF Forfeit, Doing, ForfeitTask
  <2>2. CASE Go(d)
    BY <1>3, <1>4, <2>1, <2>2
  <2>3. CASE r[winner] # None /\ Then(d, ResultTasks(k.m, r, winner, "walkover"))
    <3>1. winner \in Sides
      BY DEF Sides
    <3>2. ResultTasks(k.m, r, winner, "walkover") \in Seq(AnyTask)
      BY <2>1, <2>3, <3>1, ResultTyped DEF Decided
    <3> QED BY <1>1, <1>3, <2>1, <2>3, <3>2, ThenTyped
  <2> QED BY <1>11, <2>2, <2>3 DEF Forfeit
<1> QED BY <1>5, <1>6, <1>7, <1>8, <1>9, <1>10, <1>11
-----------------------------------------------------------------------------
\* A request fails.
LEMMA FaultTypes ==
  ASSUME TypeInv, NEW d \in Desks, Fault(d)
  PROVE  TypeInv'
<1>1. ~Idle(d) /\ UNCHANGED <<standing, begun>> /\ faults' \in Nat
  BY DEF Fault, TypeInv
<1>2. ASSUME TodoTyped, UNCHANGED <<row, swing>> PROVE TypeInv'
  BY <1>1, <1>2 DEF TypeInv, TodoTyped
<1>3. CASE /\ Doing(d, "rate") /\ ApplyRating(Head(todo[d]).m, Head(todo[d]).for)
           /\ GiveUpRating(d)
  <2>1. RowTyped /\ swing' \in [Entries -> Int]
    BY <1>3, RateHolds, RatingTypes
  <2> QED BY <1>1, <1>3, <2>1, GiveUpTyped DEF TypeInv, RowTyped, TodoTyped
<1> QED BY <1>1, <1>2, <1>3, GoTyped, GiveUpTyped, AdvanceTypes DEF Fault

\* The draw.
LEMMA DrawTypes == Init => TypeInv
<1> SUFFICES ASSUME Init PROVE TypeInv
  OBVIOUS
<1>1. \A m \in Matches : Seated(m) \in RowType
  <2> TAKE m \in Matches
  <2>1. Seats[m]["a"] \in Entries \cup {None} /\ Seats[m]["b"] \in Entries \cup {None}
    BY BracketAssumption DEF BracketAssumption, Sides
  <2> QED BY <2>1 DEF Seated, RowType, Status, Open
<1> QED BY <1>1 DEF Init, TypeInv

LEMMA TypesKept ==
  ASSUME TypeInv, [Next]_resultVars
  PROVE  TypeInv'
<1>1. CASE Next
  BY <1>1, BeginTypes, ResultRequests, RowRequests, RatingRequests, ListRequests, FaultTypes
     DEF Next, Request
<1>2. CASE UNCHANGED resultVars
  BY <1>2 DEF resultVars, TypeInv
<1> QED BY <1>1, <1>2

\* Whatever desks do at once in any bracket, and whatever requests fail, every match
\* keeps a row of the right shape, of which a rating that counts names two entries.
THEOREM RowsKeepTheirShape == Spec => []TypeOK
<1>1. Init => TypeInv
  BY DrawTypes
<1>2. TypeInv /\ [Next]_resultVars => TypeInv'
  BY TypesKept
<1>3. Spec => []TypeInv
  BY <1>1, <1>2, PTL DEF Spec
<1>4. TypeInv => TypeOK
  BY DEF TypeInv, TypeOK
<1> QED BY <1>3, <1>4, PTL

-----------------------------------------------------------------------------
(* One desk at work.  What may stand ahead of what in its list: a request  *)
(* AtOnce was decided on from what was just read, and comes first; one     *)
(* that is Late may wait behind anything; before a row is erased or        *)
(* corrected, the matches that follow are looked at, its rating is taken   *)
(* back and the slots it feeds are cleared.                                *)
AtOnce == {"write", "rate", "ready", "clear", "seat", "call", "list", "restore"}
Late == {"route", "forfeit", "mark"}
Erasing == {"void", "undo", "edit"}
Erasures == Erasing \cup {"noshow", "unvoid"}
Preparing == {"guard", "reverse", "find", "clear"}

Before(k, l) ==
    /\ l.do \notin AtOnce
    /\ l.do = "look" => k.do \in {"write", "guard", "reverse", "edit", "place"}
    /\ l.do = "settle" => k.do = "place"
    /\ l.do \in {"guard", "reverse"} => k.do = "guard"
    /\ l.do = "place" => k.do \in {"guard", "reverse", "edit", "place"}
    /\ l.do = "find" => k.do \in Preparing \cup {"noshow"}
    /\ l.do \in Erasures => k.do \in Preparing
    /\ l.do = "place" /\ k.do = "edit" => l.slot[1] # k.m
    /\ l.do \in Erasures /\ k.do \in {"find", "clear"} => k.slot[1] # l.m

Ordered(s) == \A i, j \in 1..Len(s) : i < j => Before(s[i], s[j])

(* A result that is written, or written anew, will be looked at for its    *)
(* rating, and a rating is taken back for an erasure or a correction.      *)
Planned(s) ==
    /\ Ordered(s)
    /\ \A k \in Range(s) :
           /\ k.do # "restore"
           /\ k.do \in {"write", "seat", "noshow"} => k.was.status \in Open
           /\ k.do = "reverse" => \E l \in Range(s) : l.do \in Erasing /\ l.m = k.m
           /\ k.do \in {"write", "edit"} => \E l \in Range(s) : l.do = "look" /\ l.m = k.m

(* What was read still holds when it is used.                              *)
SameAs(r, was) == r.status = was.status /\ r.a = was.a /\ r.b = was.b
Emptied(r) == IF r.status \in {"ready", "live"} THEN "pending" ELSE r.status

Fits(s) ==
    \A k \in Range(s) :
        /\ k.do \in {"write", "void", "edit", "noshow"} => SameAs(row[k.m], k.was)
        /\ k.do \in {"undo", "unvoid"} => k.to = Playable(row[k.m])
        /\ k.do \in Erasures =>
               \/ row[k.m].rated = NoPair
               \/ \E l \in Range(s) : l.do = "reverse" /\ l.m = k.m
        /\ k.do = "settle" => row[k.m].status \in Open
        /\ k.do = "clear" => k.to = Emptied(row[k.slot[1]])
        /\ k.do = "rate" => /\ row[k.m].rated = NoPair /\ IsDecided(k.m)
                            /\ k.for = <<row[k.m].win, row[k.m].lose>>
        /\ k.do = "ready" \/ (k.do = "call" /\ k.from # "live") => Known(row[k.m])

(* A decided match that is not rated is being rated, erased or corrected.  *)
InHand(m, s) ==
    /\ s # << >>
    /\ \/ Head(s).do = "rate" /\ Head(s).m = m
       \/ /\ Head(s).do \in {"look", "place"}
          /\ \E k \in Range(s) : k.do = "look" /\ k.m = m
       \/ /\ Head(s).do \in {"find", "clear"} \cup Erasing
          /\ \E k \in Range(s) : k.do \in Erasing /\ k.m = m

Unrated(m) == IsDecided(m) /\ Contested(m) /\ row[m].rated = NoPair

Tidy ==
    /\ RatedIsResult
    /\ \A m \in Matches : row[m].status \in Open => row[m].win = None /\ row[m].lose = None

Handled(s) ==
    /\ s \in Seq(AnyTask) /\ Planned(s) /\ Fits(s)
    /\ \A m \in Matches : Unrated(m) => InHand(m, s)

OneInv == TypeInv /\ faults = 0 /\ Tidy /\ \A d \in Desks : Handled(todo[d])
-----------------------------------------------------------------------------
(* Lists.                                                                  *)

\* The first request and the rest.
LEMMA RangeParts ==
  ASSUME NEW s \in Seq(AnyTask), s # << >>
  PROVE  /\ Head(s) \in AnyTask /\ Tail(s) \in Seq(AnyTask)
         /\ Range(s) = {Head(s)} \cup Range(Tail(s))
         /\ Range(s) \subseteq AnyTask
<1>1. Head(s) \in AnyTask /\ Tail(s) \in Seq(AnyTask) /\ Range(s) \subseteq AnyTask
  BY HeadTailProperties, RangeOfSeq
<1>2. /\ Len(s) \in Nat \ {0} /\ Len(Tail(s)) = Len(s) - 1 /\ Head(s) = s[1]
      /\ \A i \in 1..Len(Tail(s)) : Tail(s)[i] = s[i + 1]
  BY HeadTailProperties, EmptySeq
<1>3. Range(s) = {s[i] : i \in 1..Len(s)} /\ Range(Tail(s)) = {Tail(s)[i] : i \in 1..Len(Tail(s))}
  BY <1>1, RangeEquality
<1>4. ASSUME NEW k \in Range(s) PROVE k = Head(s) \/ k \in Range(Tail(s))
  <2>1. PICK i \in 1..Len(s) : k = s[i]
    BY <1>3
  <2>2. CASE i = 1
    BY <1>2, <2>1, <2>2
  <2>3. CASE i # 1
    <3>1. i - 1 \in 1..Len(Tail(s)) /\ Tail(s)[i - 1] = s[i]
      BY <1>2, <2>3
    <3> QED BY <1>3, <2>1, <3>1
  <2> QED BY <2>2, <2>3
<1>5. ASSUME NEW k \in Range(Tail(s)) PROVE k \in Range(s)
  <2>1. PICK i \in 1..Len(Tail(s)) : k = Tail(s)[i]
    BY <1>3
  <2>2. i + 1 \in 1..Len(s) /\ k = s[i + 1]
    BY <1>2, <2>1
  <2> QED BY <1>3, <2>2
<1>6. Head(s) \in Range(s)
  BY <1>2, <1>3
<1> QED BY <1>1, <1>4, <1>5, <1>6

\* What follows keeps its order, and everything in it may stand behind the first.
LEMMA OrderedTail ==
  ASSUME NEW s \in Seq(AnyTask), s # << >>, Ordered(s)
  PROVE  Ordered(Tail(s)) /\ \A l \in Range(Tail(s)) : Before(Head(s), l)
<1>1. /\ Len(s) \in Nat \ {0} /\ Len(Tail(s)) = Len(s) - 1 /\ Head(s) = s[1]
      /\ \A i \in 1..Len(Tail(s)) : Tail(s)[i] = s[i + 1]
      /\ Tail(s) \in Seq(AnyTask)
  BY HeadTailProperties, EmptySeq
<1>2. ASSUME NEW i \in 1..Len(Tail(s)), NEW j \in 1..Len(Tail(s)), i < j
      PROVE  Before(Tail(s)[i], Tail(s)[j])
  <2>1. i + 1 \in 1..Len(s) /\ j + 1 \in 1..Len(s) /\ i + 1 < j + 1
    BY <1>1, <1>2
  <2>2. Before(s[i + 1], s[j + 1])
    BY <2>1 DEF Ordered
  <2> QED BY <1>1, <2>2
<1>3. ASSUME NEW l \in Range(Tail(s)) PROVE Before(Head(s), l)
  <2>0. Range(Tail(s)) = {Tail(s)[i] : i \in 1..Len(Tail(s))}
    BY <1>1, RangeEquality
  <2>1. PICK i \in 1..Len(Tail(s)) : l = Tail(s)[i]
    BY <2>0
  <2>2. 1 \in 1..Len(s) /\ i + 1 \in 1..Len(s) /\ 1 < i + 1
    BY <1>1
  <2>3. Before(s[1], s[i + 1])
    BY <2>2 DEF Ordered
  <2> QED BY <1>1, <2>1, <2>3
<1> QED BY <1>2, <1>3 DEF Ordered

\* Two lists in order, one behind the other.
LEMMA OrderedJoin ==
  ASSUME NEW s \in Seq(AnyTask), NEW t \in Seq(AnyTask), Ordered(s), Ordered(t),
         \A k \in Range(s), l \in Range(t) : Before(k, l)
  PROVE  Ordered(s \o t)
<1>1. /\ Len(s) \in Nat /\ Len(t) \in Nat /\ Len(s \o t) = Len(s) + Len(t)
      /\ \A i \in 1..Len(s) + Len(t) : (s \o t)[i] = IF i <= Len(s) THEN s[i] ELSE t[i - Len(s)]
  BY ConcatProperties, LenProperties
<1>2. Range(s) = {s[i] : i \in 1..Len(s)} /\ Range(t) = {t[i] : i \in 1..Len(t)}
  BY RangeEquality
<1> SUFFICES ASSUME NEW i \in 1..Len(s \o t), NEW j \in 1..Len(s \o t), i < j
             PROVE  Before((s \o t)[i], (s \o t)[j])
  BY DEF Ordered
<1>3. CASE j <= Len(s)
  <2>1. i \in 1..Len(s) /\ j \in 1..Len(s) /\ (s \o t)[i] = s[i] /\ (s \o t)[j] = s[j]
    BY <1>1, <1>3
  <2> QED BY <2>1 DEF Ordered
<1>4. CASE i <= Len(s) /\ j > Len(s)
  <2>1. i \in 1..Len(s) /\ j - Len(s) \in 1..Len(t) /\ (s \o t)[i] = s[i] /\ (s \o t)[j] = t[j - Len(s)]
    BY <1>1, <1>4
  <2> QED BY <1>2, <2>1
<1>5. CASE i > Len(s)
  <2>1. /\ i - Len(s) \in 1..Len(t) /\ j - Len(s) \in 1..Len(t) /\ i - Len(s) < j - Len(s)
        /\ (s \o t)[i] = t[i - Len(s)] /\ (s \o t)[j] = t[j - Len(s)]
    BY <1>1, <1>5
  <2> QED BY <2>1 DEF Ordered
<1> QED BY <1>1, <1>3, <1>4, <1>5

\* No request, and one request.
LEMMA Short ==
  ASSUME NEW k \in AnyTask
  PROVE  /\ << >> \in Seq(AnyTask) /\ Range(<< >>) = {} /\ Ordered(<< >>)
         /\ <<k>> \in Seq(AnyTask) /\ Range(<<k>>) = {k} /\ Ordered(<<k>>)
<1>1. << >> \in Seq(AnyTask) /\ <<k>> \in Seq(AnyTask)
  OBVIOUS
<1>2. Range(<< >>) = {<< >>[i] : i \in 1..Len(<< >>)} /\ Range(<<k>>) = {<<k>>[i] : i \in 1..Len(<<k>>)}
  BY <1>1, RangeEquality
<1> QED BY <1>1, <1>2 DEF Ordered


\* The rest of a list that is planned.
LEMMA PlannedTail ==
  ASSUME NEW s \in Seq(AnyTask), s # << >>, Planned(s)
  PROVE  /\ Planned(Tail(s)) /\ Tail(s) \in Seq(AnyTask)
         /\ Head(s) \in Range(s) /\ Range(Tail(s)) \subseteq Range(s)
         /\ \A l \in Range(s) : l = Head(s) \/ l \in Range(Tail(s))
         /\ \A l \in Range(Tail(s)) : Before(Head(s), l)
<1>1. /\ Tail(s) \in Seq(AnyTask) /\ Range(s) = {Head(s)} \cup Range(Tail(s))
      /\ Ordered(Tail(s)) /\ \A l \in Range(Tail(s)) : Before(Head(s), l)
  BY RangeParts, OrderedTail DEF Planned
<1>2. ASSUME NEW k \in Range(Tail(s))
      PROVE  /\ k.do # "restore" /\ k.do # "write"
             /\ k.do \in {"write", "seat", "noshow"} => k.was.status \in Open
             /\ k.do = "reverse" => \E l \in Range(Tail(s)) : l.do \in Erasing /\ l.m = k.m
             /\ k.do = "edit" => \E l \in Range(Tail(s)) : l.do = "look" /\ l.m = k.m
  <2>1. k \in Range(s) /\ Before(Head(s), k)
    BY <1>1
  <2>2. /\ k.do # "restore"
        /\ k.do \in {"write", "seat", "noshow"} => k.was.status \in Open
        /\ k.do = "reverse" => \E l \in Range(s) : l.do \in Erasing /\ l.m = k.m
        /\ k.do = "edit" => \E l \in Range(s) : l.do = "look" /\ l.m = k.m
    BY <2>1 DEF Planned
  <2>3. k.do # "write"
    BY <2>1 DEF Before, AtOnce
  <2>4. k.do = "reverse" => Head(s).do \notin Erasing
    BY <2>1 DEF Before, Erasing
  <2>5. k.do = "edit" => Head(s).do # "look"
    BY <2>1 DEF Before, Erasures, Erasing, Preparing
  <2> QED BY <1>1, <2>2, <2>3, <2>4, <2>5
<1> QED BY <1>1, <1>2 DEF Planned

\* Behind a request that is none of a preparation, a correction or an entry written,
\* everything is late.
LEMMA LateTail ==
  ASSUME NEW s \in Seq(AnyTask), s # << >>, Planned(s),
         Head(s).do \in {"rate", "settle", "ready", "route", "look", "list", "forfeit", "mark",
                         "seat", "call"}
  PROVE  \A l \in Range(Tail(s)) : l.do \in Late
<1> SUFFICES ASSUME NEW l \in Range(Tail(s)) PROVE l.do \in Late
  OBVIOUS
<1>1. Before(Head(s), l) /\ l \in AnyTask
  BY PlannedTail, RangeParts
<1>2. l.do \notin AtOnce \cup {"look", "settle", "guard", "reverse", "place", "find"} \cup Erasures
  BY <1>1 DEF Before, Preparing
<1>3. l.do \in {"write", "look", "rate", "restore", "seat", "call", "settle", "ready", "guard",
               "reverse", "void", "noshow", "unvoid", "undo", "edit", "forfeit", "route", "place",
               "find", "clear", "mark", "list"}
  <2>1. CASE l \in OnMatch
    BY <2>1 DEF OnMatch, AnyWrite, AnyLook, AnyRate, AnyRestore, AnySeat, CallTask,
           SettleTask, GuardTask, VoidTask, ResetTask, EditTask, ForfeitTask
  <2>2. CASE l \in OnSlots \cup MarkTask \cup ListTask
    BY <2>2 DEF OnSlots, RouteTask, PlaceTask, FindTask, ClearTask, MarkTask, ListTask
  <2> QED BY <1>1, <2>1, <2>2 DEF AnyTask
<1> QED BY <1>2, <1>3 DEF AtOnce, Erasures, Erasing, Late

\* Requests put in front of late ones.
LEMMA PlannedJoin ==
  ASSUME NEW s \in Seq(AnyTask), NEW t \in Seq(AnyTask), Planned(s), Ordered(t),
         \A l \in Range(t) : l.do \in Late
  PROVE  /\ Planned(s \o t) /\ s \o t \in Seq(AnyTask) /\ Range(s \o t) = Range(s) \cup Range(t)
         /\ Fits(s) => Fits(s \o t)
<1>1. s \o t \in Seq(AnyTask) /\ Range(s \o t) = Range(s) \cup Range(t)
  BY ConcatProperties, RangeConcatenation
<1>2. \A k, l : l.do \in Late => Before(k, l)
  BY DEF Before, Late, AtOnce, Erasures, Erasing
<1>3. Ordered(s \o t)
  BY <1>2, OrderedJoin DEF Planned
<1>4. Planned(s \o t)
  BY <1>1, <1>3 DEF Planned, Late
<1>5. Fits(s) => Fits(s \o t)
  BY <1>1 DEF Fits, Late, Erasures, Erasing
<1> QED BY <1>1, <1>4, <1>5

\* A match in hand stays so while an entry is placed and slots are cleared.
LEMMA StillInHand ==
  ASSUME NEW s \in Seq(AnyTask), Planned(s), NEW m, InHand(m, s),
         Head(s).do \in {"place", "find", "clear"}
  PROVE  InHand(m, Tail(s))
<1>1. s # << >>
  BY DEF InHand
<1>2. PICK k \in Range(Tail(s)) :
          /\ k.m = m
          /\ Head(s).do = "place" => k.do = "look"
          /\ Head(s).do # "place" => k.do \in Erasing
  BY <1>1, PlannedTail DEF InHand, Erasing
<1>3. Tail(s) # << >> /\ Tail(s) \in Seq(AnyTask) /\ Planned(Tail(s))
  <2>1. Range(<< >>) = {}
    BY <1>1, RangeParts, Short
  <2> QED BY <1>1, <1>2, <2>1, PlannedTail
<1> DEFINE h == Head(Tail(s))
<1>4. (h = k \/ Before(h, k)) /\ Before(Head(s), h)
  BY <1>1, <1>3, PlannedTail
<1>5. CASE Head(s).do = "place"
  <2>1. h.do \in {"look", "place"}
    BY <1>2, <1>4, <1>5 DEF Before, AtOnce, Erasures, Erasing, Preparing
  <2> QED BY <1>2, <1>3, <1>5, <2>1 DEF InHand
<1>6. CASE Head(s).do # "place"
  <2>1. h.do \in {"find", "clear"} \cup Erasing
    BY <1>2, <1>4, <1>6 DEF Before, AtOnce, Erasures, Preparing
  <2> QED BY <1>2, <1>3, <1>6, <2>1 DEF InHand
<1> QED BY <1>5, <1>6

\* A desk that rates, erases or corrects a match has no other in hand.
LEMMA OwnInHand ==
  ASSUME NEW s \in Seq(AnyTask), Planned(s), NEW m, InHand(m, s),
         Head(s).do \in {"look", "rate"} \cup Erasing
  PROVE  Head(s).m = m
<1>1. s # << >>
  BY DEF InHand
<1>2. \A l \in Range(s) : l = Head(s) \/ Before(Head(s), l)
  BY <1>1, PlannedTail
<1> QED BY <1>2 DEF InHand, Before, Erasures, Erasing, Preparing

-----------------------------------------------------------------------------
(* How a step of the desk is shown to keep the invariant.                  *)

\* The desk goes on to a list that is well handled.
LEMMA DeskStep ==
  ASSUME OneInv, NEW d \in Desks, Desks = {d}, TypeInv', faults' = faults, Tidy',
         NEW new, todo' = [todo EXCEPT ![d] = new], Handled(new)'
  PROVE  OneInv'
<1>1. todo'[d] = new
  BY DEF OneInv, TypeInv
<1> QED BY <1>1 DEF OneInv

\* The list is what is left of it.
LEMMA GoLeaves ==
  ASSUME TypeInv, NEW d \in Desks, ~Idle(d), Go(d)
  PROVE  todo' = [todo EXCEPT ![d] = Tail(todo[d])]
<1>1. << >> \o Tail(todo[d]) = Tail(todo[d])
  BY AtWork, ConcatEmptySeq
<1> QED BY <1>1 DEF Go, Then, TypeInv

\* What is left is well handled, if the step changed nothing that it waits for.
LEMMA GoHandled ==
  ASSUME NEW s, Handled(s), s # << >>,
         \A k \in Range(Tail(s)) :
             /\ k.do \in Erasures =>
                    /\ SameAs(row'[k.m], row[k.m]) /\ row'[k.m].rated \in {row[k.m].rated, NoPair}
                    /\ Head(s).do = "reverse" /\ Head(s).m = k.m => row'[k.m].rated = NoPair
             /\ k.do = "settle" => row'[k.m].status \in Open,
         \A m \in Matches : Unrated(m)' => InHand(m, Tail(s))
  PROVE  Handled(Tail(s))'
<1>1. /\ s \in Seq(AnyTask) /\ Planned(s) /\ Fits(s)
  BY DEF Handled
<1>2. /\ Planned(Tail(s)) /\ Tail(s) \in Seq(AnyTask)
      /\ Range(Tail(s)) \subseteq Range(s)
      /\ \A l \in Range(s) : l = Head(s) \/ l \in Range(Tail(s))
      /\ \A l \in Range(Tail(s)) : Before(Head(s), l)
  BY <1>1, PlannedTail
<1>3. ASSUME NEW k \in Range(Tail(s))
      PROVE  /\ k.do \in {"void", "edit", "noshow"} => SameAs(row'[k.m], k.was)
             /\ k.do \in {"undo", "unvoid"} => k.to = Playable(row'[k.m])
             /\ k.do \in Erasures =>
                    \/ row'[k.m].rated = NoPair
                    \/ \E l \in Range(Tail(s)) : l.do = "reverse" /\ l.m = k.m
             /\ k.do = "settle" => row'[k.m].status \in Open
             /\ k.do \notin AtOnce
  <2>1. k \in Range(s) /\ k.do \notin AtOnce
    BY <1>2 DEF Before
  <2>2. /\ k.do \in {"void", "edit", "noshow"} => SameAs(row[k.m], k.was)
        /\ k.do \in {"undo", "unvoid"} => k.to = Playable(row[k.m])
        /\ k.do \in Erasures =>
               \/ row[k.m].rated = NoPair
               \/ \E l \in Range(s) : l.do = "reverse" /\ l.m = k.m
    BY <1>1, <2>1 DEF Fits
  <2>3. k.do \in Erasures => SameAs(row'[k.m], row[k.m])
    OBVIOUS
  <2>4. k.do \in {"void", "edit", "noshow"} => SameAs(row'[k.m], k.was)
    BY <2>2, <2>3 DEF SameAs, Erasures, Erasing
  <2>5. k.do \in {"undo", "unvoid"} => k.to = Playable(row'[k.m])
    BY <2>2, <2>3 DEF SameAs, Erasures, Erasing, Playable, Known
  <2>6. k.do \in Erasures => \/ row'[k.m].rated = NoPair
                             \/ \E l \in Range(Tail(s)) : l.do = "reverse" /\ l.m = k.m
    BY <1>2, <2>2
  <2> QED BY <2>1, <2>4, <2>5, <2>6
<1>4. Fits(Tail(s))'
  BY <1>3 DEF Fits, AtOnce
<1> QED BY <1>2, <1>4 DEF Handled

\* A list put in place of the first request, when what follows is late.
LEMMA ThenHandled ==
  ASSUME NEW s, Handled(s), s # << >>, \A l \in Range(Tail(s)) : l.do \in Late,
         NEW tasks \in Seq(AnyTask), Planned(tasks), Fits(tasks)',
         \A m \in Matches : Unrated(m)' => InHand(m, tasks \o Tail(s))
  PROVE  Handled(tasks \o Tail(s))'
<1>1. Tail(s) \in Seq(AnyTask) /\ Ordered(Tail(s))
  BY PlannedTail DEF Handled, Planned
<1>2. /\ Planned(tasks \o Tail(s)) /\ tasks \o Tail(s) \in Seq(AnyTask)
      /\ Range(tasks \o Tail(s)) = Range(tasks) \cup Range(Tail(s))
  BY <1>1, PlannedJoin
<1>3. Fits(tasks \o Tail(s))'
  BY <1>2 DEF Fits, Late, Erasures, Erasing
<1> QED BY <1>2, <1>3 DEF Handled

\* A list that was dropped.
LEMMA StopHandled ==
  ASSUME \A m \in Matches : ~Unrated(m)'
  PROVE  Handled(<< >>)'
<1>1. << >> \in Seq(AnyTask) /\ Range(<< >>) = {} /\ Ordered(<< >>)
  <2>1. [do |-> "mark", who |-> {}] \in AnyTask
    BY DEF AnyTask, MarkTask
  <2> QED BY <2>1, Short
<1> QED BY <1>1 DEF Handled, Planned, Fits
-----------------------------------------------------------------------------
(* The requests that change no row.                                        *)

\* A desk at work.
LEMMA Working ==
  ASSUME OneInv, NEW d \in Desks, ~Idle(d)
  PROVE  /\ Handled(todo[d]) /\ todo[d] # << >> /\ todo[d] \in Seq(AnyTask)
         /\ Planned(todo[d]) /\ Fits(todo[d])
         /\ Head(todo[d]) \in Range(todo[d]) /\ Head(todo[d]) \in AnyTask
         /\ TypeInv /\ Tidy
<1>1. Handled(todo[d]) /\ todo[d] # << >> /\ TypeInv /\ Tidy
  BY DEF OneInv, Idle
<1> QED BY <1>1, AtWork, PlannedTail DEF Handled

\* Nothing is unrated while the desk is at other requests than these.
LEMMA NoneInHand ==
  ASSUME NEW s, Handled(s),
         s = << >> \/ Head(s).do \notin {"rate", "look", "place", "find", "clear"} \cup Erasing
  PROVE  \A m \in Matches : ~Unrated(m)
  BY DEF Handled, InHand

\* Nothing changed, nothing to look after.
LEMMA SameTidy ==
  ASSUME Tidy, row' = row
  PROVE  Tidy' /\ \A m \in Matches : Unrated(m)' <=> Unrated(m)
  BY DEF Tidy, RatedIsResult, IsDecided, Unrated, Contested, Known

\* The desk goes on and leaves all rows alone.
LEMMA GoSame ==
  ASSUME OneInv, NEW d \in Desks, Desks = {d}, TypeInv', faults' = faults, row' = row,
         ~Idle(d), Go(d),
         Head(todo[d]).do \notin {"rate", "look", "reverse"} \cup Erasing
  PROVE  OneInv'
<1>1. PICK s : s = todo[d]
  OBVIOUS
<1>2. /\ Handled(s) /\ s # << >> /\ s \in Seq(AnyTask) /\ Planned(s) /\ Fits(s)
      /\ TypeInv /\ Tidy
  BY <1>1, Working
<1>3. \A k \in Range(Tail(s)) :
          /\ k.do \in Erasures =>
                 /\ SameAs(row'[k.m], row[k.m]) /\ row'[k.m].rated \in {row[k.m].rated, NoPair}
                 /\ Head(s).do = "reverse" /\ Head(s).m = k.m => row'[k.m].rated = NoPair
          /\ k.do = "settle" => row'[k.m].status \in Open
  <2>1. Range(Tail(s)) \subseteq Range(s)
    BY <1>2, PlannedTail
  <2> QED BY <1>1, <1>2, <2>1 DEF SameAs, Fits
<1>4. \A m \in Matches : Unrated(m)' => InHand(m, Tail(s))
  <2> SUFFICES ASSUME NEW m \in Matches, Unrated(m) PROVE InHand(m, Tail(s))
    BY <1>2, SameTidy
  <2>1. InHand(m, s)
    BY <1>2 DEF Handled
  <2>2. Head(s).do \in {"place", "find", "clear"}
    BY <1>1, <2>1 DEF InHand
  <2> QED BY <1>2, <2>1, <2>2, StillInHand
<1>5. Handled(Tail(s))'
  BY <1>2, <1>3, <1>4, GoHandled
<1>6. todo' = [todo EXCEPT ![d] = Tail(s)] /\ Tidy'
  BY <1>1, <1>2, GoLeaves, SameTidy
<1>7. PICK new : new = Tail(s)
  OBVIOUS
<1> QED BY <1>5, <1>6, <1>7, DeskStep

\* The desk stops, with nothing in hand.
LEMMA StopSame ==
  ASSUME OneInv, NEW d \in Desks, Desks = {d}, TypeInv', faults' = faults, row' = row,
         ~Idle(d), Stop(d),
         Head(todo[d]).do \notin {"rate", "look", "place", "find", "clear"} \cup Erasing
  PROVE  OneInv'
<1>1. Handled(todo[d]) /\ TypeInv /\ Tidy
  BY Working
<1>2. \A m \in Matches : ~Unrated(m)'
  BY <1>1, NoneInHand, SameTidy
<1>3. Handled(<< >>)' /\ Tidy' /\ todo' = [todo EXCEPT ![d] = << >>]
  BY <1>1, <1>2, StopHandled, SameTidy DEF Stop
<1> QED BY <1>3, DeskStep

-----------------------------------------------------------------------------
(* The lists that are put in place.                                        *)

\* One request.
LEMMA OnePlanned ==
  ASSUME NEW k \in AnyTask, k.do \notin {"restore", "reverse", "write", "edit"},
         k.do \in {"seat", "noshow"} => k.was.status \in Open
  PROVE  Planned(<<k>>) /\ <<k>> \in Seq(AnyTask) /\ Range(<<k>>) = {k}
  BY Short DEF Planned

\* Two requests.
LEMMA TwoOrdered ==
  ASSUME NEW k \in AnyTask, NEW l \in AnyTask, Before(k, l)
  PROVE  /\ <<k, l>> \in Seq(AnyTask) /\ Range(<<k, l>>) = {k, l} /\ Ordered(<<k, l>>)
         /\ <<k>> \o <<l>> = <<k, l>>
<1>1. <<k, l>> \in Seq(AnyTask) /\ <<k>> \in Seq(AnyTask) /\ <<l>> \in Seq(AnyTask)
  OBVIOUS
<1>2. /\ Len(<<k, l>>) = 2 /\ <<k, l>>[1] = k /\ <<k, l>>[2] = l
      /\ Len(<<k>>) = 1 /\ <<k>>[1] = k /\ Len(<<l>>) = 1 /\ <<l>>[1] = l
  OBVIOUS
<1>3. Range(<<k, l>>) = {<<k, l>>[i] : i \in 1..Len(<<k, l>>)}
  BY <1>1, RangeEquality
<1>4. Range(<<k, l>>) = {k, l}
  BY <1>2, <1>3
<1>5. Ordered(<<k, l>>)
  <2> SUFFICES ASSUME NEW i \in 1..2, NEW j \in 1..2, i < j
               PROVE  Before(<<k, l>>[i], <<k, l>>[j])
    BY <1>2 DEF Ordered
  <2>1. i = 1 /\ j = 2
    OBVIOUS
  <2> QED BY <1>2, <2>1
<1> DEFINE t == <<k>> \o <<l>>
<1>6. /\ t \in Seq(AnyTask) /\ Len(t) = 2
      /\ \A i \in 1..2 : t[i] = IF i <= 1 THEN k ELSE <<l>>[i - 1]
  BY <1>1, <1>2, ConcatProperties
<1> HIDE DEF t
<1>7. t[1] = k /\ t[2] = <<l>>[1]
  BY <1>6
<1>8. \A i \in 1..Len(t) : t[i] = <<k, l>>[i]
  BY <1>2, <1>6, <1>7
<1>9. t = <<k, l>>
  BY <1>1, <1>2, <1>6, <1>8, SeqEqual
<1> QED BY <1>1, <1>4, <1>5, <1>9 DEF t

\* Moving an entry along, later.
LEMMA RouteLate ==
  ASSUME NEW slot \in Slots \cup {NoSlot}, NEW e \in Occupant, NEW onDecided \in {"skip", "refuse"}
  PROVE  \A s \in {RouteTasks(slot, e, onDecided), RouteLoser(slot, e, onDecided)} :
             /\ s \in Seq(AnyTask) /\ Ordered(s)
             /\ \A l \in Range(s) : l.do = "route" /\ l.slot = slot /\ l.e = e
<1> SUFFICES ASSUME NEW s \in {RouteTasks(slot, e, onDecided), RouteLoser(slot, e, onDecided)}
             PROVE  /\ s \in Seq(AnyTask) /\ Ordered(s)
                    /\ \A l \in Range(s) : l.do = "route" /\ l.slot = slot /\ l.e = e
  OBVIOUS
<1> DEFINE k == [do |-> "route", slot |-> slot, e |-> e, onDecided |-> onDecided]
<1>1. s \in Seq(AnyTask)
  BY RouteTyped
<1>2. CASE s = << >>
  <2>1. [do |-> "mark", who |-> {}] \in AnyTask
    BY DEF AnyTask, MarkTask
  <2> QED BY <1>1, <1>2, <2>1, Short
<1>3. CASE s = <<k>>
  <2>1. <<k>> \in Seq(AnyTask) /\ k = <<k>>[1] /\ 1 \in 1..Len(<<k>>)
    BY <1>1, <1>3
  <2>2. k \in AnyTask
    BY <2>1, ElementOfSeq
  <2>3. k.do = "route" /\ k.slot = slot /\ k.e = e
    OBVIOUS
  <2> HIDE DEF k
  <2>4. Range(s) = {k} /\ Ordered(s)
    BY <1>3, <2>2, Short
  <2> QED BY <1>1, <2>3, <2>4
<1>4. s = << >> \/ s = <<k>>
  BY DEF RouteTasks, RouteLoser
<1> QED BY <1>2, <1>3, <1>4

\* Recording a result on a match that is open.
LEMMA ResultPlanned ==
  ASSUME NEW m \in Matches, NEW was \in RowType, NEW side \in Sides, NEW to \in Decided,
         was.status \in Open
  PROVE  LET s == ResultTasks(m, was, side, to)
         IN  /\ s \in Seq(AnyTask) /\ Planned(s)
             /\ SameAs(row[m], was) => Fits(s)
             /\ \A k \in Range(s) :
                    \/ /\ k.do = "write" /\ k.m = m /\ k.was = was /\ k.to = to
                       /\ k.win = was[side] /\ k.lose = was[Other(side)]
                    \/ k.do = "look"
                    \/ /\ k.do = "route"
                       /\ \/ k.slot = WinnerTo[m] /\ k.e = was[side]
                          \/ k.slot = LoserTo[m] /\ k.e = was[Other(side)]
             /\ \E k \in Range(s) : k.do = "write"
<1> DEFINE onDecided == IF to = "walkover" THEN "skip" ELSE "refuse"
           w == [do |-> "write", m |-> m, was |-> was, to |-> to,
                 win |-> was[side], lose |-> was[Other(side)]]
           k == [do |-> "look", m |-> m, prior |-> <<was>>]
           winner == RouteTasks(WinnerTo[m], was[side], onDecided)
           loser == RouteLoser(LoserTo[m], was[Other(side)], onDecided)
           s == ResultTasks(m, was, side, to)
<1>1. was[side] \in Occupant /\ was[Other(side)] \in Occupant
  BY RowOf
<1>2. w \in AnyWrite /\ k \in AnyLook
  BY <1>1 DEF AnyWrite, AnyLook, AnyPrior
<1>3. w \in AnyTask /\ k \in AnyTask
  BY <1>2 DEF AnyTask, OnMatch
<1>0. WinnerTo[m] \in Slots \cup {NoSlot} /\ LoserTo[m] \in Slots \cup {NoSlot}
  BY BracketAssumption DEF BracketAssumption
<1>00. onDecided \in {"skip", "refuse"}
  OBVIOUS
<1> HIDE DEF onDecided
<1>4. /\ winner \in Seq(AnyTask) /\ Ordered(winner)
      /\ \A l \in Range(winner) : l.do = "route" /\ l.slot = WinnerTo[m] /\ l.e = was[side]
  <2>1. PICK slot \in Slots \cup {NoSlot}, e \in Occupant, how \in {"skip", "refuse"} :
            slot = WinnerTo[m] /\ e = was[side] /\ how = onDecided
    BY <1>0, <1>00, <1>1
  <2>2. PICK t : t = RouteTasks(slot, e, how)
    OBVIOUS
  <2>3. t \in Seq(AnyTask) /\ Ordered(t)
        /\ \A l \in Range(t) : l.do = "route" /\ l.slot = slot /\ l.e = e
    BY <2>2, RouteLate
  <2>4. winner = t
    BY <2>1, <2>2
  <2> HIDE DEF winner
  <2> QED BY <2>1, <2>3, <2>4
<1>5. /\ loser \in Seq(AnyTask) /\ Ordered(loser)
      /\ \A l \in Range(loser) : l.do = "route" /\ l.slot = LoserTo[m] /\ l.e = was[Other(side)]
  <2>1. PICK slot \in Slots \cup {NoSlot}, e \in Occupant, how \in {"skip", "refuse"} :
            slot = LoserTo[m] /\ e = was[Other(side)] /\ how = onDecided
    BY <1>0, <1>00, <1>1
  <2>2. PICK t : t = RouteLoser(slot, e, how)
    OBVIOUS
  <2>3. t \in Seq(AnyTask) /\ Ordered(t)
        /\ \A l \in Range(t) : l.do = "route" /\ l.slot = slot /\ l.e = e
    BY <2>2, RouteLate
  <2>4. loser = t
    BY <2>1, <2>2
  <2> HIDE DEF loser
  <2> QED BY <2>1, <2>3, <2>4
<1>6. /\ w.do = "write" /\ w.m = m /\ w.was = was /\ w.to = to
      /\ w.win = was[side] /\ w.lose = was[Other(side)]
      /\ k.do = "look" /\ k.m = m
  OBVIOUS
<1> HIDE DEF w, k, winner, loser
<1>7. s = (<<w, k>> \o winner) \o loser
  BY DEF ResultTasks, w, k, winner, loser, onDecided
<1> HIDE DEF s
<1>10. Before(w, k)
  BY <1>6 DEF Before, AtOnce, Erasures, Erasing
<1>11. <<w, k>> \in Seq(AnyTask) /\ Ordered(<<w, k>>) /\ Range(<<w, k>>) = {w, k}
  BY <1>3, <1>10, TwoOrdered
<1>12. Planned(<<w, k>>)
  BY <1>6, <1>11 DEF Planned
<1>13. SameAs(row[m], was) => Fits(<<w, k>>)
  BY <1>6, <1>11 DEF Fits, Erasures, Erasing
<1> DEFINE t == <<w, k>> \o winner
<1>14. /\ Planned(t) /\ t \in Seq(AnyTask) /\ Range(t) = {w, k} \cup Range(winner)
       /\ Fits(<<w, k>>) => Fits(t)
  BY <1>4, <1>11, <1>12, PlannedJoin DEF Late
<1> HIDE DEF t
<1>15. s = t \o loser
  BY <1>7 DEF t
<1>16. /\ Planned(s) /\ s \in Seq(AnyTask) /\ Range(s) = Range(t) \cup Range(loser)
       /\ Fits(t) => Fits(s)
  BY <1>5, <1>14, <1>15, PlannedJoin DEF Late
<1>17. Range(s) = {w, k} \cup Range(winner) \cup Range(loser)
  BY <1>14, <1>16
<1> QED BY <1>4, <1>5, <1>6, <1>13, <1>14, <1>16, <1>17 DEF s

\* An advancement.
LEMMA AdvancePlanned ==
  ASSUME NEW slot \in Slots, NEW e \in Occupant
  PROVE  LET s == <<[do |-> "place", slot |-> slot, e |-> e],
                    [do |-> "settle", m |-> slot[1]]>>
         IN  /\ s \in Seq(AnyTask) /\ Planned(s)
             /\ row[slot[1]].status \in Open => Fits(s)
             /\ \A k \in Range(s) : \/ k.do = "place" /\ k.slot = slot /\ k.e = e
                                    \/ k.do = "settle"
<1> DEFINE p == [do |-> "place", slot |-> slot, e |-> e]
           q == [do |-> "settle", m |-> slot[1]]
           s == <<p, q>>
<1>1. p \in PlaceTask /\ q \in SettleTask
  BY DEF PlaceTask, SettleTask, Slots, Occupant
<1>2. p \in AnyTask /\ q \in AnyTask
  BY <1>1 DEF AnyTask, OnMatch, OnSlots
<1>3. p.do = "place" /\ p.slot = slot /\ p.e = e /\ q.do = "settle" /\ q.m = slot[1]
  OBVIOUS
<1> HIDE DEF p, q
<1>7. Before(p, q)
  BY <1>3 DEF Before, AtOnce, Erasures, Erasing
<1>8. s \in Seq(AnyTask) /\ Ordered(s) /\ Range(s) = {p, q}
  BY <1>2, <1>7, TwoOrdered
<1> HIDE DEF s
<1>9. Planned(s) /\ (row[slot[1]].status \in Open => Fits(s))
  BY <1>3, <1>8 DEF Planned, Fits, Erasures, Erasing
<1> QED BY <1>3, <1>8, <1>9 DEF s, p, q

\* The forfeits of an entry that is out.
LEMMA ForfeitsPlanned ==
  ASSUME NEW tasks \in Seq(AnyTask), \A i \in 1..Len(tasks) : tasks[i].do = "forfeit"
  PROVE  Planned(tasks) /\ Fits(tasks) /\ \A k \in Range(tasks) : k.do = "forfeit"
<1>1. \A k \in Range(tasks) : k.do = "forfeit"
  <2>1. Range(tasks) = {tasks[i] : i \in 1..Len(tasks)}
    BY RangeEquality
  <2> QED BY <2>1
<1>2. Ordered(tasks)
  BY DEF Ordered, Before, AtOnce, Erasures, Erasing
<1> QED BY <1>1, <1>2 DEF Planned, Fits, Erasures, Erasing

-----------------------------------------------------------------------------
(* The requests that read.                                                 *)

\* The list is extended in front of late requests.
LEMMA ThenSame ==
  ASSUME OneInv, NEW d \in Desks, Desks = {d}, TypeInv', faults' = faults, row' = row,
         ~Idle(d), Head(todo[d]).do \in {"settle", "route", "list", "forfeit"},
         NEW tasks \in Seq(AnyTask), Planned(tasks), Fits(tasks), Then(d, tasks)
  PROVE  OneInv'
<1>1. PICK s : s = todo[d]
  OBVIOUS
<1>2. /\ Handled(s) /\ s # << >> /\ s \in Seq(AnyTask) /\ Planned(s)
      /\ TypeInv /\ Tidy
  BY <1>1, Working
<1>3. \A l \in Range(Tail(s)) : l.do \in Late
  BY <1>1, <1>2, LateTail
<1>4. Fits(tasks)'
  BY DEF Fits, IsDecided, Known, Playable, Emptied, SameAs
<1>5. \A m \in Matches : ~Unrated(m)'
  BY <1>1, <1>2, NoneInHand, SameTidy DEF Erasing
<1>6. Handled(tasks \o Tail(s))'
  BY <1>2, <1>3, <1>4, <1>5, ThenHandled
<1>7. todo' = [todo EXCEPT ![d] = tasks \o Tail(s)] /\ Tidy'
  BY <1>1, <1>2, SameTidy DEF Then, TypeInv
<1>8. PICK new : new = tasks \o Tail(s)
  OBVIOUS
<1> QED BY <1>6, <1>7, <1>8, DeskStep

\* The matches that follow are looked at, and absentees marked.
LEMMA GuardOne ==
  ASSUME OneInv, NEW d \in Desks, Desks = {d}, TypeInv', Guard(d) \/ Mark(d)
  PROVE  OneInv'
<1>1. /\ ~Idle(d) /\ Head(todo[d]).do \in {"guard", "mark"} /\ row' = row /\ faults' = faults
      /\ Go(d) \/ Stop(d)
  BY DEF Guard, Mark, Doing, Idle
<1> QED BY <1>1, GoSame, StopSame DEF Erasing

\* An entry is moved along, unless the match it goes to is on or over.
LEMMA RouteOne ==
  ASSUME OneInv, NEW d \in Desks, Desks = {d}, TypeInv', Route(d)
  PROVE  OneInv'
<1> DEFINE k == Head(todo[d])
<1>1. ~Idle(d) /\ k.do = "route" /\ row' = row /\ faults' = faults
  BY DEF Route, Doing, Idle
<1>2. CASE Go(d) \/ Stop(d)
  BY <1>1, <1>2, GoSame, StopSame DEF Erasing
<1>3. CASE row[k.slot[1]].status \in {"pending", "ready"} /\ Advance(d)
  <2>1. k \in RouteTask
    BY <1>1, Working, FieldsOf
  <2>2. PICK slot \in Slots, e \in Occupant : slot = k.slot /\ e = k.e
    BY <2>1 DEF RouteTask, Occupant
  <2>3. PICK tasks : tasks = <<[do |-> "place", slot |-> slot, e |-> e],
                               [do |-> "settle", m |-> slot[1]]>>
    OBVIOUS
  <2>4. Then(d, tasks)
    BY <1>3, <2>2, <2>3 DEF Advance
  <2>5. row[slot[1]].status \in Open
    BY <1>3, <2>2 DEF Open
  <2>6. tasks \in Seq(AnyTask) /\ Planned(tasks) /\ Fits(tasks)
    BY <2>3, <2>5, AdvancePlanned
  <2> QED BY <1>1, <2>4, <2>6, ThenSame
<1> QED BY <1>2, <1>3 DEF Route

\* A match with both entries is settled: forfeited, or ready.
LEMMA SettleOne ==
  ASSUME OneInv, NEW d \in Desks, Desks = {d}, TypeInv', Settle(d)
  PROVE  OneInv'
<1> DEFINE k == Head(todo[d])
           r == row[k.m]
           out == {s \in Sides : standing[r[s]] = "out"}
           side == CHOOSE s \in Sides \ out : TRUE
           q == [do |-> "ready", m |-> k.m]
<1>1. ~Idle(d) /\ k.do = "settle" /\ row' = row /\ faults' = faults
  BY DEF Settle, Doing, Idle
<1>2. k \in SettleTask /\ k.m \in Matches /\ r.status \in Open /\ TypeInv /\ r \in RowType
  <2>1. k \in SettleTask /\ TypeInv /\ k \in Range(todo[d]) /\ Fits(todo[d])
    BY <1>1, Working, FieldsOf
  <2>2. r.status \in Open
    BY <1>1, <2>1 DEF Fits
  <2> QED BY <2>1, <2>2 DEF SettleTask, TypeInv
<1>3. CASE Go(d)
  BY <1>1, <1>3, GoSame DEF Erasing
<1>4. CASE Known(r) /\ Cardinality(out) = 1 /\ Then(d, ResultTasks(k.m, r, side, "walkover"))
  <2>1. side \in Sides
    BY <1>4, WinnerByForfeit
  <2> HIDE DEF side
  <2>3. PICK tasks : tasks = ResultTasks(k.m, r, side, "walkover")
    OBVIOUS
  <2>4. SameAs(row[k.m], r) /\ "walkover" \in Decided
    BY DEF SameAs, Decided
  <2>5. tasks \in Seq(AnyTask) /\ Planned(tasks) /\ Fits(tasks)
    BY <1>2, <2>1, <2>3, <2>4, ResultPlanned
  <2> QED BY <1>1, <1>4, <2>3, <2>5, ThenSame
<1>5. CASE Known(r) /\ Then(d, <<q>>)
  <2>1. q \in SettleTask /\ q.do = "ready" /\ q.m = k.m
    BY <1>2 DEF SettleTask
  <2>2. q \in AnyTask
    BY <2>1 DEF AnyTask, OnMatch
  <2> HIDE DEF q
  <2>3. <<q>> \in Seq(AnyTask) /\ Planned(<<q>>) /\ Range(<<q>>) = {q}
    BY <2>1, <2>2, OnePlanned
  <2>4. Fits(<<q>>)
    BY <1>5, <2>1, <2>3 DEF Fits, Erasures, Erasing
  <2> QED BY <1>1, <1>5, <2>3, <2>4, ThenSame
<1> QED BY <1>3, <1>4, <1>5 DEF Settle

\* The open matches of an entry that is out are listed.
LEMMA ListOne ==
  ASSUME OneInv, NEW d \in Desks, Desks = {d}, TypeInv', List(d)
  PROVE  OneInv'
<1> DEFINE k == Head(todo[d])
           open == {i \in DOMAIN Rounds : row[Rounds[i]].status \in Open /\ In(k.e, row[Rounds[i]])}
           n == Cardinality(open)
<1>1. ~Idle(d) /\ k.do = "list" /\ row' = row /\ faults' = faults
  BY DEF List, Doing, Idle
<1>2. k \in ListTask
  BY <1>1, Working, FieldsOf
<1>3. PICK nth \in [1..n -> open] :
          Then(d, [i \in DOMAIN nth |-> [do |-> "forfeit", m |-> Rounds[nth[i]], e |-> k.e]])
  BY DEF List
<1>4. Rounds \in Seq(Matches)
  BY BracketAssumption DEF BracketAssumption
<1>5. n \in Nat
  <2>1. IsFiniteSet(DOMAIN Rounds)
    <3>1. Len(Rounds) \in Nat /\ DOMAIN Rounds = 1..Len(Rounds)
      BY <1>4, LenProperties
    <3> QED BY <3>1, FS_Interval
  <2>2. open \subseteq DOMAIN Rounds
    OBVIOUS
  <2> HIDE DEF open
  <2> QED BY <2>1, <2>2, FS_Subset, FS_CardinalityType
<1> DEFINE tasks == [i \in 1..n |-> [do |-> "forfeit", m |-> Rounds[nth[i]], e |-> k.e]]
<1>6. \A i \in 1..n : [do |-> "forfeit", m |-> Rounds[nth[i]], e |-> k.e] \in AnyTask
  <2> TAKE i \in 1..n
  <2>1. nth[i] \in DOMAIN Rounds
    BY <1>3
  <2>2. Rounds[nth[i]] \in Matches
    BY <1>4, <2>1, LenProperties
  <2>3. [do |-> "forfeit", m |-> Rounds[nth[i]], e |-> k.e] \in ForfeitTask
    BY <1>2, <2>2 DEF ForfeitTask, ListTask
  <2> QED BY <2>3 DEF AnyTask, OnMatch
<1>7. Then(d, tasks)
  BY <1>3
<1>8. tasks \in [1..n -> AnyTask] /\ \A i \in 1..n : tasks[i].do = "forfeit"
  BY <1>6
<1> HIDE DEF tasks, n
<1>9. tasks \in Seq(AnyTask)
  BY <1>5, <1>8, SeqDef
<1>10. \A i \in 1..Len(tasks) : tasks[i].do = "forfeit"
  BY <1>5, <1>8, <1>9, LenProperties
<1>11. Planned(tasks) /\ Fits(tasks)
  BY <1>9, <1>10, ForfeitsPlanned
<1> HIDE DEF k
<1> QED BY <1>1, <1>7, <1>9, <1>11, ThenSame DEF k

\* An open match of an entry that is out is forfeited to its opponent, if there is one.
LEMMA ForfeitOne ==
  ASSUME OneInv, NEW d \in Desks, Desks = {d}, TypeInv', Forfeit(d)
  PROVE  OneInv'
<1> DEFINE k == Head(todo[d])
           r == row[k.m]
           winner == IF r.a = k.e THEN "b" ELSE "a"
<1>1. ~Idle(d) /\ k.do = "forfeit" /\ row' = row /\ faults' = faults
  BY DEF Forfeit, Doing, Idle
<1>2. k.m \in Matches /\ r \in RowType
  <2>1. k \in ForfeitTask /\ TypeInv
    BY <1>1, Working, FieldsOf
  <2> QED BY <2>1 DEF ForfeitTask, TypeInv
<1>3. CASE Go(d)
  BY <1>1, <1>3, GoSame DEF Erasing
<1>4. CASE r.status \in Open /\ r[winner] # None /\ Then(d, ResultTasks(k.m, r, winner, "walkover"))
  <2>1. winner \in Sides /\ SameAs(row[k.m], r) /\ "walkover" \in Decided
    BY DEF Sides, SameAs, Decided
  <2>2. PICK tasks : tasks = ResultTasks(k.m, r, winner, "walkover")
    OBVIOUS
  <2> HIDE DEF winner
  <2>3. tasks \in Seq(AnyTask) /\ Planned(tasks) /\ Fits(tasks)
    BY <1>2, <1>4, <2>1, <2>2, ResultPlanned
  <2> QED BY <1>1, <1>4, <2>2, <2>3, ThenSame
<1> QED BY <1>3, <1>4 DEF Forfeit


\* A request in front of a list.
LEMMA InFront ==
  ASSUME NEW q \in AnyTask, NEW t \in Seq(AnyTask)
  PROVE  /\ <<q>> \o t \in Seq(AnyTask) /\ <<q>> \o t # << >> /\ Head(<<q>> \o t) = q
         /\ Range(<<q>> \o t) = {q} \cup Range(t)
<1> DEFINE s == <<q>> \o t
<1>1. <<q>> \in Seq(AnyTask) /\ Range(<<q>>) = {q} /\ Len(<<q>>) = 1 /\ <<q>>[1] = q
  BY Short
<1>2. /\ s \in Seq(AnyTask) /\ Len(s) = 1 + Len(t) /\ Len(t) \in Nat
      /\ \A i \in 1..1 + Len(t) : s[i] = IF i <= 1 THEN <<q>>[i] ELSE t[i - 1]
  BY <1>1, ConcatProperties, LenProperties
<1>3. Range(s) = Range(<<q>>) \cup Range(t)
  <2>1. PICK p \in Seq(AnyTask) : p = <<q>>
    BY <1>1
  <2>2. Range(p \o t) = Range(p) \cup Range(t)
    BY RangeConcatenation
  <2> QED BY <2>1, <2>2
<1>4. s[1] = q /\ s # << >>
  BY <1>1, <1>2
<1> HIDE DEF s
<1>5. Head(s) = s[1]
  BY <1>2, <1>4
<1> QED BY <1>1, <1>2, <1>3, <1>4, <1>5 DEF s

\* A slot is looked up, to be cleared if it still holds the entry.
LEMMA FindOne ==
  ASSUME OneInv, NEW d \in Desks, Desks = {d}, TypeInv', Find(d)
  PROVE  OneInv'
<1> DEFINE k == Head(todo[d])
           r == row[k.slot[1]]
           clear == [do |-> "clear", slot |-> k.slot, e |-> k.e,
                     to |-> IF r.status \in {"ready", "live"} THEN "pending" ELSE r.status]
<1>1. ~Idle(d) /\ k.do = "find" /\ row' = row /\ faults' = faults
  BY DEF Find, Doing, Idle
<1>2. CASE Go(d)
  BY <1>1, <1>2, GoSame DEF Erasing
<1>3. CASE Then(d, <<clear>>)
  <2>1. PICK s : s = todo[d]
    OBVIOUS
  <2>2. /\ Handled(s) /\ s # << >> /\ s \in Seq(AnyTask) /\ Planned(s) /\ Fits(s)
        /\ TypeInv /\ Tidy /\ k \in FindTask
    BY <1>1, <2>1, Working, FieldsOf
  <2>3a. PICK q : q = clear
    OBVIOUS
  <2>3. q \in ClearTask
    <3>1. r \in RowType
      BY <2>2 DEF FindTask, Slots, TypeInv
    <3> QED BY <2>2, <2>3a, <3>1, RowOf, Statuses DEF FindTask, ClearTask
  <2>4. /\ q \in AnyTask /\ q.do = "clear" /\ q.slot = k.slot
        /\ q.to = Emptied(row[q.slot[1]])
    BY <2>3, <2>3a DEF AnyTask, OnSlots, Emptied
  <2> HIDE DEF clear
  <2>5. PICK t : t = Tail(s)
    OBVIOUS
  <2>6. /\ t \in Seq(AnyTask) /\ Planned(t) /\ Range(t) \subseteq Range(s)
        /\ \A l \in Range(s) : l = k \/ l \in Range(t)
        /\ \A l \in Range(t) : Before(k, l)
    BY <2>1, <2>2, <2>5, PlannedTail
  <2> DEFINE new == <<q>> \o t
  <2>7. new \in Seq(AnyTask) /\ new # << >> /\ Head(new) = q /\ Range(new) = {q} \cup Range(t)
    BY <2>4, <2>6, InFront
  <2>8. todo' = [todo EXCEPT ![d] = new]
    BY <1>3, <2>1, <2>2, <2>3a, <2>5 DEF Then, TypeInv
  <2>9. Ordered(new)
    <3>1. \A l \in Range(t) : Before(q, l)
      BY <1>1, <2>4, <2>6 DEF Before, AtOnce, Erasures, Erasing, Preparing
    <3>2. <<q>> \in Seq(AnyTask) /\ Ordered(<<q>>) /\ Range(<<q>>) = {q}
      BY <2>4, Short
    <3> QED BY <2>6, <3>1, <3>2, OrderedJoin DEF Planned
  <2> HIDE DEF new
  <2>10. Planned(new)
    BY <2>4, <2>6, <2>7, <2>9 DEF Planned
  <2>11. Fits(new)
    <3>1. ASSUME NEW l \in Range(t), l.do \in Erasures
          PROVE  \/ row[l.m].rated = NoPair
                 \/ \E j \in Range(new) : j.do = "reverse" /\ j.m = l.m
      <4>1. \/ row[l.m].rated = NoPair
            \/ \E j \in Range(s) : j.do = "reverse" /\ j.m = l.m
        BY <2>2, <2>6, <3>1 DEF Fits
      <4> QED BY <1>1, <2>6, <2>7, <4>1
    <3>2. \A l \in Range(t) : l.do \notin AtOnce
      BY <2>6 DEF Before
    <3>3. ASSUME NEW l \in Range(t)
          PROVE  /\ l.do \in {"void", "edit", "noshow"} => SameAs(row[l.m], l.was)
                 /\ l.do \in {"undo", "unvoid"} => l.to = Playable(row[l.m])
                 /\ l.do = "settle" => row[l.m].status \in Open
      BY <2>2, <2>6 DEF Fits
    <3>4. q.do \notin {"write", "void", "edit", "noshow", "undo", "unvoid", "settle", "rate", "ready", "call"} \cup Erasures
      BY <2>4 DEF Erasures, Erasing
    <3> QED BY <2>4, <2>7, <3>1, <3>2, <3>3, <3>4 DEF Fits, AtOnce
  <2>12. Fits(new)'
    BY <1>1, <2>11 DEF Fits, IsDecided, Known, Playable, Emptied, SameAs
  <2>13. \A m \in Matches : Unrated(m)' => InHand(m, new)
    <3> SUFFICES ASSUME NEW m \in Matches, Unrated(m) PROVE InHand(m, new)
      BY <1>1, <2>2, SameTidy
    <3>1. \E l \in Range(s) : l.do \in Erasing /\ l.m = m
      BY <1>1, <2>1, <2>2 DEF Handled, InHand
    <3>2. \E l \in Range(new) : l.do \in Erasing /\ l.m = m
      BY <1>1, <2>6, <2>7, <3>1 DEF Erasing
    <3> QED BY <2>4, <2>7, <3>2 DEF InHand
  <2>14. Handled(new)'
    BY <2>7, <2>10, <2>12, <2>13 DEF Handled
  <2>15. Tidy'
    BY <1>1, <2>2, SameTidy
  <2>16. PICK list : list = new
    OBVIOUS
  <2>17. Handled(list)' /\ todo' = [todo EXCEPT ![d] = list]
    BY <2>8, <2>14, <2>16
  <2> QED BY <1>1, <2>15, <2>17, DeskStep
<1> QED BY <1>2, <1>3 DEF Find

\* The look before a rating.
LEMMA LookOne ==
  ASSUME OneInv, NEW d \in Desks, Desks = {d}, TypeInv', Look(d)
  PROVE  OneInv'
<1> DEFINE k == Head(todo[d])
           r == row[k.m]
           rate == [do |-> "rate", m |-> k.m, for |-> <<r.win, r.lose>>, prior |-> k.prior]
<1>1. ~Idle(d) /\ k.do = "look" /\ row' = row /\ faults' = faults
  BY DEF Look, Doing, Idle
<1>2. PICK s : s = todo[d]
  OBVIOUS
<1>3. /\ Handled(s) /\ s # << >> /\ s \in Seq(AnyTask) /\ Planned(s) /\ Fits(s)
      /\ TypeInv /\ Tidy /\ k \in AnyLook /\ k.m \in Matches /\ r \in RowType
  <2>1. k \in AnyLook /\ TypeInv
    BY <1>1, Working, FieldsOf
  <2>2. k.m \in Matches /\ r \in RowType
    BY <2>1 DEF AnyLook, TypeInv
  <2> QED BY <1>1, <1>2, <2>1, <2>2, Working
<1>4. ASSUME NEW m \in Matches, Unrated(m)' PROVE m = k.m /\ Unrated(k.m)
  <2>1. Unrated(m)
    BY <1>1, <1>3, <1>4, SameTidy
  <2>2. InHand(m, s)
    BY <1>3, <2>1 DEF Handled
  <2> QED BY <1>1, <1>2, <1>3, <2>1, <2>2, OwnInHand
<1>5. Tidy'
  BY <1>1, <1>3, SameTidy
<1>6. \A l \in Range(Tail(s)) : l.do \in Late
  BY <1>1, <1>2, <1>3, LateTail
<1>7. CASE Go(d) /\ (r.status = "voided" \/ r.rated # NoPair \/ r.win = None \/ r.lose = None)
  <2>1. \A m \in Matches : ~Unrated(m)'
    BY <1>4, <1>7 DEF Unrated, IsDecided, Contested, Decided
  <2>2. Handled(Tail(s))'
    BY <1>3, <1>6, <2>1, GoHandled DEF Late, Erasures, Erasing
  <2>3. PICK t : t = Tail(s)
    OBVIOUS
  <2>4. todo' = [todo EXCEPT ![d] = t] /\ Handled(t)'
    BY <1>1, <1>2, <1>3, <1>7, <2>2, <2>3, GoLeaves
  <2> QED BY <1>1, <1>5, <2>4, DeskStep
<1>8. CASE /\ Then(d, <<rate>>)
           /\ r.status # "voided" /\ r.rated = NoPair /\ r.win # None /\ r.lose # None
  <2>1. r.win \in Entries /\ r.lose \in Entries
    BY <1>3, <1>8, RowOf DEF Occupant
  <2>2a. PICK q : q = rate
    OBVIOUS
  <2>2. q \in AnyRate
    BY <1>3, <2>1, <2>2a DEF AnyRate, AnyLook
  <2>3. q \in AnyTask /\ q.do = "rate" /\ q.m = k.m /\ q.for = <<r.win, r.lose>>
    BY <2>2, <2>2a DEF AnyTask, OnMatch
  <2>4. IsDecided(k.m)
    BY <1>3, <1>8, RowOf DEF Tidy, IsDecided, Status
  <2> HIDE DEF rate
  <2>5. <<q>> \in Seq(AnyTask) /\ Planned(<<q>>) /\ Range(<<q>>) = {q}
    BY <2>3, OnePlanned
  <2>6. Fits(<<q>>)'
    BY <1>1, <1>8, <2>3, <2>4, <2>5 DEF Fits, Erasures, Erasing, IsDecided
  <2>7. PICK t : t = Tail(s)
    OBVIOUS
  <2>8. PICK list : list = <<q>> \o t
    OBVIOUS
  <2>9. t \in Seq(AnyTask)
    BY <1>3, <2>7, PlannedTail
  <2>10. list # << >> /\ Head(list) = q
    BY <2>3, <2>8, <2>9, InFront
  <2>11. \A m \in Matches : Unrated(m)' => InHand(m, list)
    BY <1>4, <2>3, <2>10 DEF InHand
  <2>12. Handled(list)'
    BY <1>3, <1>6, <2>5, <2>6, <2>7, <2>8, <2>11, ThenHandled
  <2>13. todo' = [todo EXCEPT ![d] = list]
    BY <1>2, <1>3, <1>8, <2>2a, <2>7, <2>8 DEF Then, TypeInv
  <2> QED BY <1>1, <1>5, <2>12, <2>13, DeskStep
<1> QED BY <1>7, <1>8 DEF Look

-----------------------------------------------------------------------------
(* The requests that write a row.                                          *)

\* One row changes, and is tidy afterwards.
LEMMA OneRowTidy ==
  ASSUME TypeInv, Tidy, NEW m \in Matches, NEW new \in RowType, row' = [row EXCEPT ![m] = new],
         new.rated # NoPair => new.status \in Decided /\ new.rated = <<new.win, new.lose>>,
         new.status \in Open => new.win = None /\ new.lose = None
  PROVE  /\ Tidy' /\ row'[m] = new
         /\ \A n \in Matches : n # m => row'[n] = row[n] /\ (Unrated(n)' <=> Unrated(n))
<1>1. row'[m] = new /\ \A n \in Matches : n # m => row'[n] = row[n]
  BY DEF TypeInv
<1>2. RatedIsResult'
  <2> SUFFICES ASSUME NEW n \in Matches, row'[n].rated # NoPair
               PROVE  row'[n].status \in Decided /\ row'[n].rated = <<row'[n].win, row'[n].lose>>
    BY DEF RatedIsResult, IsDecided
  <2>1. CASE n = m
    BY <1>1, <2>1
  <2>2. CASE n # m
    BY <1>1, <2>2 DEF Tidy, RatedIsResult, IsDecided
  <2> QED BY <2>1, <2>2
<1>3. \A n \in Matches : row'[n].status \in Open => row'[n].win = None /\ row'[n].lose = None
  BY <1>1 DEF Tidy
<1>4. Tidy'
  BY <1>2, <1>3 DEF Tidy
<1> QED BY <1>1, <1>4 DEF Unrated, IsDecided, Contested

\* The desk writes one row, and nothing it has still to do waits for that row to be
\* as it was.
LEMMA RowGo ==
  ASSUME OneInv, NEW d \in Desks, Desks = {d}, TypeInv', faults' = faults, ~Idle(d), Go(d),
         Head(todo[d]).do \notin Preparing,
         NEW m \in Matches, NEW new \in RowType, row' = [row EXCEPT ![m] = new],
         new.rated # NoPair => new.status \in Decided /\ new.rated = <<new.win, new.lose>>,
         new.status \in Open => new.win = None /\ new.lose = None,
         Head(todo[d]).do = "place" => new.status = row[m].status,
         \A n \in Matches : Unrated(n)' => InHand(n, Tail(todo[d]))
  PROVE  OneInv'
<1>1. PICK s : s = todo[d]
  OBVIOUS
<1>2. /\ Handled(s) /\ s # << >> /\ s \in Seq(AnyTask) /\ Planned(s) /\ Fits(s)
      /\ TypeInv /\ Tidy
  BY <1>1, Working
<1>3. Tidy' /\ row'[m] = new /\ \A n \in Matches : n # m => row'[n] = row[n]
  BY <1>2, OneRowTidy
<1>4. \A k \in Range(Tail(s)) :
          /\ k.do \notin Erasures
          /\ k.do = "settle" => row'[k.m].status \in Open
  <2> TAKE k \in Range(Tail(s))
  <2>1. Before(Head(s), k) /\ k \in Range(s) /\ k \in AnyTask
    BY <1>2, PlannedTail, RangeParts
  <2>2. k.do \notin Erasures
    BY <1>1, <2>1 DEF Before
  <2>3. ASSUME k.do = "settle" PROVE row'[k.m].status \in Open
    <3>1. row[k.m].status \in Open /\ Head(s).do = "place" /\ k \in SettleTask
      BY <1>2, <2>1, <2>3, FieldsOf DEF Fits, Before
    <3>2. k.m \in Matches
      BY <3>1 DEF SettleTask
    <3> QED BY <1>1, <1>3, <3>1, <3>2
  <2> QED BY <2>2, <2>3
<1>5. Handled(Tail(s))'
  BY <1>1, <1>2, <1>4, GoHandled
<1>6. PICK t : t = Tail(s)
  OBVIOUS
<1>7. todo' = [todo EXCEPT ![d] = t] /\ Handled(t)'
  BY <1>1, <1>2, <1>5, <1>6, GoLeaves
<1> QED BY <1>3, <1>7, DeskStep

\* A rating is carried out: the row shows the result that was looked at.
LEMMA RateOne ==
  ASSUME OneInv, NEW d \in Desks, Desks = {d}, TypeInv', Rate(d)
  PROVE  OneInv'
<1> DEFINE k == Head(todo[d])
           r == row[k.m]
<1>1. ~Idle(d) /\ k.do = "rate" /\ faults' = faults
  BY DEF Rate, Doing, Idle
<1>2. /\ k \in AnyRate /\ k \in Range(todo[d]) /\ TypeInv /\ Tidy
      /\ Handled(todo[d]) /\ Fits(todo[d]) /\ Planned(todo[d]) /\ todo[d] \in Seq(AnyTask)
  BY <1>1, Working, FieldsOf
<1>3. k.m \in Matches /\ k.for \in Entries \X Entries /\ r \in RowType
  BY <1>2 DEF AnyRate, TypeInv
<1>4. r.rated = NoPair /\ IsDecided(k.m) /\ k.for = <<r.win, r.lose>>
  BY <1>1, <1>2 DEF Fits
<1>5. ApplyRating(k.m, k.for) /\ Go(d)
  BY <1>4 DEF Rate
<1>6. PICK new : new = [r EXCEPT !.rated = k.for]
  OBVIOUS
<1>7. /\ new \in RowType /\ new.rated = k.for
      /\ new.status = r.status /\ new.win = r.win /\ new.lose = r.lose
  BY <1>3, <1>6, RatedAs
<1>8. row' = [row EXCEPT ![k.m] = new]
  BY <1>2, <1>5, <1>6 DEF ApplyRating, TypeInv
<1>9. new.status \in Decided
  BY <1>4, <1>7 DEF IsDecided
<1>10. new.rated # NoPair
  BY <1>3, <1>7, BracketAssumption DEF NoPair, BracketAssumption
<1>11. PICK m \in Matches : m = k.m
  BY <1>3
<1>12. /\ new.rated # NoPair => new.status \in Decided /\ new.rated = <<new.win, new.lose>>
       /\ new.status \in Open => new.win = None /\ new.lose = None
  BY <1>4, <1>7, <1>9, Statuses
<1>13. \A n \in Matches : ~Unrated(n)'
  <2> SUFFICES ASSUME NEW n \in Matches, Unrated(n)' PROVE FALSE
    OBVIOUS
  <2>1. row'[m] = new /\ (n # m => (Unrated(n)' <=> Unrated(n)))
    BY <1>2, <1>7, <1>8, <1>11, <1>12, OneRowTidy
  <2>2. n # m
    BY <1>10, <2>1 DEF Unrated
  <2>3. InHand(n, todo[d])
    BY <1>2, <2>1, <2>2 DEF Handled
  <2> QED BY <1>1, <1>2, <1>11, <2>2, <2>3, OwnInHand
<1>14. k.do \notin Preparing /\ k.do # "place"
  BY <1>1 DEF Preparing
<1> HIDE DEF k, r
<1> QED BY <1>1, <1>5, <1>7, <1>8, <1>11, <1>12, <1>13, <1>14, RowGo DEF k

\* An entry is written into a slot.
LEMMA PlaceOne ==
  ASSUME OneInv, NEW d \in Desks, Desks = {d}, TypeInv', Place(d)
  PROVE  OneInv'
<1> DEFINE k == Head(todo[d])
<1>1. ~Idle(d) /\ k.do = "place" /\ faults' = faults /\ Go(d)
  BY DEF Place, Doing, Idle
<1>2. /\ k \in PlaceTask /\ TypeInv /\ Tidy
      /\ Handled(todo[d]) /\ Planned(todo[d]) /\ todo[d] \in Seq(AnyTask)
  BY <1>1, Working, FieldsOf
<1>3. PICK m \in Matches, side \in Sides, e \in Occupant :
          m = k.slot[1] /\ side = k.slot[2] /\ e = k.e
  BY <1>2 DEF PlaceTask, Slots, Occupant
<1>4. PICK new : new = [row[m] EXCEPT ![side] = e]
  OBVIOUS
<1>5. row[m] \in RowType
  BY <1>2 DEF TypeInv
<1>6. /\ new \in RowType /\ new[side] = e /\ new[Other(side)] = row[m][Other(side)]
      /\ new.status = row[m].status /\ new.win = row[m].win /\ new.lose = row[m].lose
      /\ new.rated = row[m].rated
  BY <1>4, <1>5, SideRow
<1>7. row' = [row EXCEPT ![m] = new]
  BY <1>2, <1>3, <1>4 DEF Place, TypeInv
<1>8. /\ new.rated # NoPair => new.status \in Decided /\ new.rated = <<new.win, new.lose>>
      /\ new.status \in Open => new.win = None /\ new.lose = None
  BY <1>2, <1>6 DEF Tidy, RatedIsResult, IsDecided
<1>9. \A n \in Matches : Unrated(n)' => InHand(n, Tail(todo[d]))
  <2> SUFFICES ASSUME NEW n \in Matches, Unrated(n)' PROVE InHand(n, Tail(todo[d]))
    OBVIOUS
  <2>1. row'[m] = new /\ (n # m => (Unrated(n)' <=> Unrated(n)))
    BY <1>2, <1>6, <1>7, <1>8, OneRowTidy
  <2>2. Unrated(n)
    BY <1>6, <2>1 DEF Unrated, IsDecided, Contested
  <2>3. InHand(n, todo[d])
    BY <1>2, <2>2 DEF Handled
  <2> QED BY <1>1, <1>2, <2>3, StillInHand
<1>10. k.do \notin Preparing
  BY <1>1 DEF Preparing
<1> HIDE DEF k
<1> QED BY <1>1, <1>6, <1>7, <1>8, <1>9, <1>10, RowGo DEF k

\* A result that was just written is looked at next, once the slots are written.
LEMMA LookedAt ==
  ASSUME NEW s \in Seq(AnyTask), s # << >>, Planned(s), Head(s).do \in {"write", "edit"}
  PROVE  InHand(Head(s).m, Tail(s))
<1>1. Head(s) \in Range(s) /\ Tail(s) \in Seq(AnyTask) /\ Planned(Tail(s))
  BY PlannedTail
<1>2. PICK l \in Range(Tail(s)) : l.do = "look" /\ l.m = Head(s).m
  BY <1>1, PlannedTail DEF Planned
<1>3. Tail(s) # << >>
  <2>1. Range(<< >>) = {}
    BY RangeParts, Short
  <2> QED BY <1>2, <2>1
<1> DEFINE h == Head(Tail(s))
<1>4. (h = l \/ Before(h, l)) /\ Before(Head(s), h)
  BY <1>1, <1>3, PlannedTail
<1>5. h.do \in {"look", "place"}
  BY <1>2, <1>4 DEF Before, AtOnce, Erasures, Erasing, Preparing
<1> QED BY <1>2, <1>3, <1>5 DEF InHand

\* The desk writes one row at a time when nothing else is in hand; that match, if it is
\* unrated then, is in hand.
LEMMA RowAlone ==
  ASSUME OneInv, NEW d \in Desks, Desks = {d}, TypeInv', faults' = faults, ~Idle(d), Go(d),
         Head(todo[d]).do \notin Preparing \cup {"place", "rate", "look"},
         NEW m \in Matches, NEW new \in RowType, row' = [row EXCEPT ![m] = new],
         Head(todo[d]).do \in Erasing => Head(todo[d]).m = m,
         new.rated # NoPair => new.status \in Decided /\ new.rated = <<new.win, new.lose>>,
         new.status \in Open => new.win = None /\ new.lose = None,
         new.status \in Decided => InHand(m, Tail(todo[d]))
  PROVE  OneInv'
<1>1. /\ Handled(todo[d]) /\ TypeInv /\ Tidy /\ todo[d] \in Seq(AnyTask) /\ Planned(todo[d])
  BY Working
<1>2. \A n \in Matches : Unrated(n)' => InHand(n, Tail(todo[d]))
  <2> SUFFICES ASSUME NEW n \in Matches, Unrated(n)' PROVE InHand(n, Tail(todo[d]))
    OBVIOUS
  <2>1. row'[m] = new /\ (n # m => (Unrated(n)' <=> Unrated(n)))
    BY <1>1, OneRowTidy
  <2>2. CASE n = m
    BY <2>1, <2>2 DEF Unrated, IsDecided
  <2>3. CASE n # m
    <3>1. InHand(n, todo[d])
      BY <1>1, <2>1, <2>3 DEF Handled
    <3>2. Head(todo[d]).do \in Erasing
      BY <3>1 DEF InHand, Preparing
    <3> QED BY <1>1, <2>3, <3>1, <3>2, OwnInHand
  <2> QED BY <2>2, <2>3
<1> QED BY <1>2, RowGo

\* A request carried out on the row that was read, or refused.
LEMMA SwapOne ==
  ASSUME OneInv, NEW d \in Desks, Desks = {d}, TypeInv', faults' = faults, ~Idle(d),
         Head(todo[d]).do \notin Preparing \cup {"place", "rate", "look"},
         NEW m \in Matches, NEW holds, NEW new \in RowType, CompareAndSwap(d, m, holds, new),
         Head(todo[d]).do \in Erasing => Head(todo[d]).m = m /\ holds,
         holds => (new.rated # NoPair => new.status \in Decided /\ new.rated = <<new.win, new.lose>>),
         holds => (new.status \in Open => new.win = None /\ new.lose = None),
         holds => (new.status \in Decided => InHand(m, Tail(todo[d])))
  PROVE  OneInv'
<1>1. CASE holds
  BY <1>1, RowAlone DEF CompareAndSwap
<1>2. CASE ~holds
  BY <1>2, StopSame DEF CompareAndSwap, Preparing
<1> QED BY <1>1, <1>2

\* A result is written on a row that still shows what was read.
LEMMA WriteOne ==
  ASSUME OneInv, NEW d \in Desks, Desks = {d}, TypeInv', Write(d)
  PROVE  OneInv'
<1> DEFINE k == Head(todo[d])
           r == row[k.m]
           holds == r.status = k.was.status /\ (k.to = "completed" => SameOccupants(r, k.was))
<1>1. ~Idle(d) /\ k.do = "write" /\ faults' = faults
  BY DEF Write, Doing, Idle
<1>2. /\ k \in AnyWrite /\ k \in Range(todo[d]) /\ TypeInv /\ Tidy
      /\ Fits(todo[d]) /\ Planned(todo[d]) /\ todo[d] \in Seq(AnyTask) /\ todo[d] # << >>
  BY <1>1, Working, FieldsOf
<1>3. PICK m \in Matches : m = k.m
  BY <1>2 DEF AnyWrite
<1>4. /\ r \in RowType /\ k.to \in Decided /\ k.to \in Status
      /\ k.win \in Occupant /\ k.lose \in Occupant
  BY <1>2, <1>3, Statuses DEF AnyWrite, TypeInv, Status
<1>5. PICK new : new = [r EXCEPT !.status = k.to, !.win = k.win, !.lose = k.lose]
  OBVIOUS
<1>6. /\ new \in RowType /\ new.status = k.to /\ new.win = k.win /\ new.lose = k.lose
      /\ new.rated = r.rated
  BY <1>4, <1>5 DEF RowType, Occupant
<1>7. r.status \in Open
  BY <1>1, <1>2 DEF Fits, Planned, SameAs
<1>8. r.rated = NoPair
  BY <1>2, <1>3, <1>7, Statuses DEF Tidy, RatedIsResult, IsDecided
<1>9. new.rated = NoPair /\ new.status \notin Open
  BY <1>4, <1>6, <1>8, Statuses
<1>10. InHand(m, Tail(todo[d]))
  BY <1>1, <1>2, <1>3, LookedAt
<1>11. CompareAndSwap(d, m, holds, new)
  BY <1>3, <1>5 DEF Write
<1>12. k.do \notin Preparing \cup {"place", "rate", "look"} /\ k.do \notin Erasing
  BY <1>1 DEF Preparing, Erasing
<1> HIDE DEF k, holds
<1> QED BY <1>1, <1>6, <1>9, <1>10, <1>11, <1>12, SwapOne DEF k

\* A result is never taken back off where no request fails.
LEMMA RestoreOne ==
  ASSUME OneInv, NEW d \in Desks, Desks = {d}, TypeInv', Restore(d)
  PROVE  OneInv'
<1>1. ~Idle(d) /\ Head(todo[d]).do = "restore"
  BY DEF Restore, Doing, Idle
<1>2. Planned(todo[d]) /\ Head(todo[d]) \in Range(todo[d])
  BY <1>1, Working
<1> QED BY <1>1, <1>2 DEF Planned

\* A match that was found to have both entries is ready.
LEMMA ReadyOne ==
  ASSUME OneInv, NEW d \in Desks, Desks = {d}, TypeInv', Ready(d)
  PROVE  OneInv'
<1> DEFINE k == Head(todo[d])
           r == row[k.m]
<1>1. ~Idle(d) /\ k.do = "ready" /\ faults' = faults /\ Go(d)
  BY DEF Ready, Doing, Idle
<1>2. /\ k \in SettleTask /\ k \in Range(todo[d]) /\ TypeInv /\ Tidy /\ Fits(todo[d])
  BY <1>1, Working, FieldsOf
<1>3. PICK m \in Matches : m = k.m
  BY <1>2 DEF SettleTask
<1>4. r \in RowType /\ "ready" \in Status
  BY <1>2, <1>3, Statuses DEF TypeInv
<1>5. CASE row' = row
  BY <1>1, <1>5, GoSame DEF Erasing
<1>6. CASE r.status \in {"pending", "ready"} /\ row' = [row EXCEPT ![k.m].status = "ready"]
  <2>1. PICK new : new = [r EXCEPT !.status = "ready"]
    OBVIOUS
  <2>2. /\ new \in RowType /\ new.status = "ready" /\ new.rated = r.rated
        /\ new.win = r.win /\ new.lose = r.lose /\ new.a = r.a /\ new.b = r.b
    BY <1>4, <2>1 DEF RowType
  <2>3. row' = [row EXCEPT ![m] = new]
    BY <1>2, <1>3, <1>6, <2>1 DEF TypeInv
  <2>4. r.rated = NoPair /\ r.win = None /\ r.lose = None
    BY <1>2, <1>3, <1>6, Statuses DEF Tidy, RatedIsResult, IsDecided
  <2>5. new.status \notin Decided
    BY <2>2, Statuses
  <2>6. k.do \notin Preparing \cup {"place", "rate", "look"} /\ k.do \notin Erasing
    BY <1>1 DEF Preparing, Erasing
  <2> HIDE DEF k, r
  <2> QED BY <1>1, <2>2, <2>3, <2>4, <2>5, <2>6, RowAlone DEF k
<1> QED BY <1>5, <1>6 DEF Ready

\* A match is called to a court, or back from it.
LEMMA LiveOne ==
  ASSUME OneInv, NEW d \in Desks, Desks = {d}, TypeInv', WriteLive(d)
  PROVE  OneInv'
<1> DEFINE k == Head(todo[d])
           r == row[k.m]
<1>1. ~Idle(d) /\ k.do = "call" /\ faults' = faults
  BY DEF WriteLive, Doing, Idle
<1>2. /\ k \in CallTask /\ k \in Range(todo[d]) /\ TypeInv /\ Tidy /\ Fits(todo[d])
  BY <1>1, Working, FieldsOf
<1>3. PICK m \in Matches : m = k.m
  BY <1>2 DEF CallTask
<1>4. r \in RowType /\ k.from \in Open
  BY <1>2, <1>3 DEF TypeInv, CallTask, Open
<1>5. PICK new : new = [r EXCEPT !.status = IF k.from = "live" THEN "ready" ELSE "live"]
  OBVIOUS
<1>6. /\ new \in RowType /\ new.status \in {"ready", "live"} /\ new.rated = r.rated
      /\ new.win = r.win /\ new.lose = r.lose /\ new.a = r.a /\ new.b = r.b
  <2>1. PICK to \in Status : to = IF k.from = "live" THEN "ready" ELSE "live"
    BY Statuses
  <2>2. new = [r EXCEPT !.status = to] /\ to \in {"ready", "live"}
    BY <1>5, <2>1
  <2> QED BY <1>4, <2>2 DEF RowType
<1>7. PICK holds : holds = (r.status = k.from)
  OBVIOUS
<1>8. CompareAndSwap(d, m, holds, new)
  BY <1>3, <1>5, <1>7 DEF WriteLive
<1>9. holds => r.rated = NoPair /\ r.win = None /\ r.lose = None
  BY <1>2, <1>3, <1>4, <1>7, Statuses DEF Tidy, RatedIsResult, IsDecided
<1>10. new.status \notin Decided
  BY <1>6, Statuses
<1>11. k.do \notin Preparing \cup {"place", "rate", "look"} /\ k.do \notin Erasing
  BY <1>1 DEF Preparing, Erasing
<1> HIDE DEF k, r
<1> QED BY <1>1, <1>6, <1>8, <1>9, <1>10, <1>11, SwapOne DEF k

\* A side is filled or emptied by hand.
LEMMA SeatOne ==
  ASSUME OneInv, NEW d \in Desks, Desks = {d}, TypeInv', WriteSeat(d)
  PROVE  OneInv'
<1> DEFINE k == Head(todo[d])
           r == row[k.m]
           status == IF k.e # None /\ k.was[Other(k.side)] # None THEN "ready" ELSE "pending"
<1>1. ~Idle(d) /\ k.do = "seat" /\ faults' = faults
  BY DEF WriteSeat, Doing, Idle
<1>2. /\ k \in AnySeat /\ k \in Range(todo[d]) /\ TypeInv /\ Tidy /\ Planned(todo[d])
  BY <1>1, Working, FieldsOf
<1>3. PICK m \in Matches, side \in Sides, e \in Occupant : m = k.m /\ side = k.side /\ e = k.e
  BY <1>2 DEF AnySeat
<1>4. r \in RowType /\ k.was.status \in Open
  BY <1>1, <1>2, <1>3 DEF TypeInv, Planned
<1>5. PICK to \in Status : to = status
  BY Statuses
<1>6. PICK new : new = [[r EXCEPT ![side] = e] EXCEPT !.status = to]
  OBVIOUS
<1>7. PICK mid : mid = [r EXCEPT ![side] = e]
  OBVIOUS
<1>8. /\ mid \in RowType /\ mid[side] = e /\ mid[Other(side)] = r[Other(side)]
      /\ mid.win = r.win /\ mid.lose = r.lose /\ mid.rated = r.rated
  BY <1>4, <1>7, SideRow
<1>9. /\ new \in RowType /\ new.status = to /\ new.win = mid.win /\ new.lose = mid.lose
      /\ new.rated = mid.rated /\ new.a = mid.a /\ new.b = mid.b
  <2>1. new = [mid EXCEPT !.status = to]
    BY <1>6, <1>7
  <2> QED BY <1>8, <2>1 DEF RowType
<1>10. PICK holds : holds = (r.status = k.was.status /\ \A s \in Sides : r[s] = k.was[s])
  OBVIOUS
<1>11. CompareAndSwap(d, m, holds, new)
  BY <1>3, <1>5, <1>6, <1>10 DEF WriteSeat
<1>12. holds => r.rated = NoPair /\ r.win = None /\ r.lose = None
  BY <1>2, <1>3, <1>4, <1>10, Statuses DEF Tidy, RatedIsResult, IsDecided
<1>13. to \in {"pending", "ready"} /\ to \notin Decided
  BY <1>5, Statuses
<1>14. k.do \notin Preparing \cup {"place", "rate", "look"} /\ k.do \notin Erasing
  BY <1>1 DEF Preparing, Erasing
<1> HIDE DEF k, r
<1> QED BY <1>1, <1>8, <1>9, <1>11, <1>12, <1>13, <1>14, SwapOne DEF k

-----------------------------------------------------------------------------
(* The requests that erase or correct a result.                            *)

\* By the time a row is erased or corrected, its rating has been taken back.
LEMMA Unreversed ==
  ASSUME NEW s \in Seq(AnyTask), s # << >>, Planned(s), Fits(s), Head(s).do \in Erasures
  PROVE  row[Head(s).m].rated = NoPair
<1>1. Head(s) \in Range(s) /\ \A l \in Range(s) : l = Head(s) \/ Before(Head(s), l)
  BY PlannedTail
<1>2. \A l \in Range(s) : l.do # "reverse"
  BY <1>1 DEF Before, Erasures, Erasing
<1> QED BY <1>1, <1>2 DEF Fits

\* What was read of a row is what it shows.
LEMMA SameSides ==
  ASSUME NEW r, NEW was, SameAs(r, was)
  PROVE  r.status = was.status /\ SameOccupants(r, was)
  BY DEF SameAs, SameOccupants, Sides

\* A match is voided, with the result it had.
LEMMA VoidOne ==
  ASSUME OneInv, NEW d \in Desks, Desks = {d}, TypeInv', WriteVoid(d)
  PROVE  OneInv'
<1> DEFINE k == Head(todo[d])
           r == row[k.m]
<1>1. ~Idle(d) /\ k.do = "void" /\ faults' = faults /\ k.do \in Erasures
  BY DEF WriteVoid, Doing, Idle, Erasures, Erasing
<1>2. /\ k \in VoidTask /\ k \in Range(todo[d]) /\ TypeInv /\ Tidy
      /\ Fits(todo[d]) /\ Planned(todo[d]) /\ todo[d] \in Seq(AnyTask) /\ todo[d] # << >>
  BY <1>1, Working, FieldsOf
<1>3. PICK m \in Matches : m = k.m
  BY <1>2 DEF VoidTask
<1>4. r \in RowType /\ SameAs(r, k.was) /\ r.rated = NoPair
  BY <1>1, <1>2, <1>3, Unreversed DEF TypeInv, Fits
<1>5. PICK new : new = [r EXCEPT !.status = "voided"]
  OBVIOUS
<1>6. new \in RowType /\ new.status = "voided" /\ new.rated = NoPair
  BY <1>4, <1>5 DEF RowType, Status
<1>7. MayErase(r, k.was)
  BY <1>4, SameSides DEF MayErase
<1>8. CompareAndSwap(d, m, TRUE, new)
  BY <1>3, <1>5, <1>7 DEF WriteVoid, CompareAndSwap
<1>9. "voided" \notin Decided \cup Open \cup {"ready", "live"}
  BY DEF Decided, Open
<1>10. k.do \notin Preparing \cup {"place", "rate", "look"}
  BY <1>1 DEF Preparing
<1> HIDE DEF k, r
<1> QED BY <1>1, <1>3, <1>6, <1>8, <1>9, <1>10, SwapOne DEF k

\* Neither side of a match turned up.
LEMMA NoShowOne ==
  ASSUME OneInv, NEW d \in Desks, Desks = {d}, TypeInv', WriteNoShow(d)
  PROVE  OneInv'
<1> DEFINE k == Head(todo[d])
           r == row[k.m]
<1>1. ~Idle(d) /\ k.do = "noshow" /\ faults' = faults /\ k.do \in Erasures
  BY DEF WriteNoShow, Doing, Idle, Erasures
<1>2. /\ k \in VoidTask /\ k \in Range(todo[d]) /\ TypeInv /\ Tidy
      /\ Fits(todo[d]) /\ Planned(todo[d]) /\ todo[d] \in Seq(AnyTask) /\ todo[d] # << >>
  BY <1>1, Working, FieldsOf
<1>3. PICK m \in Matches : m = k.m
  BY <1>2 DEF VoidTask
<1>4. r \in RowType /\ r.rated = NoPair
  BY <1>1, <1>2, <1>3, Unreversed DEF TypeInv
<1>5. PICK new : new = [r EXCEPT !.status = "voided", !.win = None, !.lose = None]
  OBVIOUS
<1>6. new \in RowType /\ new.status = "voided" /\ new.rated = NoPair
  BY <1>4, <1>5 DEF RowType, Status, Occupant
<1>7. PICK holds : holds = MayErase(r, k.was)
  OBVIOUS
<1>8. CompareAndSwap(d, m, holds, new)
  BY <1>3, <1>5, <1>7 DEF WriteNoShow
<1>9. "voided" \notin Decided \cup Open \cup {"ready", "live"}
  BY DEF Decided, Open
<1>10. k.do \notin Preparing \cup {"place", "rate", "look"} /\ k.do \notin Erasing
  BY <1>1 DEF Preparing, Erasing
<1> HIDE DEF k, r
<1> QED BY <1>1, <1>6, <1>8, <1>9, <1>10, SwapOne DEF k

\* A match is restored, or its result undone: it is open again, and ready if both its
\* entries are known.
LEMMA ResetOne ==
  ASSUME OneInv, NEW d \in Desks, Desks = {d}, TypeInv', WriteUnvoid(d) \/ WriteUndo(d)
  PROVE  OneInv'
<1> DEFINE k == Head(todo[d])
           r == row[k.m]
<1>1. ~Idle(d) /\ k.do \in {"unvoid", "undo"} /\ faults' = faults /\ k.do \in Erasures
  BY DEF WriteUnvoid, WriteUndo, Doing, Idle, Erasures, Erasing
<1>2. /\ k \in ResetTask /\ k \in Range(todo[d]) /\ TypeInv /\ Tidy
      /\ Fits(todo[d]) /\ Planned(todo[d]) /\ todo[d] \in Seq(AnyTask) /\ todo[d] # << >>
  BY <1>1, Working, FieldsOf
<1>3. PICK m \in Matches : m = k.m
  BY <1>2 DEF ResetTask
<1>4. r \in RowType /\ r.rated = NoPair /\ k.to = Playable(r)
  BY <1>1, <1>2, <1>3, Unreversed DEF TypeInv, Fits
<1>5. PICK new : new = [r EXCEPT !.status = k.to, !.win = None, !.lose = None]
  OBVIOUS
<1>6. PICK to \in {"pending", "ready"} : to = k.to
  BY <1>2 DEF ResetTask
<1>7. /\ new \in RowType /\ new.status = to /\ new.rated = NoPair
      /\ new.win = None /\ new.lose = None /\ new.a = r.a /\ new.b = r.b
  <2>1. to \in Status
    BY <1>6, Statuses
  <2>2. new = [r EXCEPT !.status = to, !.win = None, !.lose = None]
    BY <1>5, <1>6
  <2> QED BY <1>4, <2>1, <2>2 DEF RowType, Occupant
<1>9. PICK holds : /\ holds = (k.do = "unvoid" => r.status = "voided")
  OBVIOUS
<1>10. CompareAndSwap(d, m, holds, new)
  BY <1>3, <1>5, <1>9 DEF WriteUnvoid, WriteUndo, Doing, CompareAndSwap
<1>11. to \notin Decided
  BY Statuses
<1>12. k.do \in Erasing => holds
  BY <1>9 DEF Erasing
<1>13. k.do \notin Preparing \cup {"place", "rate", "look"}
  BY <1>1 DEF Preparing
<1> HIDE DEF k, r
<1> QED BY <1>1, <1>3, <1>7, <1>10, <1>11, <1>12, <1>13, SwapOne DEF k

\* A result is corrected.
LEMMA EditOne ==
  ASSUME OneInv, NEW d \in Desks, Desks = {d}, TypeInv', WriteEdit(d)
  PROVE  OneInv'
<1> DEFINE k == Head(todo[d])
           r == row[k.m]
<1>1. ~Idle(d) /\ k.do = "edit" /\ faults' = faults /\ k.do \in Erasures
  BY DEF WriteEdit, Doing, Idle, Erasures, Erasing
<1>2. /\ k \in EditTask /\ k \in Range(todo[d]) /\ TypeInv /\ Tidy
      /\ Fits(todo[d]) /\ Planned(todo[d]) /\ todo[d] \in Seq(AnyTask) /\ todo[d] # << >>
  BY <1>1, Working, FieldsOf
<1>3. PICK m \in Matches : m = k.m
  BY <1>2 DEF EditTask
<1>4. /\ r \in RowType /\ SameAs(r, k.was) /\ r.rated = NoPair
      /\ k.to \in Decided /\ k.to \in Status
      /\ k.win \in Occupant /\ k.lose \in Occupant
  <2>1. k.to \in Decided /\ k.to \in Status
    BY <1>2, Statuses DEF EditTask
  <2>2. k.win \in Occupant /\ k.lose \in Occupant
    BY <1>2 DEF EditTask
  <2> QED BY <1>1, <1>2, <1>3, <2>1, <2>2, Unreversed DEF TypeInv, Fits
<1>5. PICK new : new = [r EXCEPT !.status = k.to, !.win = k.win, !.lose = k.lose]
  OBVIOUS
<1>6. new \in RowType /\ new.status = k.to /\ new.rated = NoPair
  BY <1>4, <1>5 DEF RowType, Occupant
<1>7. new.status \notin Open
  BY <1>4, <1>6, Statuses
<1>8. CompareAndSwap(d, m, TRUE, new)
  BY <1>3, <1>4, <1>5, SameSides DEF WriteEdit, CompareAndSwap
<1>9. InHand(m, Tail(todo[d]))
  BY <1>1, <1>2, <1>3, LookedAt
<1>10. k.do \notin Preparing \cup {"place", "rate", "look"}
  BY <1>1 DEF Preparing
<1> HIDE DEF k, r
<1> QED BY <1>1, <1>3, <1>6, <1>7, <1>8, <1>9, <1>10, SwapOne DEF k

\* The rating of a match is taken back, for an erasure or a correction to follow.
LEMMA ReverseOne ==
  ASSUME OneInv, NEW d \in Desks, Desks = {d}, TypeInv', Reverse(d)
  PROVE  OneInv'
<1> DEFINE k == Head(todo[d])
           r == row[k.m]
<1>1. ~Idle(d) /\ k.do = "reverse" /\ faults' = faults /\ Go(d)
  BY DEF Reverse, Doing, Idle
<1>2. PICK s : s = todo[d]
  OBVIOUS
<1>3. /\ k \in GuardTask /\ k \in Range(s) /\ TypeInv /\ Tidy /\ Handled(s)
      /\ Fits(s) /\ Planned(s) /\ s \in Seq(AnyTask) /\ s # << >>
  BY <1>1, <1>2, Working, FieldsOf
<1>4. PICK m \in Matches : m = k.m
  BY <1>3 DEF GuardTask
<1>5. PICK new : new = [r EXCEPT !.rated = NoPair]
  OBVIOUS
<1>6. /\ r \in RowType /\ new \in RowType /\ new.rated = NoPair
      /\ new.status = r.status /\ new.win = r.win /\ new.lose = r.lose
      /\ new.a = r.a /\ new.b = r.b
  <2>1. r \in RowType
    BY <1>3, <1>4 DEF TypeInv
  <2> QED BY <1>5, <2>1 DEF RowType
<1>7. row' = [row EXCEPT ![m] = new]
  BY <1>3, <1>4, <1>5 DEF Reverse, TypeInv
<1>8. /\ Tidy' /\ row'[m] = new
      /\ \A n \in Matches : n # m => row'[n] = row[n] /\ (Unrated(n)' <=> Unrated(n))
  <2>1. new.status \in Open => new.win = None /\ new.lose = None
    BY <1>3, <1>4, <1>6 DEF Tidy
  <2> QED BY <1>3, <1>6, <1>7, <2>1, OneRowTidy
<1>9. PICK t : t = Tail(s)
  OBVIOUS
<1>10. /\ t \in Seq(AnyTask) /\ Planned(t) /\ Range(t) \subseteq Range(s)
       /\ \A l \in Range(s) : l = k \/ l \in Range(t)
       /\ \A l \in Range(t) : Before(k, l)
  BY <1>2, <1>3, <1>9, PlannedTail
<1>11. \A l \in Range(t) :
          /\ l.do \in Erasures =>
                 /\ SameAs(row'[l.m], row[l.m]) /\ row'[l.m].rated \in {row[l.m].rated, NoPair}
                 /\ k.do = "reverse" /\ k.m = l.m => row'[l.m].rated = NoPair
          /\ l.do = "settle" => row'[l.m].status \in Open
  <2> TAKE l \in Range(t)
  <2>1. l.do # "settle"
    BY <1>1, <1>10 DEF Before
  <2>2. CASE l.do \in Erasures
    <3>1. l \in AnyTask
      BY <1>3, <1>10, RangeParts
    <3>2. l.m \in Matches
      BY <2>2, <3>1, FieldsOf DEF Erasures, Erasing, VoidTask, ResetTask, EditTask
    <3>3. CASE l.m = m
      BY <1>4, <1>6, <1>8, <2>1, <3>3 DEF SameAs
    <3>4. CASE l.m # m
      BY <1>4, <1>8, <2>1, <3>2, <3>4 DEF SameAs
    <3> QED BY <3>3, <3>4
  <2> QED BY <2>1, <2>2
<1>12. InHand(m, t)
  <2>1. PICK l \in Range(t) : l.do \in Erasing /\ l.m = m
    BY <1>1, <1>3, <1>4, <1>10 DEF Planned, Erasing
  <2>2. t # << >>
    <3>1. Range(<< >>) = {}
      BY <1>3, RangeParts, Short
    <3> QED BY <2>1, <3>1
  <2>3. Head(t) \in Range(t) /\ (Head(t) = l \/ Before(Head(t), l)) /\ Before(k, Head(t))
    BY <1>10, <2>1, <2>2, PlannedTail
  <2>4. Head(t).do \in {"find", "clear"} \cup Erasing
    BY <1>1, <2>1, <2>3 DEF Before, Erasures, Preparing
  <2> QED BY <2>1, <2>2, <2>4 DEF InHand
<1>13. \A n \in Matches : Unrated(n)' => InHand(n, t)
  <2> SUFFICES ASSUME NEW n \in Matches, Unrated(n)', n # m PROVE FALSE
    BY <1>12
  <2>1. InHand(n, s)
    BY <1>3, <1>8 DEF Handled
  <2> QED BY <1>1, <1>2, <2>1 DEF InHand, Erasing
<1>14. Handled(t)'
  BY <1>2, <1>3, <1>9, <1>11, <1>13, GoHandled
<1>15. todo' = [todo EXCEPT ![d] = t]
  BY <1>1, <1>2, <1>3, <1>9, GoLeaves
<1> QED BY <1>1, <1>8, <1>14, <1>15, DeskStep

\* A slot that a result filled is emptied: a match that was ready waits again.
LEMMA ClearOne ==
  ASSUME OneInv, NEW d \in Desks, Desks = {d}, TypeInv', Clear(d)
  PROVE  OneInv'
<1> DEFINE k == Head(todo[d])
           r == row[k.slot[1]]
<1>1. ~Idle(d) /\ k.do = "clear" /\ faults' = faults /\ Go(d)
  BY DEF Clear, Doing, Idle
<1>2. PICK s : s = todo[d]
  OBVIOUS
<1>3. /\ k \in ClearTask /\ k \in Range(s) /\ TypeInv /\ Tidy /\ Handled(s)
      /\ Fits(s) /\ Planned(s) /\ s \in Seq(AnyTask) /\ s # << >>
  BY <1>1, <1>2, Working, FieldsOf
<1>4. PICK m \in Matches, side \in Sides : m = k.slot[1] /\ side = k.slot[2]
  BY <1>3 DEF ClearTask, Slots
<1>5. CASE row' = row
  BY <1>1, <1>5, GoSame DEF Erasing
<1>6. CASE row' = [row EXCEPT ![k.slot[1]] = [[@ EXCEPT ![k.slot[2]] = None] EXCEPT !.status = k.to]]
  <2>1. r \in RowType /\ k.to \in Status /\ k.to = Emptied(r) /\ None \in Occupant
    BY <1>1, <1>3, <1>4 DEF TypeInv, ClearTask, Fits, Occupant
  <2>2. PICK mid : mid = [r EXCEPT ![side] = None]
    OBVIOUS
  <2>3. /\ mid \in RowType
        /\ mid.status = r.status /\ mid.win = r.win /\ mid.lose = r.lose /\ mid.rated = r.rated
    BY <2>1, <2>2, SideRow
  <2>4. PICK to \in Status : to = k.to
    BY <2>1
  <2>5. PICK new : new = [mid EXCEPT !.status = to]
    OBVIOUS
  <2>6. /\ new \in RowType /\ new.status = to
        /\ new.win = r.win /\ new.lose = r.lose /\ new.rated = r.rated
    BY <2>3, <2>5 DEF RowType
  <2>7. row' = [row EXCEPT ![m] = new]
    BY <1>3, <1>4, <1>6, <2>2, <2>4, <2>5 DEF TypeInv
  <2>8. /\ to \notin {"ready", "live"}
        /\ r.status \notin {"ready", "live"} => to = r.status
        /\ r.status \in {"ready", "live"} => to = "pending"
    BY <2>1, <2>4 DEF Emptied
  <2>9. /\ to \in Open => r.status \in Open
        /\ to \in Decided => r.status = to
        /\ r.status \in Decided => r.status = to
    BY <2>8, Statuses
  <2>10. /\ Tidy' /\ row'[m] = new
         /\ \A n \in Matches : n # m => row'[n] = row[n] /\ (Unrated(n)' <=> Unrated(n))
    <3>1. new.status \in Open => new.win = None /\ new.lose = None
      BY <1>3, <1>4, <2>6, <2>9 DEF Tidy
    <3>2. new.rated # NoPair => new.status \in Decided /\ new.rated = <<new.win, new.lose>>
      BY <1>3, <1>4, <2>6, <2>9 DEF Tidy, RatedIsResult, IsDecided
    <3> QED BY <1>3, <2>6, <2>7, <2>8, <3>1, <3>2, OneRowTidy
  <2>11. PICK t : t = Tail(s)
    OBVIOUS
  <2>12. /\ t \in Seq(AnyTask) /\ Range(t) \subseteq Range(s)
         /\ \A l \in Range(t) : Before(k, l)
    BY <1>2, <1>3, <2>11, PlannedTail
  <2>13. \A l \in Range(t) :
            /\ l.do \in Erasures =>
                   /\ SameAs(row'[l.m], row[l.m]) /\ row'[l.m].rated \in {row[l.m].rated, NoPair}
                   /\ k.do = "reverse" /\ k.m = l.m => row'[l.m].rated = NoPair
            /\ l.do = "settle" => row'[l.m].status \in Open
    <3> TAKE l \in Range(t)
    <3>1. l.do # "settle"
      BY <1>1, <2>12 DEF Before
    <3>2. CASE l.do \in Erasures
      <4>1. l \in AnyTask
        BY <1>3, <2>12, RangeParts
      <4>2. l.m \in Matches
        BY <3>2, <4>1, FieldsOf DEF Erasures, Erasing, VoidTask, ResetTask, EditTask
      <4>3. l.m # m
        BY <1>1, <1>4, <2>12, <3>2 DEF Before
      <4> QED BY <1>1, <2>10, <3>1, <4>2, <4>3 DEF SameAs
    <3> QED BY <3>1, <3>2
  <2>14. \A n \in Matches : Unrated(n)' => InHand(n, t)
    <3> SUFFICES ASSUME NEW n \in Matches, Unrated(n)' PROVE InHand(n, t)
      OBVIOUS
    <3>1. Unrated(n)
      <4>1. CASE n = m
        BY <1>4, <2>6, <2>9, <2>10, <4>1 DEF Unrated, IsDecided, Contested
      <4>2. CASE n # m
        BY <2>10, <4>2
      <4> QED BY <4>1, <4>2
    <3>2. InHand(n, s)
      BY <1>3, <3>1 DEF Handled
    <3> QED BY <1>1, <1>2, <1>3, <2>11, <3>2, StillInHand
  <2>15. Handled(t)'
    BY <1>2, <1>3, <2>11, <2>13, <2>14, GoHandled
  <2>16. todo' = [todo EXCEPT ![d] = t]
    BY <1>1, <1>2, <1>3, <2>11, GoLeaves
  <2> QED BY <1>1, <2>10, <2>15, <2>16, DeskStep
<1> QED BY <1>5, <1>6 DEF Clear

\* Every request of the desk.
LEMMA RequestOne ==
  ASSUME OneInv, NEW d \in Desks, Desks = {d}, TypeInv', Request(d)
  PROVE  OneInv'
<1>1. CASE Write(d) \/ Look(d) \/ Rate(d) \/ Restore(d)
  BY <1>1, WriteOne, LookOne, RateOne, RestoreOne
<1>2. CASE Route(d) \/ Place(d) \/ Settle(d) \/ Ready(d) \/ List(d) \/ Forfeit(d)
  BY <1>2, RouteOne, PlaceOne, SettleOne, ReadyOne, ListOne, ForfeitOne
<1>3. CASE Guard(d) \/ Mark(d) \/ Reverse(d) \/ Find(d) \/ Clear(d)
  BY <1>3, GuardOne, ReverseOne, FindOne, ClearOne
<1>4. CASE WriteVoid(d) \/ WriteNoShow(d) \/ WriteUnvoid(d) \/ WriteUndo(d) \/ WriteEdit(d)
  BY <1>4, VoidOne, NoShowOne, ResetOne, EditOne
<1>5. CASE WriteSeat(d) \/ WriteLive(d)
  BY <1>5, SeatOne, LiveOne
<1> QED BY <1>1, <1>2, <1>3, <1>4, <1>5 DEF Request

-----------------------------------------------------------------------------
(* Operations begin.                                                       *)

\* Two lists of requests, one behind the other.
LEMMA Behind ==
  ASSUME NEW s \in Seq(AnyTask), NEW t \in Seq(AnyTask), Ordered(s), Ordered(t),
         \A k \in Range(s), l \in Range(t) : Before(k, l)
  PROVE  s \o t \in Seq(AnyTask) /\ Ordered(s \o t) /\ Range(s \o t) = Range(s) \cup Range(t)
  BY OrderedJoin, Joined, RangeConcatenation

\* One request, or none.
LEMMA AtMostOne ==
  ASSUME NEW k \in AnyTask, NEW s, s = << >> \/ s = <<k>>
  PROVE  s \in Seq(AnyTask) /\ Ordered(s) /\ \A l \in Range(s) : l = k
<1>1. CASE s = << >>
  BY <1>1, Short
<1>2. CASE s = <<k>>
  BY <1>2, Short
<1> QED BY <1>1, <1>2

\* The two guards of an erasure.
LEMMA GuardPart ==
  ASSUME NEW m \in Matches
  PROVE  /\ GuardTasks(m) \in Seq(AnyTask) /\ Ordered(GuardTasks(m))
         /\ \A l \in Range(GuardTasks(m)) : l.do = "guard"
<1>1. ASSUME NEW slot \in Slots \cup {NoSlot}
      PROVE  /\ OnSlot(slot, [do |-> "guard", m |-> slot[1]]) \in Seq(AnyTask)
             /\ Ordered(OnSlot(slot, [do |-> "guard", m |-> slot[1]]))
             /\ \A l \in Range(OnSlot(slot, [do |-> "guard", m |-> slot[1]])) : l.do = "guard"
  <2>1. PICK s : s = OnSlot(slot, [do |-> "guard", m |-> slot[1]])
    OBVIOUS
  <2>2. CASE slot = NoSlot
    <3>1. s = << >>
      BY <2>1, <2>2 DEF OnSlot
    <3>2. PICK k \in AnyTask : k.do = "guard"
      <4>1. [do |-> "guard", m |-> m] \in GuardTask
        BY DEF GuardTask
      <4> QED BY <4>1 DEF AnyTask, OnMatch
    <3> QED BY <2>1, <3>1, <3>2, AtMostOne
  <2>3. CASE slot # NoSlot
    <3>1. PICK k : k = [do |-> "guard", m |-> slot[1]]
      OBVIOUS
    <3>2. k \in GuardTask /\ k.do = "guard"
      BY <2>3, <3>1, SlotOf DEF GuardTask
    <3>3. k \in AnyTask /\ s = <<k>>
      BY <2>1, <2>3, <3>1, <3>2 DEF OnSlot, AnyTask, OnMatch
    <3> QED BY <2>1, <3>2, <3>3, AtMostOne
  <2> QED BY <2>2, <2>3
<1>2. WinnerTo[m] \in Slots \cup {NoSlot} /\ LoserTo[m] \in Slots \cup {NoSlot}
  BY BracketAssumption DEF BracketAssumption
<1>3. PICK s, t : /\ s = OnSlot(WinnerTo[m], [do |-> "guard", m |-> WinnerTo[m][1]])
                  /\ t = OnSlot(LoserTo[m], [do |-> "guard", m |-> LoserTo[m][1]])
  OBVIOUS
<1>4. /\ s \in Seq(AnyTask) /\ Ordered(s) /\ \A l \in Range(s) : l.do = "guard"
      /\ t \in Seq(AnyTask) /\ Ordered(t) /\ \A l \in Range(t) : l.do = "guard"
  BY <1>1, <1>2, <1>3
<1>5. \A k \in Range(s), l \in Range(t) : Before(k, l)
  BY <1>4 DEF Before, AtOnce, Erasures, Erasing
<1>6. s \o t \in Seq(AnyTask) /\ Ordered(s \o t) /\ Range(s \o t) = Range(s) \cup Range(t)
  BY <1>4, <1>5, Behind
<1>7. GuardTasks(m) = s \o t
  BY <1>3 DEF GuardTasks
<1> QED BY <1>4, <1>6, <1>7

\* The rating that is taken back, if there is one.
LEMMA ReversePart ==
  ASSUME NEW m \in Matches, NEW was \in RowType
  PROVE  /\ ReverseTasks(m, was) \in Seq(AnyTask) /\ Ordered(ReverseTasks(m, was))
         /\ \A l \in Range(ReverseTasks(m, was)) : l.do = "reverse" /\ l.m = m
         /\ was.rated = NoPair => ReverseTasks(m, was) = << >>
         /\ was.rated # NoPair => \E l \in Range(ReverseTasks(m, was)) : l.do = "reverse" /\ l.m = m
<1>1. PICK k : k = [do |-> "reverse", m |-> m]
  OBVIOUS
<1>2. PICK s : s = ReverseTasks(m, was)
  OBVIOUS
<1>3. k \in AnyTask /\ k.do = "reverse" /\ k.m = m
  BY <1>1 DEF GuardTask, AnyTask, OnMatch
<1>4. (was.rated = NoPair => s = << >>) /\ (was.rated # NoPair => s = <<k>>)
  BY <1>1, <1>2 DEF ReverseTasks
<1>5. s \in Seq(AnyTask) /\ Ordered(s) /\ \A l \in Range(s) : l = k
  BY <1>3, <1>4, AtMostOne
<1>6. was.rated # NoPair => k \in Range(s)
  BY <1>3, <1>4, Short
<1> QED BY <1>2, <1>3, <1>4, <1>5, <1>6

\* The slots that are cleared are those the match feeds.
LEMMA ClearPart ==
  ASSUME NEW m \in Matches, NEW was \in RowType
  PROVE  /\ ClearTasks(m, was) \in Seq(AnyTask) /\ Ordered(ClearTasks(m, was))
         /\ \A l \in Range(ClearTasks(m, was)) :
                /\ l.do = "find" /\ l.slot[1] # m
                /\ \/ l.slot = WinnerTo[m] /\ l.e = was.win
                   \/ l.slot = LoserTo[m] /\ l.e = was.lose
         /\ WinnerTo[m] # NoSlot /\ was.win # None =>
                \E l \in Range(ClearTasks(m, was)) :
                    l.do = "find" /\ l.slot = WinnerTo[m] /\ l.e = was.win
         /\ LoserTo[m] # NoSlot /\ was.lose # None =>
                \E l \in Range(ClearTasks(m, was)) :
                    l.do = "find" /\ l.slot = LoserTo[m] /\ l.e = was.lose
<1>1. ASSUME NEW slot \in Slots \cup {NoSlot}, NEW e \in Occupant, NEW s,
             s = IF e = None THEN << >> ELSE OnSlot(slot, [do |-> "find", slot |-> slot, e |-> e])
      PROVE  /\ s \in Seq(AnyTask) /\ Ordered(s)
             /\ \A l \in Range(s) : l.do = "find" /\ l.slot = slot /\ l.e = e
             /\ slot # NoSlot /\ e # None =>
                    \E l \in Range(s) : l.do = "find" /\ l.slot = slot /\ l.e = e
  <2>2. CASE slot = NoSlot \/ e = None
    <3>1. s = << >>
      BY <1>1, <2>2 DEF OnSlot
    <3>2. PICK k \in AnyTask : k.do = "guard"
      <4>1. [do |-> "guard", m |-> m] \in GuardTask
        BY DEF GuardTask
      <4> QED BY <4>1 DEF AnyTask, OnMatch
    <3>3. s \in Seq(AnyTask) /\ Ordered(s) /\ Range(s) = {}
      BY <3>1, <3>2, Short
    <3> QED BY <2>2, <3>3
  <2>3. CASE slot # NoSlot /\ e # None
    <3>1. PICK k : k = [do |-> "find", slot |-> slot, e |-> e]
      OBVIOUS
    <3>2. k \in FindTask /\ k.do = "find" /\ k.slot = slot /\ k.e = e
      BY <2>3, <3>1 DEF FindTask, Occupant
    <3>3. k \in AnyTask /\ s = <<k>>
      BY <1>1, <2>3, <3>1, <3>2 DEF OnSlot, AnyTask, OnSlots
    <3>4. s \in Seq(AnyTask) /\ Ordered(s) /\ Range(s) = {k}
      BY <3>3, Short
    <3> QED BY <3>2, <3>4
  <2> QED BY <2>2, <2>3
<1>2. WinnerTo[m] \in Slots \cup {NoSlot} /\ LoserTo[m] \in Slots \cup {NoSlot}
  BY BracketAssumption DEF BracketAssumption
<1>3. was.win \in Occupant /\ was.lose \in Occupant
  BY RowOf
<1>4. PICK s, t :
          /\ s = IF was.win = None THEN << >>
                 ELSE OnSlot(WinnerTo[m], [do |-> "find", slot |-> WinnerTo[m], e |-> was.win])
          /\ t = IF was.lose = None THEN << >>
                 ELSE OnSlot(LoserTo[m], [do |-> "find", slot |-> LoserTo[m], e |-> was.lose])
  OBVIOUS
<1>5. /\ s \in Seq(AnyTask) /\ Ordered(s)
      /\ \A l \in Range(s) : l.do = "find" /\ l.slot = WinnerTo[m] /\ l.e = was.win
      /\ WinnerTo[m] # NoSlot /\ was.win # None =>
             \E l \in Range(s) : l.do = "find" /\ l.slot = WinnerTo[m] /\ l.e = was.win
  BY <1>1, <1>2, <1>3, <1>4
<1>6. /\ t \in Seq(AnyTask) /\ Ordered(t)
      /\ \A l \in Range(t) : l.do = "find" /\ l.slot = LoserTo[m] /\ l.e = was.lose
      /\ LoserTo[m] # NoSlot /\ was.lose # None =>
             \E l \in Range(t) : l.do = "find" /\ l.slot = LoserTo[m] /\ l.e = was.lose
  <2>1. PICK slot \in Slots \cup {NoSlot}, e \in Occupant : slot = LoserTo[m] /\ e = was.lose
    BY <1>2, <1>3
  <2>2. t = IF e = None THEN << >> ELSE OnSlot(slot, [do |-> "find", slot |-> slot, e |-> e])
    BY <1>4, <2>1
  <2>3. /\ t \in Seq(AnyTask) /\ Ordered(t)
        /\ \A l \in Range(t) : l.do = "find" /\ l.slot = slot /\ l.e = e
        /\ slot # NoSlot /\ e # None =>
               \E l \in Range(t) : l.do = "find" /\ l.slot = slot /\ l.e = e
    BY <1>1, <2>2
  <2> QED BY <2>1, <2>3
<1>7. \A k \in Range(s), l \in Range(t) : Before(k, l)
  BY <1>5, <1>6 DEF Before, AtOnce, Erasures, Erasing, Preparing
<1>8. s \o t \in Seq(AnyTask) /\ Ordered(s \o t) /\ Range(s \o t) = Range(s) \cup Range(t)
  BY <1>5, <1>6, <1>7, Behind
<1>9. ClearTasks(m, was) = s \o t
  BY <1>4 DEF ClearTasks
<1>10. WinnerTo[m][1] # m /\ LoserTo[m][1] # m
  BY BracketAssumption DEF BracketAssumption
<1> QED BY <1>5, <1>6, <1>8, <1>9, <1>10

\* A slot that is written outright.
LEMMA PlacePart ==
  ASSUME NEW slot \in Slots \cup {NoSlot}, NEW e \in Occupant
  PROVE  /\ PlaceTasks(slot, e) \in Seq(AnyTask) /\ Ordered(PlaceTasks(slot, e))
         /\ \A l \in Range(PlaceTasks(slot, e)) : l.do = "place" /\ l.slot = slot /\ l.e = e
         /\ slot # NoSlot /\ e # None =>
                \E l \in Range(PlaceTasks(slot, e)) : l.do = "place" /\ l.slot = slot /\ l.e = e
<1>1. PICK s : s = PlaceTasks(slot, e)
  OBVIOUS
<1>2. CASE slot = NoSlot \/ e = None
  <2>1. s = << >>
    BY <1>1, <1>2 DEF PlaceTasks
  <2>2. [do |-> "mark", who |-> {}] \in AnyTask
    BY DEF AnyTask, MarkTask
  <2>3. s \in Seq(AnyTask) /\ Ordered(s) /\ Range(s) = {}
    BY <2>1, <2>2, Short
  <2> QED BY <1>1, <1>2, <2>3
<1>3. CASE slot # NoSlot /\ e # None
  <2>1. PICK k : k = [do |-> "place", slot |-> slot, e |-> e]
    OBVIOUS
  <2>2. k \in PlaceTask /\ k.do = "place" /\ k.slot = slot /\ k.e = e
    BY <1>3, <2>1 DEF PlaceTask, Occupant
  <2>3. k \in AnyTask /\ s = <<k>>
    BY <1>1, <1>3, <2>1, <2>2 DEF PlaceTasks, AnyTask, OnSlots
  <2>4. s \in Seq(AnyTask) /\ Ordered(s) /\ Range(s) = {k}
    BY <2>3, Short
  <2> QED BY <1>1, <2>2, <2>4
<1> QED BY <1>2, <1>3


\* The list of an erasure: nothing of it stands ahead of what must come first.
LEMMA ErasurePlanned ==
  ASSUME NEW m \in Matches, NEW was \in RowType, NEW q \in AnyTask,
         q.do \in {"void", "undo"}, q.m = m
  PROVE  LET s == GuardTasks(m) \o ReverseTasks(m, was) \o ClearTasks(m, was) \o <<q>>
         IN  /\ s \in Seq(AnyTask) /\ Planned(s) /\ q \in Range(s)
             /\ \A l \in Range(s) : \/ l.do = "guard"
                                    \/ l.do = "reverse" /\ l.m = m
                                    \/ l \in Range(ClearTasks(m, was))
                                    \/ l = q
             /\ Range(ClearTasks(m, was)) \subseteq Range(s)
             /\ was.rated # NoPair => \E l \in Range(s) : l.do = "reverse" /\ l.m = m
<1>0. PICK s : s = GuardTasks(m) \o ReverseTasks(m, was) \o ClearTasks(m, was) \o <<q>>
  OBVIOUS
<1>1. PICK g, r, c : g = GuardTasks(m) /\ r = ReverseTasks(m, was) /\ c = ClearTasks(m, was)
  OBVIOUS
<1>2. g \in Seq(AnyTask) /\ Ordered(g) /\ \A l \in Range(g) : l.do = "guard"
  BY <1>1, GuardPart
<1>3. /\ r \in Seq(AnyTask) /\ Ordered(r) /\ \A l \in Range(r) : l.do = "reverse" /\ l.m = m
      /\ was.rated # NoPair => \E l \in Range(r) : l.do = "reverse" /\ l.m = m
  BY <1>1, ReversePart
<1>4. /\ c \in Seq(AnyTask) /\ Ordered(c)
      /\ \A l \in Range(c) : l.do = "find" /\ l.slot[1] # m
  BY <1>1, ClearPart
<1>5. PICK gr : gr = g \o r
  OBVIOUS
<1>6. gr \in Seq(AnyTask) /\ Ordered(gr) /\ Range(gr) = Range(g) \cup Range(r)
  <2>1. \A k \in Range(g), l \in Range(r) : Before(k, l)
    BY <1>2, <1>3 DEF Before, AtOnce, Erasures, Erasing
  <2> QED BY <1>2, <1>3, <1>5, <2>1, Behind
<1>7. PICK grc : grc = gr \o c
  OBVIOUS
<1>8. grc \in Seq(AnyTask) /\ Ordered(grc) /\ Range(grc) = Range(g) \cup Range(r) \cup Range(c)
  <2>1. \A k \in Range(gr), l \in Range(c) : Before(k, l)
    BY <1>2, <1>3, <1>4, <1>6 DEF Before, AtOnce, Erasures, Erasing, Preparing
  <2>2. grc \in Seq(AnyTask) /\ Ordered(grc) /\ Range(grc) = Range(gr) \cup Range(c)
    BY <1>4, <1>6, <1>7, <2>1, Behind
  <2> QED BY <1>6, <2>2
<1>9. s = grc \o <<q>>
  BY <1>0, <1>1, <1>5, <1>7
<1>10. /\ s \in Seq(AnyTask) /\ Ordered(s)
       /\ Range(s) = Range(g) \cup Range(r) \cup Range(c) \cup {q}
  <2>1. PICK t : t = <<q>>
    OBVIOUS
  <2>2. t \in Seq(AnyTask) /\ Ordered(t) /\ Range(t) = {q}
    BY <2>1, Short
  <2>3. \A k \in Range(grc), l \in Range(t) : Before(k, l)
    BY <1>2, <1>3, <1>4, <1>8, <2>2 DEF Before, AtOnce, Erasures, Erasing, Preparing
  <2>4. s \in Seq(AnyTask) /\ Ordered(s) /\ Range(s) = Range(grc) \cup Range(t)
    BY <1>8, <1>9, <2>1, <2>2, <2>3, Behind
  <2> QED BY <1>8, <2>2, <2>4
<1>11. Planned(s)
  BY <1>2, <1>3, <1>4, <1>10 DEF Planned, Erasing
<1> QED BY <1>0, <1>1, <1>2, <1>3, <1>10, <1>11

\* The list of a match whose both sides stayed away.
LEMMA NoShowPlanned ==
  ASSUME NEW m \in Matches, NEW was \in RowType, was.rated = NoPair, NEW q \in AnyTask,
         q.do = "noshow", q.m = m, q.was.status \in Open,
         NEW p \in AnyTask, p.do = "mark"
  PROVE  LET s == GuardTasks(m) \o ReverseTasks(m, was) \o <<q>> \o ClearTasks(m, was) \o <<p>>
         IN  /\ s \in Seq(AnyTask) /\ Planned(s)
             /\ \A l \in Range(s) : \/ l.do = "guard"
                                    \/ l \in Range(ClearTasks(m, was))
                                    \/ l = q \/ l = p
<1>0. PICK s : s = GuardTasks(m) \o ReverseTasks(m, was) \o <<q>> \o ClearTasks(m, was) \o <<p>>
  OBVIOUS
<1>1. PICK g, r, c : g = GuardTasks(m) /\ r = ReverseTasks(m, was) /\ c = ClearTasks(m, was)
  OBVIOUS
<1>2. g \in Seq(AnyTask) /\ Ordered(g) /\ \A l \in Range(g) : l.do = "guard"
  BY <1>1, GuardPart
<1>3. r = << >>
  BY <1>1, ReversePart
<1>4. /\ c \in Seq(AnyTask) /\ Ordered(c) /\ \A l \in Range(c) : l.do = "find"
  BY <1>1, ClearPart
<1>5. PICK tq, tp : tq = <<q>> /\ tp = <<p>>
  OBVIOUS
<1>6. /\ tq \in Seq(AnyTask) /\ Ordered(tq) /\ Range(tq) = {q}
      /\ tp \in Seq(AnyTask) /\ Ordered(tp) /\ Range(tp) = {p}
  BY <1>5, Short
<1>7. g \o r = g
  BY <1>2, <1>3, ConcatEmptySeq
<1>8. PICK gq : gq = g \o tq
  OBVIOUS
<1>9. gq \in Seq(AnyTask) /\ Ordered(gq) /\ Range(gq) = Range(g) \cup {q}
  <2>1. \A k \in Range(g), l \in Range(tq) : Before(k, l)
    BY <1>2, <1>6 DEF Before, AtOnce, Erasures, Erasing, Preparing
  <2> QED BY <1>2, <1>6, <1>8, <2>1, Behind
<1>10. PICK gqc : gqc = gq \o c
  OBVIOUS
<1>11. gqc \in Seq(AnyTask) /\ Ordered(gqc) /\ Range(gqc) = Range(g) \cup {q} \cup Range(c)
  <2>1. \A k \in Range(gq), l \in Range(c) : Before(k, l)
    BY <1>2, <1>4, <1>9 DEF Before, AtOnce, Erasures, Erasing, Preparing
  <2>2. gqc \in Seq(AnyTask) /\ Ordered(gqc) /\ Range(gqc) = Range(gq) \cup Range(c)
    BY <1>4, <1>9, <1>10, <2>1, Behind
  <2> QED BY <1>9, <2>2
<1>12. s = gqc \o tp
  BY <1>0, <1>1, <1>5, <1>7, <1>8, <1>10
<1>13. /\ s \in Seq(AnyTask) /\ Ordered(s)
       /\ Range(s) = Range(g) \cup {q} \cup Range(c) \cup {p}
  <2>1. \A k \in Range(gqc), l \in Range(tp) : Before(k, l)
    BY <1>6 DEF Before, AtOnce, Erasures, Erasing
  <2>2. /\ gqc \o tp \in Seq(AnyTask) /\ Ordered(gqc \o tp)
        /\ Range(gqc \o tp) = Range(gqc) \cup Range(tp)
    BY <1>6, <1>11, <2>1, Behind
  <2> QED BY <1>6, <1>11, <1>12, <2>2
<1>14. Planned(s)
  BY <1>2, <1>4, <1>13 DEF Planned
<1> QED BY <1>0, <1>1, <1>2, <1>13, <1>14

\* An operation begins with a list that fits what the rows show.
LEMMA BeginSame ==
  ASSUME OneInv, NEW d \in Desks, Desks = {d}, TypeInv', NEW op, NEW tasks,
         Begin(d, op, tasks), tasks \in Seq(AnyTask), Planned(tasks), Fits(tasks)
  PROVE  OneInv'
<1>1. /\ todo[d] = << >> /\ todo' = [todo EXCEPT ![d] = tasks] /\ row' = row /\ faults' = faults
      /\ Tidy /\ Handled(todo[d])
  BY DEF Begin, Idle, OneInv
<1>2. Fits(tasks)'
  BY <1>1 DEF Fits, IsDecided, Known, Playable, Emptied, SameAs
<1>3. Tidy' /\ \A m \in Matches : ~Unrated(m)'
  BY <1>1, NoneInHand, SameTidy
<1>4. Handled(tasks)'
  BY <1>2, <1>3 DEF Handled
<1> QED BY <1>1, <1>3, <1>4, DeskStep

\* A result is entered, or a walkover.
LEMMA EnterOne ==
  ASSUME OneInv, NEW d \in Desks, Desks = {d}, TypeInv', NEW m \in Matches, NEW side \in Sides,
         Enter(d, m, side) \/ Walkover(d, m, side)
  PROVE  OneInv'
<1>1. PICK op, to :
          to \in Decided /\ Begin(d, op, ResultTasks(m, row[m], side, to))
  BY DEF Enter, Walkover, Decided
<1>2. PICK was \in RowType : was = row[m] /\ was.status \in Open
  BY DEF Enter, Walkover, OneInv, TypeInv
<1>3. PICK tasks : tasks = ResultTasks(m, was, side, to)
  OBVIOUS
<1>4. SameAs(row[m], was) /\ to \in Decided
  BY <1>1, <1>2 DEF SameAs
<1>5. tasks \in Seq(AnyTask) /\ Planned(tasks) /\ Fits(tasks)
  BY <1>2, <1>3, <1>4, ResultPlanned
<1> QED BY <1>1, <1>2, <1>3, <1>5, BeginSame

\* A match is voided, or its result undone.
LEMMA EraseOne ==
  ASSUME OneInv, NEW d \in Desks, Desks = {d}, TypeInv', NEW m \in Matches,
         Void(d, m) \/ Undo(d, m)
  PROVE  OneInv'
<1>1. PICK was \in RowType : was = row[m]
  BY DEF OneInv, TypeInv
<1>2. PICK op, q :
          /\ q \in AnyTask /\ q.do \in {"void", "undo"} /\ q.m = m
          /\ q.do = "void" => q.was = was
          /\ q.do = "undo" => q.to = Playable(was)
          /\ Begin(d, op, GuardTasks(m) \o ReverseTasks(m, was) \o ClearTasks(m, was) \o <<q>>)
  <2>1. CASE Void(d, m)
    <3>1. PICK q : q = [do |-> "void", m |-> m, was |-> was]
      OBVIOUS
    <3>2. q \in VoidTask /\ q.do = "void" /\ q.m = m /\ q.was = was
      BY <3>1 DEF VoidTask
    <3>3. q \in AnyTask
      BY <3>2 DEF AnyTask, OnMatch
    <3>4. Begin(d, "void", GuardTasks(m) \o ReverseTasks(m, was) \o ClearTasks(m, was) \o <<q>>)
      BY <1>1, <2>1, <3>1 DEF Void
    <3> QED BY <3>2, <3>3, <3>4
  <2>2. CASE Undo(d, m)
    <3>1. PICK q : q = [do |-> "undo", m |-> m, to |-> Playable(was)]
      OBVIOUS
    <3>2. q \in ResetTask /\ q.do = "undo" /\ q.m = m /\ q.to = Playable(was)
      BY <3>1 DEF ResetTask, Playable
    <3>3. q \in AnyTask
      BY <3>2 DEF AnyTask, OnMatch
    <3>4. Begin(d, "undo", GuardTasks(m) \o ReverseTasks(m, was) \o ClearTasks(m, was) \o <<q>>)
      BY <1>1, <2>2, <3>1 DEF Undo
    <3> QED BY <3>2, <3>3, <3>4
  <2> QED BY <2>1, <2>2
<1>3. PICK s : s = GuardTasks(m) \o ReverseTasks(m, was) \o ClearTasks(m, was) \o <<q>>
  OBVIOUS
<1>4. /\ s \in Seq(AnyTask) /\ Planned(s)
      /\ \A l \in Range(s) : \/ l.do = "guard"
                             \/ l.do = "reverse" /\ l.m = m
                             \/ l \in Range(ClearTasks(m, was))
                             \/ l = q
      /\ was.rated # NoPair => \E l \in Range(s) : l.do = "reverse" /\ l.m = m
  BY <1>2, <1>3, ErasurePlanned
<1>5. \A l \in Range(ClearTasks(m, was)) : l.do = "find"
  BY ClearPart
<1>6. /\ q.do = "void" => SameAs(row[m], q.was)
      /\ q.do = "undo" => q.to = Playable(row[m])
      /\ \/ row[m].rated = NoPair
         \/ \E l \in Range(s) : l.do = "reverse" /\ l.m = m
  BY <1>1, <1>2, <1>4 DEF SameAs
<1>7. ASSUME NEW l \in Range(s), l # q
      PROVE  l.do \in {"guard", "reverse", "find"}
  BY <1>4, <1>5, <1>7
<1>8. Fits(s)
  BY <1>2, <1>6, <1>7 DEF Fits, Erasures, Erasing
<1> QED BY <1>2, <1>3, <1>4, <1>8, BeginSame

\* Neither side of a match came.
LEMMA AbsentOne ==
  ASSUME OneInv, NEW d \in Desks, Desks = {d}, TypeInv', NEW m \in Matches, DoubleNoShow(d, m)
  PROVE  OneInv'
<1>1. PICK was \in RowType : was = row[m]
  BY DEF OneInv, TypeInv
<1>2. was.status \in Open /\ was.rated = NoPair /\ was.a \in Entries /\ was.b \in Entries
  <2>1. was.status \in Open /\ was.a # None /\ was.b # None
    BY <1>1 DEF DoubleNoShow, Known
  <2>2. was.rated = NoPair
    BY <1>1, <2>1, Statuses DEF OneInv, Tidy, RatedIsResult, IsDecided
  <2> QED BY <2>1, <2>2, RowOf DEF Occupant
<1>3. PICK q, p : /\ q = [do |-> "noshow", m |-> m, was |-> was]
                  /\ p = [do |-> "mark", who |-> {was.a, was.b}]
  OBVIOUS
<1>4. /\ q \in AnyTask /\ q.do = "noshow" /\ q.m = m /\ q.was = was
      /\ p \in AnyTask /\ p.do = "mark"
  <2>1. q \in VoidTask /\ p \in MarkTask
    BY <1>2, <1>3 DEF VoidTask, MarkTask
  <2> QED BY <1>3, <2>1 DEF AnyTask, OnMatch
<1>5. PICK s : s = GuardTasks(m) \o ReverseTasks(m, was) \o <<q>> \o ClearTasks(m, was) \o <<p>>
  OBVIOUS
<1>6. Begin(d, "noshow", s)
  BY <1>1, <1>3, <1>5 DEF DoubleNoShow
<1>7. /\ s \in Seq(AnyTask) /\ Planned(s)
      /\ \A l \in Range(s) : \/ l.do = "guard"
                             \/ l \in Range(ClearTasks(m, was))
                             \/ l = q \/ l = p
  BY <1>2, <1>4, <1>5, NoShowPlanned
<1>8. \A l \in Range(ClearTasks(m, was)) : l.do = "find"
  BY ClearPart
<1>9. ASSUME NEW l \in Range(s), l # q
      PROVE  l.do \in {"guard", "find", "mark"}
  BY <1>4, <1>7, <1>8, <1>9
<1>10. SameAs(row[m], q.was) /\ row[m].rated = NoPair
  BY <1>1, <1>2, <1>4 DEF SameAs
<1>11. Fits(s)
  BY <1>4, <1>9, <1>10 DEF Fits, Erasures, Erasing
<1> QED BY <1>6, <1>7, <1>11, BeginSame

\* A voided match is restored: it has no rating to take back.
LEMMA RestoredOne ==
  ASSUME OneInv, NEW d \in Desks, Desks = {d}, TypeInv', NEW m \in Matches, Unvoid(d, m)
  PROVE  OneInv'
<1>1. PICK was \in RowType : was = row[m]
  BY DEF OneInv, TypeInv
<1>2. was.rated = NoPair
  BY <1>1 DEF Unvoid, OneInv, Tidy, RatedIsResult, IsDecided, Decided
<1>3. PICK q : q = [do |-> "unvoid", m |-> m, to |-> Playable(was)]
  OBVIOUS
<1>4. q \in AnyTask /\ q.do = "unvoid" /\ q.m = m /\ q.to = Playable(was)
  <2>1. q \in ResetTask
    BY <1>3 DEF ResetTask, Playable
  <2> QED BY <1>3, <2>1 DEF AnyTask, OnMatch
<1>5. ReverseTasks(m, was) = << >>
  BY <1>2, ReversePart
<1>6. PICK s : s = <<q>>
  OBVIOUS
<1>7. s \in Seq(AnyTask) /\ Planned(s) /\ Range(s) = {q}
  BY <1>4, <1>6, OnePlanned
<1>8. Begin(d, "unvoid", s)
  <2>1. << >> \o s = s
    BY <1>7, ConcatEmptySeq
  <2> QED BY <1>1, <1>3, <1>5, <1>6, <2>1 DEF Unvoid
<1>9. Fits(s)
  BY <1>1, <1>2, <1>4, <1>7 DEF Fits, Erasures, Erasing
<1> QED BY <1>7, <1>8, <1>9, BeginSame

\* A result is corrected.
LEMMA CorrectOne ==
  ASSUME OneInv, NEW d \in Desks, Desks = {d}, TypeInv', NEW m \in Matches, NEW side \in Sides,
         NEW played \in BOOLEAN, Edit(d, m, side, played)
  PROVE  OneInv'
<1>1. PICK was \in RowType : was = row[m]
  BY DEF OneInv, TypeInv
<1>2. PICK win \in Occupant, lose \in Occupant, to \in Decided :
          /\ win = was[side] /\ lose = was[Other(side)]
          /\ to = IF played THEN "completed" ELSE was.status
  BY <1>1, RowOf DEF Edit, Decided
<1>3. PICK q, p : /\ q = [do |-> "edit", m |-> m, was |-> was, win |-> win, lose |-> lose, to |-> to]
                  /\ p = [do |-> "look", m |-> m, prior |-> << >>]
  OBVIOUS
<1>4. /\ q \in AnyTask /\ q.do = "edit" /\ q.m = m /\ q.was = was
      /\ p \in AnyTask /\ p.do = "look" /\ p.m = m
  <2>1. q \in EditTask /\ p \in AnyLook
    BY <1>2, <1>3 DEF EditTask, AnyLook, AnyPrior, Occupant
  <2> QED BY <1>3, <2>1 DEF AnyTask, OnMatch
<1>0. PICK wslot \in Slots \cup {NoSlot}, lslot \in Slots \cup {NoSlot} :
          wslot = WinnerTo[m] /\ lslot = LoserTo[m] /\ wslot[1] # m /\ lslot[1] # m
  BY BracketAssumption DEF BracketAssumption
<1>11. PICK g, r, w, z : /\ g = GuardTasks(m) /\ r = ReverseTasks(m, was)
                         /\ w = PlaceTasks(wslot, win) /\ z = PlaceTasks(lslot, lose)
  OBVIOUS
<1>12. g \in Seq(AnyTask) /\ Ordered(g) /\ \A l \in Range(g) : l.do = "guard"
  BY <1>11, GuardPart
<1>13. /\ r \in Seq(AnyTask) /\ Ordered(r) /\ \A l \in Range(r) : l.do = "reverse" /\ l.m = m
       /\ was.rated # NoPair => \E l \in Range(r) : l.do = "reverse" /\ l.m = m
  BY <1>11, ReversePart
<1>14. /\ w \in Seq(AnyTask) /\ Ordered(w)
       /\ \A l \in Range(w) : l.do = "place" /\ l.slot[1] # m
  BY <1>0, <1>11, PlacePart
<1>15. /\ z \in Seq(AnyTask) /\ Ordered(z)
       /\ \A l \in Range(z) : l.do = "place" /\ l.slot[1] # m
  BY <1>0, <1>11, PlacePart
<1>16. PICK tq, tp : tq = <<q>> /\ tp = <<p>>
  OBVIOUS
<1>17. /\ tq \in Seq(AnyTask) /\ Ordered(tq) /\ Range(tq) = {q}
       /\ tp \in Seq(AnyTask) /\ Ordered(tp) /\ Range(tp) = {p}
  BY <1>4, <1>16, Short
<1>5. PICK s : s = g \o r \o tq \o w \o z \o tp
  OBVIOUS
<1>6. PICK op : Begin(d, op, s)
  BY <1>0, <1>1, <1>2, <1>3, <1>5, <1>11, <1>16 DEF Edit
<1>7. /\ s \in Seq(AnyTask) /\ Planned(s)
      /\ Range(s) = Range(g) \cup Range(r) \cup {q} \cup Range(w) \cup Range(z) \cup {p}
  <2>1. PICK gr : gr = g \o r
    OBVIOUS
  <2>2. gr \in Seq(AnyTask) /\ Ordered(gr) /\ Range(gr) = Range(g) \cup Range(r)
    <3>1. \A k \in Range(g), l \in Range(r) : Before(k, l)
      BY <1>12, <1>13 DEF Before, AtOnce, Erasures, Erasing
    <3> QED BY <1>12, <1>13, <2>1, <3>1, Behind
  <2>3. PICK grq : grq = gr \o tq
    OBVIOUS
  <2>4. grq \in Seq(AnyTask) /\ Ordered(grq) /\ Range(grq) = Range(g) \cup Range(r) \cup {q}
    <3>1. \A k \in Range(gr), l \in Range(tq) : Before(k, l)
      BY <1>4, <1>12, <1>13, <1>17, <2>2 DEF Before, AtOnce, Erasures, Erasing, Preparing
    <3>2. grq \in Seq(AnyTask) /\ Ordered(grq) /\ Range(grq) = Range(gr) \cup Range(tq)
      BY <1>17, <2>2, <2>3, <3>1, Behind
    <3> QED BY <1>17, <2>2, <3>2
  <2>5. PICK wz : wz = w \o z
    OBVIOUS
  <2>6. wz \in Seq(AnyTask) /\ Ordered(wz) /\ Range(wz) = Range(w) \cup Range(z)
    <3>1. \A k \in Range(w), l \in Range(z) : Before(k, l)
      BY <1>14, <1>15 DEF Before, AtOnce, Erasures, Erasing
    <3> QED BY <1>14, <1>15, <2>5, <3>1, Behind
  <2>7. PICK x : x = grq \o wz
    OBVIOUS
  <2>8. /\ x \in Seq(AnyTask) /\ Ordered(x)
         /\ Range(x) = Range(g) \cup Range(r) \cup {q} \cup Range(w) \cup Range(z)
    <3>1. \A l \in Range(wz) : l.do = "place" /\ l.slot[1] # m
      BY <1>14, <1>15, <2>6
    <3>2. \A k \in Range(grq) : k.do \in {"guard", "reverse"} \/ (k.do = "edit" /\ k.m = m)
      BY <1>4, <1>12, <1>13, <2>4
    <3>3. \A k \in Range(grq), l \in Range(wz) : Before(k, l)
      BY <3>1, <3>2 DEF Before, AtOnce, Erasures, Erasing
    <3>4. x \in Seq(AnyTask) /\ Ordered(x) /\ Range(x) = Range(grq) \cup Range(wz)
      BY <2>4, <2>6, <2>7, <3>3, Behind
    <3> QED BY <2>4, <2>6, <3>4
  <2>9. s = x \o tp
    <3>1. s = (((grq \o w) \o z) \o tp)
      BY <1>5, <2>1, <2>3
    <3>2. (grq \o w) \o z = grq \o (w \o z)
      BY <1>14, <1>15, <2>4, ConcatAssociative
    <3> QED BY <2>5, <2>7, <3>1, <3>2
  <2>10. /\ s \in Seq(AnyTask) /\ Ordered(s)
         /\ Range(s) = Range(g) \cup Range(r) \cup {q} \cup Range(w) \cup Range(z) \cup {p}
    <3>1. \A k \in Range(x) : k.do \in {"guard", "reverse", "edit", "place"}
      BY <1>4, <1>12, <1>13, <1>14, <1>15, <2>8
    <3>2. \A k \in Range(x), l \in Range(tp) : Before(k, l)
      BY <1>4, <1>17, <3>1 DEF Before, AtOnce, Erasures, Erasing
    <3>3. x \o tp \in Seq(AnyTask) /\ Ordered(x \o tp) /\ Range(x \o tp) = Range(x) \cup Range(tp)
      BY <1>17, <2>8, <3>2, Behind
    <3> QED BY <1>17, <2>8, <2>9, <3>3
  <2>11. Planned(s)
    <3>1. q \in Range(s) /\ p \in Range(s) /\ q.do \in Erasing
      BY <1>4, <2>10 DEF Erasing
    <3> QED BY <1>4, <1>12, <1>13, <1>14, <1>15, <2>10, <3>1 DEF Planned
  <2> QED BY <2>10, <2>11
<1>8. ASSUME NEW l \in Range(s), l # q
      PROVE  l.do \in {"guard", "reverse", "place", "look"}
  BY <1>4, <1>7, <1>8, <1>12, <1>13, <1>14, <1>15
<1>9. /\ SameAs(row[m], q.was)
      /\ \/ row[m].rated = NoPair
         \/ \E l \in Range(s) : l.do = "reverse" /\ l.m = m
  BY <1>1, <1>4, <1>7, <1>13 DEF SameAs
<1>10. Fits(s)
  BY <1>4, <1>8, <1>9 DEF Fits, Erasures, Erasing
<1> QED BY <1>6, <1>7, <1>10, BeginSame

\* An entry is seated by hand, a match called, an entry taken out of the draw.
LEMMA PlainOne ==
  ASSUME OneInv, NEW d \in Desks, Desks = {d}, TypeInv', NEW op, NEW k \in AnyTask,
         Begin(d, op, <<k>>),
         \/ k.do = "list"
         \/ k.do = "seat" /\ k.was.status \in Open
         \/ k.do = "call" /\ (k.from # "live" => Known(row[k.m]))
  PROVE  OneInv'
<1>1. PICK s : s = <<k>>
  OBVIOUS
<1>2. s \in Seq(AnyTask) /\ Planned(s) /\ Range(s) = {k}
  BY <1>1, OnePlanned
<1>3. Fits(s)
  BY <1>2 DEF Fits, Erasures, Erasing
<1> QED BY <1>1, <1>2, <1>3, BeginSame

\* Every operation.
LEMMA BeginOne ==
  ASSUME OneInv, NEW d \in Desks, Desks = {d}, TypeInv', BeginStep(d)
  PROVE  OneInv'
<1>1. ASSUME NEW m \in Matches, NEW side \in Sides, NEW e \in Occupant, SetEntry(d, m, side, e)
      PROVE  OneInv'
  <2>1. PICK k : k = [do |-> "seat", m |-> m, was |-> row[m], side |-> side, e |-> e]
    OBVIOUS
  <2>2. k \in AnyTask /\ k.do = "seat" /\ k.was.status \in Open
    <3>1. row[m] \in RowType /\ row[m].status \in Open
      BY <1>1 DEF OneInv, TypeInv, SetEntry
    <3>2. k \in AnySeat /\ k.do = "seat" /\ k.was = row[m]
      BY <2>1, <3>1 DEF AnySeat
    <3> QED BY <3>1, <3>2 DEF AnyTask, OnMatch
  <2>3. Begin(d, "seat", <<k>>)
    BY <1>1, <2>1 DEF SetEntry
  <2> QED BY <2>2, <2>3, PlainOne
<1>2. ASSUME NEW m \in Matches, SetLive(d, m)
      PROVE  OneInv'
  <2>1. PICK k : k = [do |-> "call", m |-> m, from |-> row[m].status]
    OBVIOUS
  <2>2. /\ row[m].status \in {"pending", "ready", "live"}
        /\ row[m].status # "live" => Known(row[m])
    BY <1>2 DEF SetLive
  <2>3. k \in AnyTask /\ k.do = "call" /\ (k.from # "live" => Known(row[k.m]))
    <3>1. k \in CallTask /\ k.do = "call" /\ k.m = m /\ k.from = row[m].status
      BY <2>1, <2>2 DEF CallTask, Open
    <3> QED BY <2>2, <3>1 DEF AnyTask, OnMatch
  <2>4. Begin(d, "live", <<k>>)
    BY <1>2, <2>1 DEF SetLive
  <2> QED BY <2>3, <2>4, PlainOne
<1>3. ASSUME NEW e \in Entries, ExitDraw(d, e)
      PROVE  OneInv'
  <2>1. PICK k : k = [do |-> "list", e |-> e]
    OBVIOUS
  <2>2. k \in AnyTask /\ k.do = "list"
    <3>1. k \in ListTask /\ k.do = "list"
      BY <2>1 DEF ListTask
    <3> QED BY <3>1 DEF AnyTask
  <2>3. Begin(d, "exit", <<k>>)
    BY <1>3, <2>1 DEF ExitDraw
  <2> QED BY <2>2, <2>3, PlainOne
<1> QED BY <1>1, <1>2, <1>3, EnterOne, EraseOne, AbsentOne, RestoredOne, CorrectOne
       DEF BeginStep, Occupant

-----------------------------------------------------------------------------
(* One desk at work in a draw where no request fails.                      *)

LEMMA OneDraw ==
  ASSUME Init
  PROVE  OneInv
<1>1. TypeInv
  BY DrawTypes
<1>2. \A m \in Matches : /\ row[m].status \in {"ready", "pending"}
                         /\ row[m].win = None /\ row[m].lose = None /\ row[m].rated = NoPair
  BY DEF Init, Seated
<1>3. Tidy /\ \A m \in Matches : ~Unrated(m)
  BY <1>2, Statuses DEF Tidy, RatedIsResult, Unrated, IsDecided
<1>4. << >> \in Seq(AnyTask) /\ Range(<< >>) = {} /\ Ordered(<< >>)
  <2>1. [do |-> "mark", who |-> {}] \in AnyTask
    BY DEF AnyTask, MarkTask
  <2> QED BY <2>1, Short
<1>5. Handled(<< >>)
  BY <1>3, <1>4 DEF Handled, Planned, Fits
<1> QED BY <1>1, <1>3, <1>5 DEF Init, OneInv

LEMMA OneKept ==
  ASSUME OneInv, NEW d \in Desks, Desks = {d}, MaxFaults = 0, [Next]_resultVars
  PROVE  OneInv'
<1>1. TypeInv'
  BY TypesKept DEF OneInv
<1>2. CASE BeginStep(d)
  BY <1>1, <1>2, BeginOne
<1>3. CASE Request(d)
  BY <1>1, <1>3, RequestOne
<1>4. CASE Fault(d)
  BY <1>4 DEF Fault, OneInv
<1>5. CASE UNCHANGED resultVars
  <2>1. row' = row /\ todo' = todo /\ faults' = faults
    BY <1>5 DEF resultVars
  <2>2. Tidy' /\ \A m \in Matches : Unrated(m)' <=> Unrated(m)
    BY <2>1, SameTidy DEF OneInv
  <2>3. ASSUME NEW s, Handled(s) PROVE Handled(s)'
    <3>1. Fits(s)'
      BY <2>1, <2>3 DEF Handled, Fits, IsDecided, Known, Playable, Emptied, SameAs
    <3> QED BY <2>2, <2>3, <3>1 DEF Handled
  <2>4. \A c \in Desks : Handled(todo[c])'
    <3> TAKE c \in Desks
    <3>1. PICK s : s = todo[c]
      OBVIOUS
    <3>2. Handled(s)'
      BY <2>3, <3>1 DEF OneInv
    <3> QED BY <2>1, <3>1, <3>2
  <2> QED BY <1>1, <2>1, <2>2, <2>4 DEF OneInv
<1> QED BY <1>2, <1>3, <1>4, <1>5 DEF Next


\* Writing a status, a result or a side leaves the rating alone.
LEMMA RatingAlone ==
  ASSUME NEW r \in RowType, NEW status, NEW win, NEW lose, NEW side \in Sides, NEW e
  PROVE  /\ [r EXCEPT !.status = status].rated = r.rated
         /\ [r EXCEPT !.status = status, !.win = win, !.lose = lose].rated = r.rated
         /\ [r EXCEPT ![side] = e].rated = r.rated
<1>1. side = "a" \/ side = "b"
  BY DEF Sides
<1> QED BY <1>1 DEF RowType

\* A row is given a rating by a rating request only.
LEMMA OnlyRateRates ==
  ASSUME TypeInv, [Next]_resultVars, NEW n \in Matches,
         row[n].rated = NoPair, row'[n].rated # NoPair, faults' = faults
  PROVE  \E d \in Desks : Doing(d, "rate") /\ Head(todo[d]).m = n
<1>1. row' # row
  OBVIOUS
<1>2. PICK d \in Desks : BeginStep(d) \/ Request(d) \/ Fault(d)
  BY <1>1 DEF Next, resultVars
<1>3. ~BeginStep(d) /\ ~Fault(d)
  <2>1. faults \in Nat /\ ~Fault(d)
    BY DEF TypeInv, Fault
  <2>2. ASSUME NEW op, NEW tasks PROVE ~Begin(d, op, tasks)
    BY <1>1 DEF Begin
  <2>3. ~BeginStep(d)
    BY <2>2 DEF BeginStep, Enter, Walkover, Edit, SetEntry, Void, DoubleNoShow, Unvoid,
         Undo, SetLive, ExitDraw
  <2> QED BY <2>1, <2>3
<1>4. ASSUME NEW m \in Matches, NEW new, row' = [row EXCEPT ![m] = new],
             new.rated \in {row[m].rated, NoPair}
      PROVE  FALSE
  BY <1>4 DEF TypeInv
<1>5. PICK k : k = Head(todo[d])
  OBVIOUS
<1>6. CASE Look(d) \/ Route(d) \/ Settle(d) \/ Guard(d) \/ Find(d) \/ Mark(d) \/ List(d) \/ Forfeit(d)
  BY <1>1, <1>6 DEF Look, Route, Settle, Guard, Find, Mark, List, Forfeit
<1>7. CASE Rate(d)
  <2>1. Doing(d, "rate") /\ row' = [row EXCEPT ![k.m].rated = k.for]
    BY <1>1, <1>5, <1>7 DEF Rate, ApplyRating
  <2>2. k.m = n
    BY <2>1 DEF TypeInv
  <2> QED BY <1>5, <2>1, <2>2
<1>8. CASE /\ ~Idle(d)
           /\ k.do \in {"write", "restore", "seat", "call", "ready", "reverse", "void", "noshow",
                        "unvoid", "undo", "edit"}
           /\ Write(d) \/ Restore(d) \/ Ready(d) \/ Reverse(d) \/ WriteVoid(d) \/ WriteNoShow(d)
                \/ WriteUnvoid(d) \/ WriteUndo(d) \/ WriteEdit(d) \/ WriteSeat(d) \/ WriteLive(d)
  <2>1. k \in AnyTask
    BY <1>5, <1>8, AtWork
  <2>2. PICK m \in Matches : m = k.m
    BY <1>8, <2>1, FieldsOf DEF AnyWrite, AnyRestore, AnySeat, CallTask, SettleTask, GuardTask,
         VoidTask, ResetTask, EditTask
  <2>3. k.do = "seat" => k.side \in Sides
    BY <2>1, FieldsOf DEF AnySeat
  <2>4. row \in [Matches -> RowType] /\ row[m] \in RowType
    BY DEF TypeInv
  <2>5. PICK r \in RowType : r = row[m]
    BY <2>4
  <2>6. \E new : row' = [row EXCEPT ![m] = new] /\ new.rated \in {r.rated, NoPair}
    <3>1. CASE Reverse(d)
      <4>1. PICK new : new = [r EXCEPT !.rated = NoPair]
        OBVIOUS
      <4>2. new.rated = NoPair
        BY <4>1 DEF RowType
      <4>3. row' = [row EXCEPT ![m] = new]
        BY <1>5, <2>2, <2>4, <2>5, <3>1, <4>1 DEF Reverse
      <4> QED BY <4>2, <4>3
    <3>2. CASE Write(d) \/ WriteEdit(d)
      <4>1. PICK new : new = [r EXCEPT !.status = k.to, !.win = k.win, !.lose = k.lose]
        OBVIOUS
      <4>2. new.rated = r.rated
        BY <4>1, RatingAlone DEF Sides
      <4>3. row' = [row EXCEPT ![m] = new]
        BY <1>1, <1>5, <2>2, <2>5, <3>2, <4>1 DEF Write, WriteEdit, CompareAndSwap
      <4> QED BY <4>2, <4>3
    <3>3. CASE Restore(d)
      <4>1. PICK new : new = [r EXCEPT !.status = k.was.status, !.win = k.was.win, !.lose = k.was.lose]
        OBVIOUS
      <4>2. new.rated = r.rated
        BY <4>1, RatingAlone DEF Sides
      <4>3. row' = [row EXCEPT ![m] = new]
        BY <1>1, <1>5, <2>2, <2>4, <2>5, <3>3, <4>1 DEF Restore
      <4> QED BY <4>2, <4>3
    <3>4. CASE WriteUnvoid(d) \/ WriteUndo(d)
      <4>1. PICK new : new = [r EXCEPT !.status = k.to, !.win = None, !.lose = None]
        OBVIOUS
      <4>2. new.rated = r.rated
        BY <4>1, RatingAlone DEF Sides
      <4>3. row' = [row EXCEPT ![m] = new]
        BY <1>1, <1>5, <2>2, <2>5, <3>4, <4>1 DEF WriteUnvoid, WriteUndo, CompareAndSwap
      <4> QED BY <4>2, <4>3
    <3>5. CASE WriteNoShow(d)
      <4>1. PICK new : new = [r EXCEPT !.status = "voided", !.win = None, !.lose = None]
        OBVIOUS
      <4>2. new.rated = r.rated
        BY <4>1, RatingAlone DEF Sides
      <4>3. row' = [row EXCEPT ![m] = new]
        BY <1>1, <1>5, <2>2, <2>5, <3>5, <4>1 DEF WriteNoShow, CompareAndSwap
      <4> QED BY <4>2, <4>3
    <3>6. CASE WriteVoid(d) \/ WriteLive(d) \/ Ready(d)
      <4>1. PICK status : row' = [row EXCEPT ![m] = [r EXCEPT !.status = status]]
        <5>1. CASE WriteVoid(d)
          BY <1>1, <1>5, <2>2, <2>5, <5>1 DEF WriteVoid, CompareAndSwap
        <5>2. CASE WriteLive(d)
          BY <1>1, <1>5, <2>2, <2>5, <5>2 DEF WriteLive, CompareAndSwap
        <5>3. CASE Ready(d)
          BY <1>1, <1>5, <2>2, <2>4, <2>5, <5>3 DEF Ready
        <5> QED BY <3>6, <5>1, <5>2, <5>3
      <4>2. PICK new : new = [r EXCEPT !.status = status]
        OBVIOUS
      <4>3. new.rated = r.rated
        BY <4>2, RatingAlone DEF Sides
      <4> QED BY <4>1, <4>2, <4>3
    <3>7. CASE WriteSeat(d)
      <4>0. k.side \in Sides
        BY <1>5, <2>3, <3>7 DEF WriteSeat, Doing
      <4>1. PICK side, e : side \in Sides /\ side = k.side /\ e = k.e
        BY <4>0
      <4>2. PICK status : row' = [row EXCEPT ![m] = [[r EXCEPT ![side] = e] EXCEPT !.status = status]]
        BY <1>1, <1>5, <2>2, <2>5, <3>7, <4>1 DEF WriteSeat, CompareAndSwap
      <4>3. PICK new : new = [[r EXCEPT ![side] = e] EXCEPT !.status = status]
        OBVIOUS
      <4>4. new.rated = r.rated
        <5>1. CASE side = "a"
          BY <4>3, <5>1 DEF RowType
        <5>2. CASE side = "b"
          BY <4>3, <5>2 DEF RowType
        <5> QED BY <4>1, <5>1, <5>2 DEF Sides
      <4> QED BY <4>2, <4>3, <4>4
    <3> QED BY <1>8, <3>1, <3>2, <3>3, <3>4, <3>5, <3>6, <3>7
  <2> QED BY <1>4, <2>5, <2>6
<1>9. CASE /\ ~Idle(d) /\ k.do \in {"place", "clear"}
           /\ Place(d) \/ Clear(d)
  <2>1. k \in AnyTask
    BY <1>5, <1>9, AtWork
  <2>2. PICK m \in Matches, side \in Sides : m = k.slot[1] /\ side = k.slot[2]
    BY <1>9, <2>1, FieldsOf DEF PlaceTask, ClearTask, Slots
  <2>3. PICK r \in RowType : r = row[m] /\ row \in [Matches -> RowType]
    BY DEF TypeInv
  <2>4. \E new : row' = [row EXCEPT ![m] = new] /\ new.rated = r.rated
    <3>1. CASE Place(d)
      <4>1. PICK new : new = [r EXCEPT ![side] = k.e]
        OBVIOUS
      <4>2. new.rated = r.rated
        BY <4>1, RatingAlone
      <4>3. row' = [row EXCEPT ![m] = new]
        BY <1>5, <2>2, <2>3, <3>1, <4>1 DEF Place
      <4> QED BY <4>2, <4>3
    <3>2. CASE Clear(d)
      <4>0. PICK to : to = k.to
        OBVIOUS
      <4>1. PICK new : new = [[r EXCEPT ![side] = None] EXCEPT !.status = to]
        OBVIOUS
      <4>2. new.rated = r.rated
        <5>1. CASE side = "a"
          BY <4>1, <5>1 DEF RowType
        <5>2. CASE side = "b"
          BY <4>1, <5>2 DEF RowType
        <5> QED BY <5>1, <5>2 DEF Sides
      <4>3. row' = [row EXCEPT ![m] = new]
        BY <1>1, <1>5, <2>2, <2>3, <3>2, <4>0, <4>1 DEF Clear
      <4> QED BY <4>2, <4>3
    <3> QED BY <1>9, <3>1, <3>2
  <2> QED BY <1>4, <2>3, <2>4
<1>10. CASE Write(d) \/ Restore(d) \/ Ready(d) \/ Reverse(d) \/ WriteVoid(d) \/ WriteNoShow(d)
             \/ WriteUnvoid(d) \/ WriteUndo(d) \/ WriteEdit(d) \/ WriteSeat(d) \/ WriteLive(d)
  BY <1>5, <1>8, <1>10 DEF Write, Restore, Ready, Reverse, WriteVoid, WriteNoShow, WriteUnvoid,
       WriteUndo, WriteEdit, WriteSeat, WriteLive, Doing, Idle
<1>11. CASE Place(d) \/ Clear(d)
  BY <1>5, <1>9, <1>11 DEF Place, Clear, Doing, Idle
<1> QED BY <1>2, <1>3, <1>6, <1>7, <1>10, <1>11 DEF Request

-----------------------------------------------------------------------------
(* What one desk achieves.                                                 *)

LEMMA OneAlways ==
  ASSUME NEW d \in Desks, Desks = {d}, MaxFaults = 0
  PROVE  Spec => []OneInv
<1>1. Init => OneInv
  BY OneDraw
<1>2. OneInv /\ [Next]_resultVars => OneInv'
  BY OneKept
<1> QED BY <1>1, <1>2, PTL DEF Spec

\* Where one desk is at work and no request fails, whatever it does, in every order and in
\* every bracket: when it is idle, exactly the matches decided between two entries are
\* rated, each for the result it shows.
THEOREM OneDeskRatesTheDecided ==
  ASSUME NEW d \in Desks, Desks = {d}, MaxFaults = 0
  PROVE  Spec => []DecidedIsRated
<1>1. OneInv => DecidedIsRated
  <2> SUFFICES ASSUME OneInv, Quiet, NEW m \in Matches
               PROVE  row[m].rated = IF IsDecided(m) /\ Contested(m)
                                     THEN <<row[m].win, row[m].lose>> ELSE NoPair
    BY DEF DecidedIsRated
  <2>1. ~Unrated(m)
    BY DEF Quiet, Idle, OneInv, Handled, InHand
  <2>2. row[m].rated # NoPair => IsDecided(m) /\ row[m].rated = <<row[m].win, row[m].lose>>
    BY DEF OneInv, Tidy, RatedIsResult
  <2>3. row[m].rated # NoPair => Contested(m)
    <3>1. row[m].rated \in (Entries \X Entries) \cup {NoPair}
      BY DEF OneInv, TypeInv, RowType
    <3> QED BY <2>2, <3>1, BracketAssumption DEF Contested, BracketAssumption
  <2> QED BY <2>1, <2>2, <2>3 DEF Unrated
<1>2. Spec => []OneInv
  BY OneAlways
<1> QED BY <1>1, <1>2, PTL

\* There, no match is rated before a decided match that one of its entries came from.
THEOREM OneDeskRatesInOrder ==
  ASSUME NEW d \in Desks, Desks = {d}, MaxFaults = 0
  PROVE  Spec => RatedInOrder
<1> DEFINE A == \A m, n \in Matches :
                   /\ faults = 0 /\ row[n].rated = NoPair /\ row'[n].rated # NoPair
                   /\ Feeds(m, n) /\ IsDecided(m) /\ Contested(m)
                   => row[m].rated # NoPair
<1>1. OneInv /\ OneInv' /\ [Next]_resultVars => A
  <2> SUFFICES ASSUME OneInv, OneInv', [Next]_resultVars, NEW m \in Matches, NEW n \in Matches,
                      row[n].rated = NoPair, row'[n].rated # NoPair, Feeds(m, n), Unrated(m)
               PROVE  FALSE
    BY DEF Unrated
  <2>1. Doing(d, "rate") /\ Head(todo[d]).m = n
    BY OnlyRateRates DEF OneInv
  <2>2. InHand(m, todo[d]) /\ Planned(todo[d]) /\ todo[d] \in Seq(AnyTask)
    BY DEF OneInv, Handled
  <2>3. n = m
    BY <2>1, <2>2, OwnInHand DEF Doing
  <2> QED BY <2>3, BracketAssumption DEF Feeds, BracketAssumption
<1>2. Spec => []OneInv
  BY OneAlways
<1>3. OneInv /\ OneInv' /\ [Next]_resultVars => [A]_resultVars
  BY <1>1
<1>4. Spec => [][A]_resultVars
  BY <1>2, <1>3, PTL DEF Spec
<1> QED BY <1>4 DEF RatedInOrder
=============================================================================
