------------------------------ MODULE BracketProofs ------------------------------
(***************************************************************************)
(* Results entered by any number of desks at once, in any bracket, with    *)
(* any requests failing: a rating that counts is the rating of the result  *)
(* the match shows, and that result stands.  The desks here use the        *)
(* operations of a running event: results, forfeits, seats, calls to a     *)
(* court.                                                                  *)
(***************************************************************************)
EXTENDS BracketProperties, SequenceTheorems, FiniteSetTheorems, TLAPS

PlayOps == {"enter", "walkover", "seat", "live"}

(* The requests these operations make.  An OpenRow is what was read of a   *)
(* match that was open.                                                    *)
OpenRow == {r \in RowType : r.status \in Open}
Prior == {<<r>> : r \in OpenRow}
WriteTask == [do : {"write"}, m : Matches, was : OpenRow, to : Decided,
              win : Entries \cup {None}, lose : Entries \cup {None}]
LookTask == [do : {"look"}, m : Matches, prior : Prior]
RateTask == [do : {"rate"}, m : Matches, for : Entries \X Entries, prior : Prior]
RestoreTask == [do : {"restore"}, m : Matches, was : OpenRow]
RouteTask == [do : {"route"}, slot : Slots, e : Entries \cup {None}, onDecided : {"skip", "refuse"}]
PlaceTask == [do : {"place"}, slot : Slots, e : Entries \cup {None}]
SettleTask == [do : {"settle", "ready"}, m : Matches]
SeatTask == [do : {"seat"}, m : Matches, was : OpenRow, side : Sides, e : Entries \cup {None}]
CallTask == [do : {"call"}, m : Matches, from : Open]

(* Those that do not touch a result, and all of them.                      *)
Light == RouteTask \cup PlaceTask \cup SettleTask \cup SeatTask \cup CallTask
Heavy == LookTask \cup RateTask \cup RestoreTask
Task == Light \cup Heavy \cup WriteTask

(* Only the first request touches a result, or the second when the first   *)
(* writes the result that the second is to rate.                           *)
Shaped(s) ==
    /\ s \in Seq(Task)
    /\ \A i \in 2..Len(s) :
           \/ s[i] \in Light
           \/ i = 2 /\ s[1] \in WriteTask /\ s[2] \in LookTask /\ s[2].m = s[1].m

(* An operation whose result is written and not yet rated or taken off     *)
(* again: it has the match to itself, and the match shows that result.     *)
After(s) == s # << >> /\ Head(s).do \in {"look", "rate", "restore"}
Shows(s) ==
    After(s) => /\ IsDecided(Head(s).m)
                /\ Head(s).do = "rate" =>
                       Head(s).for = <<row[Head(s).m].win, row[Head(s).m].lose>>
Alone(s, other) == After(s) /\ After(other) => Head(s).m # Head(other).m

PlayInv ==
    /\ row \in [Matches -> RowType]
    /\ standing = [e \in Entries |-> "in"]
    /\ todo \in [Desks -> Seq(Task)]
    /\ \A d \in Desks : Shaped(todo[d]) /\ Shows(todo[d])
    /\ \A d, other \in Desks : d # other => Alone(todo[d], todo[other])
    /\ RatedIsResult
-----------------------------------------------------------------------------
(* Requests and lists of requests.                                         *)

\* What a request does tells which fields it has.
LEMMA KindOf ==
  ASSUME NEW k \in Task
  PROVE  /\ k.do = "write" => k \in WriteTask
         /\ k.do = "look" => k \in LookTask
         /\ k.do = "rate" => k \in RateTask
         /\ k.do = "restore" => k \in RestoreTask
         /\ k.do = "route" => k \in RouteTask
         /\ k.do = "place" => k \in PlaceTask
         /\ k.do \in {"settle", "ready"} => k \in SettleTask
         /\ k.do = "seat" => k \in SeatTask
         /\ k.do = "call" => k \in CallTask
  BY DEF Task, Light, Heavy, WriteTask, LookTask, RateTask, RestoreTask, RouteTask,
         PlaceTask, SettleTask, SeatTask, CallTask

\* These are all the kinds of requests there are.
LEMMA Kinds ==
  ASSUME NEW k \in Task
  PROVE  k.do \in {"write", "look", "rate", "restore", "route", "place", "settle", "ready",
                   "seat", "call"}
  BY DEF Task, Light, Heavy, WriteTask, LookTask, RateTask, RestoreTask, RouteTask,
         PlaceTask, SettleTask, SeatTask, CallTask

\* A light request is of none of the heavy kinds.
LEMMA LightKind ==
  ASSUME NEW k \in Light
  PROVE  k \in Task /\ k.do \notin {"write", "look", "rate", "restore"}
  BY DEF Task, Light, RouteTask, PlaceTask, SettleTask, SeatTask, CallTask

\* A list of light requests may follow any request.
LEMMA ShapedCons ==
  ASSUME NEW k \in Task, NEW s \in Seq(Light)
  PROVE  Shaped(<<k>> \o s) /\ Head(<<k>> \o s) = k /\ <<k>> \o s # << >>
<1>1. s \in Seq(Task) /\ <<k>> \in Seq(Task)
  <2>1. Light \subseteq Task
    BY DEF Task
  <2> QED BY <2>1, SeqMonotonic
<1> DEFINE t == <<k>> \o s
<1>2. /\ t \in Seq(Task) /\ Len(t) = 1 + Len(s) /\ Len(s) \in Nat /\ t[1] = k
      /\ \A i \in 2..Len(t) : t[i] = s[i - 1]
  BY <1>1, ConcatProperties
<1>3. \A i \in 2..Len(t) : t[i] \in Light
  <2> TAKE i \in 2..Len(t)
  <2>1. i - 1 \in 1..Len(s)
    BY <1>2
  <2> QED BY <1>2, <2>1, ElementOfSeq
<1>4. t # << >> /\ Head(t) = t[1]
  BY <1>2
<1> QED BY <1>2, <1>3, <1>4 DEF Shaped

\* It may also stand alone, and then holds no result.
LEMMA ShapedLight ==
  ASSUME NEW s \in Seq(Light)
  PROVE  Shaped(s) /\ ~After(s)
<1>1. s \in Seq(Task)
  <2>1. Light \subseteq Task
    BY DEF Task
  <2> QED BY <2>1, SeqMonotonic
<1>2. \A i \in 2..Len(s) : s[i] \in Light
  BY ElementOfSeq, LenProperties
<1>3. ASSUME s # << >> PROVE Head(s) \in Light
  BY <1>3, HeadTailProperties
<1>4. ~After(s)
  BY <1>3, LightKind DEF After
<1> QED BY <1>1, <1>2, <1>4 DEF Shaped

\* What follows a request that does not write a result is light.
LEMMA TailLight ==
  ASSUME NEW s, Shaped(s), s # << >>, Head(s).do # "write"
  PROVE  Head(s) \in Task /\ Tail(s) \in Seq(Light)
<1>1. s \in Seq(Task)
  BY DEF Shaped
<1>2. /\ Head(s) \in Task /\ Head(s) = s[1] /\ Len(s) \in Nat \ {0}
      /\ Tail(s) \in Seq(Task) /\ Len(Tail(s)) = Len(s) - 1
      /\ \A i \in 1..Len(Tail(s)) : Tail(s)[i] = s[i + 1]
  BY <1>1, HeadTailProperties, EmptySeq
<1>3. s[1] \notin WriteTask
  BY <1>2 DEF WriteTask
<1>4. \A i \in 1..Len(Tail(s)) : Tail(s)[i] \in Light
  <2> TAKE i \in 1..Len(Tail(s))
  <2>1. i + 1 \in 2..Len(s)
    BY <1>2
  <2>2. s[i + 1] \in Light
    BY <1>3, <2>1 DEF Shaped
  <2> QED BY <1>2, <2>2
<1>5. Tail(s) \in [1..Len(Tail(s)) -> Light] /\ Len(Tail(s)) \in Nat
  BY <1>2, <1>4, LenProperties
<1>6. Tail(s) \in Seq(Light)
  BY <1>5, SeqDef
<1> QED BY <1>2, <1>6

\* What follows a write is a list of its own that begins with the look at the match
\* written, or holds no result.
LEMMA TailOfWrite ==
  ASSUME NEW s, Shaped(s), s # << >>, Head(s).do = "write"
  PROVE  /\ Head(s) \in WriteTask
         /\ Shaped(Tail(s))
         /\ After(Tail(s)) => Head(Tail(s)).m = Head(s).m /\ Head(Tail(s)).do = "look"
<1>1. s \in Seq(Task)
  BY DEF Shaped
<1>2. /\ Head(s) \in Task /\ Head(s) = s[1] /\ Len(s) \in Nat \ {0}
      /\ Tail(s) \in Seq(Task) /\ Len(Tail(s)) = Len(s) - 1
      /\ \A i \in 1..Len(Tail(s)) : Tail(s)[i] = s[i + 1]
  BY <1>1, HeadTailProperties, EmptySeq
<1>3. \A i \in 2..Len(Tail(s)) : Tail(s)[i] \in Light
  <2> TAKE i \in 2..Len(Tail(s))
  <2>1. i + 1 \in 2..Len(s) /\ i + 1 # 2 /\ i \in 1..Len(Tail(s))
    BY <1>2
  <2>2. s[i + 1] \in Light
    BY <2>1 DEF Shaped
  <2> QED BY <1>2, <2>1, <2>2
<1>4. ASSUME After(Tail(s)) PROVE Head(Tail(s)).m = Head(s).m /\ Head(Tail(s)).do = "look"
  <2>1. Tail(s) # << >> /\ Head(Tail(s)).do \in {"look", "rate", "restore"}
    BY <1>4 DEF After
  <2>2. 1 \in 1..Len(Tail(s)) /\ 2 \in 2..Len(s)
    BY <1>2, <2>1, EmptySeq
  <2>3. Head(Tail(s)) = s[2]
    BY <1>2, <2>2
  <2>4. s[2] \in Light \/ (s[2] \in LookTask /\ s[2].m = s[1].m)
    BY <2>2 DEF Shaped
  <2> QED BY <1>2, <2>1, <2>3, <2>4, LightKind DEF LookTask
<1> QED BY <1>2, <1>3, <1>4, KindOf DEF Shaped
-----------------------------------------------------------------------------
(* The lists that operations put in place.                                 *)

\* The requests that move an entry along are light.
LEMMA RouteLight ==
  ASSUME NEW slot \in Slots \cup {NoSlot}, NEW e \in Entries \cup {None},
         NEW onDecided \in {"skip", "refuse"}
  PROVE  /\ RouteTasks(slot, e, onDecided) \in Seq(Light)
         /\ RouteLoser(slot, e, onDecided) \in Seq(Light)
<1>1. CASE slot = NoSlot
  BY <1>1 DEF RouteTasks, RouteLoser
<1>2. CASE slot # NoSlot
  <2>1. [do |-> "route", slot |-> slot, e |-> e, onDecided |-> onDecided] \in Light
    BY <1>2 DEF Light, RouteTask
  <2> QED BY <1>2, <2>1 DEF RouteTasks, RouteLoser
<1> QED BY <1>1, <1>2

\* So are those of an advancement.
LEMMA AdvanceLight ==
  ASSUME NEW slot \in Slots, NEW e \in Entries \cup {None}
  PROVE  <<[do |-> "place", slot |-> slot, e |-> e],
           [do |-> "settle", m |-> slot[1]]>> \in Seq(Light)
<1>1. [do |-> "place", slot |-> slot, e |-> e] \in Light
  BY DEF Light, PlaceTask
<1>2. [do |-> "settle", m |-> slot[1]] \in Light
  BY DEF Light, SettleTask, Slots
<1> QED BY <1>1, <1>2

\* Recording a result on a match that was open begins with the write and the look.
LEMMA ResultShaped ==
  ASSUME NEW m \in Matches, NEW was \in OpenRow, NEW side \in Sides, NEW to \in Decided
  PROVE  Shaped(ResultTasks(m, was, side, to)) /\ ~After(ResultTasks(m, was, side, to))
<1> DEFINE onDecided == IF to = "walkover" THEN "skip" ELSE "refuse"
           w == [do |-> "write", m |-> m, was |-> was, to |-> to,
                 win |-> was[side], lose |-> was[Other(side)]]
           k == [do |-> "look", m |-> m, prior |-> <<was>>]
           winner == RouteTasks(WinnerTo[m], was[side], onDecided)
           loser == RouteLoser(LoserTo[m], was[Other(side)], onDecided)
           s == ResultTasks(m, was, side, to)
<1>1. was[side] \in Entries \cup {None} /\ was[Other(side)] \in Entries \cup {None}
  <2>1. was.a \in Entries \cup {None} /\ was.b \in Entries \cup {None}
    BY DEF OpenRow, RowType
  <2> QED BY <2>1 DEF Sides, Other
<1>2. w \in WriteTask /\ k \in LookTask
  BY <1>1 DEF WriteTask, LookTask, Prior
<1>3. winner \in Seq(Light) /\ loser \in Seq(Light)
  BY <1>1, RouteLight, BracketAssumption DEF BracketAssumption
<1>4. w \in Task /\ k \in Task /\ Light \subseteq Task
  BY <1>2 DEF Task, Heavy
<1> HIDE DEF w, k, winner, loser
<1>5. s = (<<w, k>> \o winner) \o loser
  BY DEF ResultTasks, w, k, winner, loser
<1> HIDE DEF s
<1>6. <<w, k>> \in Seq(Task) /\ Len(<<w, k>>) = 2 /\ <<w, k>>[1] = w /\ <<w, k>>[2] = k
  BY <1>4
<1>7. winner \in Seq(Task) /\ loser \in Seq(Task)
  BY <1>3, <1>4, SeqMonotonic
<1> DEFINE t == <<w, k>> \o winner
<1>8. /\ t \in Seq(Task) /\ Len(t) = 2 + Len(winner) /\ Len(winner) \in Nat
      /\ t[1] = w /\ t[2] = k
      /\ \A i \in 3..Len(t) : t[i] = winner[i - 2]
  BY <1>6, <1>7, ConcatProperties
<1> HIDE DEF t
<1>9. /\ s \in Seq(Task) /\ Len(s) = Len(t) + Len(loser) /\ Len(loser) \in Nat
      /\ \A i \in 1..Len(s) : s[i] = IF i <= Len(t) THEN t[i] ELSE loser[i - Len(t)]
  BY <1>5, <1>7, <1>8, ConcatProperties DEF t
<1>10. s[1] = w /\ s[2] = k
  BY <1>8, <1>9
<1>11. \A i \in 3..Len(s) : s[i] \in Light
  <2> TAKE i \in 3..Len(s)
  <2>1. CASE i <= Len(t)
    <3>1. i - 2 \in 1..Len(winner) /\ s[i] = winner[i - 2]
      BY <1>8, <1>9, <2>1
    <3> QED BY <1>3, <3>1, ElementOfSeq
  <2>2. CASE i > Len(t)
    <3>1. i - Len(t) \in 1..Len(loser) /\ s[i] = loser[i - Len(t)]
      BY <1>8, <1>9, <2>2
    <3> QED BY <1>3, <3>1, ElementOfSeq
  <2> QED BY <1>8, <2>1, <2>2
<1>12. \A i \in 2..Len(s) : s[i] \in Light \/ (i = 2 /\ s[1] \in WriteTask /\ s[2] \in LookTask /\ s[2].m = s[1].m)
  <2>1. k.m = w.m
    BY DEF k, w
  <2> QED BY <1>2, <1>8, <1>9, <1>10, <1>11, <2>1
<1>13. Head(s).do = "write"
  <2>1. Head(s) = w
    BY <1>8, <1>9, <1>10
  <2> QED BY <2>1 DEF w
<1> QED BY <1>9, <1>12, <1>13 DEF Shaped, After, s
-----------------------------------------------------------------------------
(* Steps that leave every result alone, and steps on a result of one's own. *)

\* What a step may not do to a match that somebody may hold.
Fixed(m) ==
    /\ row'[m].rated = row[m].rated
    /\ row[m].status \in Decided =>
           /\ row'[m].status = row[m].status
           /\ row'[m].win = row[m].win /\ row'[m].lose = row[m].lose

\* The invariant is kept, and no result changes under its rating.
Kept == PlayInv' /\ \A m \in Matches : row[m].rated # NoPair => Fixed(m)

\* A step of d on rows it leaves fixed but for m0, which nobody else holds, and
\* whose result d holds afterwards if it holds any.
LEMMA OwnStep ==
  ASSUME PlayInv, NEW d \in Desks, NEW new, NEW m0 \in Matches,
         Shaped(new), todo' = [todo EXCEPT ![d] = new], standing' = standing,
         row' \in [Matches -> RowType],
         \A n \in Matches : n # m0 \/ row[n].rated # NoPair => Fixed(n),
         row'[m0].rated # NoPair =>
             /\ row'[m0].status \in Decided
             /\ row'[m0].rated = <<row'[m0].win, row'[m0].lose>>,
         \A o \in Desks : o # d /\ After(todo[o]) => Head(todo[o]).m # m0,
         After(new) => Head(new).m = m0 /\ Shows(new)'
  PROVE  Kept
<1>1. todo' \in [Desks -> Seq(Task)] /\ todo'[d] = new
      /\ \A o \in Desks : o # d => todo'[o] = todo[o]
  BY DEF PlayInv, Shaped
<1>2. \A o \in Desks : Shaped(todo'[o])
  BY <1>1 DEF PlayInv
<1>3. ASSUME NEW o \in Desks, o # d, After(todo[o])
      PROVE  /\ Head(todo[o]).m \in Matches /\ Fixed(Head(todo[o]).m)
             /\ row[Head(todo[o]).m].status \in Decided
  <2>1. Head(todo[o]) \in Task /\ Shows(todo[o]) /\ todo[o] # << >>
    BY <1>3, TailLight DEF PlayInv, After
  <2>2. Head(todo[o]).m \in Matches
    BY <1>3, <2>1, KindOf DEF After, LookTask, RateTask, RestoreTask
  <2> QED BY <1>3, <2>1, <2>2 DEF Shows, IsDecided
<1>4. ASSUME NEW o \in Desks PROVE Shows(todo[o])'
  <2>1. CASE o = d
    BY <1>1, <2>1 DEF Shows, After, IsDecided
  <2>2. CASE o # d
    <3>1. Shows(todo[o])
      BY DEF PlayInv
    <3>2. todo'[o] = todo[o]
      BY <1>1, <2>2
    <3> QED BY <1>3, <2>2, <3>1, <3>2 DEF Shows, After, Fixed, IsDecided
  <2> QED BY <2>1, <2>2
<1>5. ASSUME NEW o \in Desks, NEW other \in Desks, o # other PROVE Alone(todo'[o], todo'[other])
  <2>1. Alone(todo[o], todo[other])
    BY <1>5 DEF PlayInv
  <2> QED BY <1>1, <1>5, <2>1 DEF Alone
<1>6. RatedIsResult'
  <2> SUFFICES ASSUME NEW n \in Matches, row'[n].rated # NoPair
               PROVE  /\ row'[n].status \in Decided
                      /\ row'[n].rated = <<row'[n].win, row'[n].lose>>
    BY DEF RatedIsResult, IsDecided
  <2>1. CASE n # m0
    BY <2>1 DEF Fixed, PlayInv, RatedIsResult, IsDecided
  <2> QED BY <2>1
<1>7. PlayInv'
  BY <1>1, <1>2, <1>4, <1>5, <1>6 DEF PlayInv, Alone, After
<1> QED BY <1>7 DEF Kept

\* A step that leaves every row fixed, and after which d holds no result but the
\* one it held before.
LEMMA FreeStep ==
  ASSUME PlayInv, NEW d \in Desks, NEW new,
         Shaped(new), todo' = [todo EXCEPT ![d] = new], standing' = standing,
         row' \in [Matches -> RowType],
         \A n \in Matches : Fixed(n),
         After(new) => /\ After(todo[d]) /\ Head(new).m = Head(todo[d]).m
                       /\ Head(new).m \in Matches /\ Shows(new)'
  PROVE  Kept
<1>1. RatedIsResult'
  BY DEF RatedIsResult, IsDecided, PlayInv, Fixed
<1>2. CASE After(new)
  <2> DEFINE m0 == Head(new).m
  <2>1. \A o \in Desks : o # d /\ After(todo[o]) => Head(todo[o]).m # m0
    BY <1>2 DEF PlayInv, Alone
  <2> HIDE DEF m0
  <2>2. m0 \in Matches /\ Head(new).m = m0
    BY <1>2 DEF m0
  <2> QED BY <1>1, <1>2, <2>1, <2>2, OwnStep DEF RatedIsResult, IsDecided
<1>3. CASE ~After(new)
  <2>1. todo' \in [Desks -> Seq(Task)] /\ todo'[d] = new
        /\ \A o \in Desks : o # d => todo'[o] = todo[o]
    BY DEF PlayInv, Shaped
  <2>2. \A o \in Desks : Shaped(todo'[o])
    BY <2>1 DEF PlayInv
  <2>3. ASSUME NEW o \in Desks, NEW other \in Desks, o # other PROVE Alone(todo'[o], todo'[other])
    <3>1. Alone(todo[o], todo[other])
      BY <2>3 DEF PlayInv
    <3> QED BY <1>3, <2>1, <2>3, <3>1 DEF Alone
  <2>4. ASSUME NEW o \in Desks PROVE Shows(todo[o])'
    <3>1. CASE o = d
      BY <1>3, <2>1, <3>1 DEF Shows, After
    <3>2. CASE o # d
      <4>1. Shows(todo[o]) /\ todo'[o] = todo[o] /\ Shaped(todo[o])
        BY <2>1, <3>2 DEF PlayInv
      <4>2. ASSUME After(todo[o]) PROVE Head(todo[o]).m \in Matches
        <5>1. Head(todo[o]) \in Task
          BY <4>1, <4>2, TailLight DEF After
        <5> QED BY <4>2, <5>1, KindOf DEF After, LookTask, RateTask, RestoreTask
      <4> QED BY <4>1, <4>2 DEF Shows, After, Fixed, IsDecided
    <3> QED BY <3>1, <3>2
  <2>5. PlayInv'
    BY <1>1, <2>1, <2>2, <2>3, <2>4 DEF PlayInv, Alone, After
  <2> QED BY <2>5 DEF Kept
<1> QED BY <1>2, <1>3
-----------------------------------------------------------------------------
(* Rows.                                                                   *)

\* A row with an entry put in a side, or a side emptied.
LEMMA SeatedRow ==
  ASSUME NEW r \in RowType, NEW side \in Sides, NEW e \in Entries \cup {None}
  PROVE  /\ [r EXCEPT ![side] = e] \in RowType
         /\ [r EXCEPT ![side] = e].status = r.status
         /\ [r EXCEPT ![side] = e].win = r.win /\ [r EXCEPT ![side] = e].lose = r.lose
         /\ [r EXCEPT ![side] = e].rated = r.rated
<1>1. CASE side = "a"
  BY <1>1 DEF RowType
<1>2. CASE side = "b"
  BY <1>2 DEF RowType
<1> QED BY <1>1, <1>2 DEF Sides

\* A match that has no result may change in all but its rating.
LEMMA OpenChange ==
  ASSUME row \in [Matches -> RowType], NEW m \in Matches, NEW new \in RowType,
         new.rated = row[m].rated, row[m].status \notin Decided,
         row' = [row EXCEPT ![m] = new]
  PROVE  row' \in [Matches -> RowType] /\ \A n \in Matches : Fixed(n)
  BY DEF Fixed

\* Changing nothing leaves every match fixed.
LEMMA SameRow ==
  ASSUME row \in [Matches -> RowType], row' = row
  PROVE  row' \in [Matches -> RowType] /\ \A n \in Matches : Fixed(n)
  BY DEF Fixed

\* The statuses of a match.
LEMMA Statuses == /\ Open \cap Decided = {} /\ Open \subseteq Status /\ Decided \subseteq Status
                  /\ "ready" \in Open /\ "pending" \in Open /\ "live" \in Open
  BY DEF Open, Decided, Status
-----------------------------------------------------------------------------
(* Operations begin.                                                       *)

\* A step that gives d a list without a result of its own, or drops its list, and
\* leaves every row fixed.
LEMMA PlainStep ==
  ASSUME PlayInv, NEW d \in Desks, NEW new,
         Shaped(new), ~After(new), todo' = [todo EXCEPT ![d] = new], standing' = standing,
         row' \in [Matches -> RowType], \A n \in Matches : Fixed(n)
  PROVE  Kept
  BY FreeStep

\* A list of one light request.
LEMMA OneLight ==
  ASSUME NEW k \in Light
  PROVE  Shaped(<<k>>) /\ ~After(<<k>>)
<1>1. <<k>> \in Seq(Light)
  OBVIOUS
<1> QED BY <1>1, ShapedLight

\* An operation of a running event begins.
LEMMA BeginKeeps ==
  ASSUME Ops \subseteq PlayOps, PlayInv, NEW d \in Desks, BeginStep(d)
  PROVE  Kept
<1>0. row \in [Matches -> RowType] /\ \A n \in Matches : row[n] \in RowType
  BY DEF PlayInv
<1>1. ASSUME NEW op, NEW tasks, Begin(d, op, tasks), standing' = standing,
             Shaped(tasks), ~After(tasks)
      PROVE  Kept
  BY <1>0, <1>1, PlainStep, SameRow DEF Begin
<1>2. ASSUME NEW m \in Matches, NEW side \in Sides, Enter(d, m, side) PROVE Kept
  BY <1>0, <1>1, <1>2, ResultShaped DEF Enter, OpenRow, Decided
<1>3. ASSUME NEW m \in Matches, NEW side \in Sides, Walkover(d, m, side) PROVE Kept
  BY <1>0, <1>1, <1>3, ResultShaped DEF Walkover, OpenRow, Decided
<1>4. ASSUME NEW m \in Matches, NEW side \in Sides, NEW e \in Entries \cup {None},
             SetEntry(d, m, side, e)
      PROVE  Kept
  <2> DEFINE k == [do |-> "seat", m |-> m, was |-> row[m], side |-> side, e |-> e]
  <2>1. k \in Light
    BY <1>0, <1>4 DEF SetEntry, Light, SeatTask, OpenRow
  <2>2. Begin(d, "seat", <<k>>) /\ standing' = standing
    BY <1>4 DEF SetEntry
  <2> HIDE DEF k
  <2> QED BY <1>1, <2>1, <2>2, OneLight
<1>5. ASSUME NEW m \in Matches, SetLive(d, m) PROVE Kept
  <2> DEFINE k == [do |-> "call", m |-> m, from |-> row[m].status]
  <2>1. k \in Light
    BY <1>0, <1>5 DEF SetLive, Light, CallTask, Open
  <2>2. Begin(d, "live", <<k>>) /\ standing' = standing
    BY <1>5 DEF SetLive
  <2> HIDE DEF k
  <2> QED BY <1>1, <2>1, <2>2, OneLight
<1>6. ASSUME NEW m \in Matches PROVE ~Void(d, m) /\ ~DoubleNoShow(d, m) /\ ~Unvoid(d, m) /\ ~Undo(d, m)
  BY DEF Void, DoubleNoShow, Unvoid, Undo, Begin, PlayOps
<1>7. ASSUME NEW m \in Matches, NEW side \in Sides, NEW played \in BOOLEAN PROVE ~Edit(d, m, side, played)
  BY DEF Edit, Correction, Begin, PlayOps
<1>8. ASSUME NEW e \in Entries PROVE ~ExitDraw(d, e)
  BY DEF ExitDraw, Begin, PlayOps
<1> QED BY <1>2, <1>3, <1>4, <1>5, <1>6, <1>7, <1>8 DEF BeginStep
-----------------------------------------------------------------------------
(* The requests.                                                           *)

\* What is known of a desk's list: its first request, and what follows.
LEMMA First ==
  ASSUME PlayInv, NEW d \in Desks, ~Idle(d)
  PROVE  /\ todo[d] # << >> /\ Shaped(todo[d]) /\ Head(todo[d]) \in Task
         /\ Head(todo[d]).do # "write" => Tail(todo[d]) \in Seq(Light)
         /\ Tail(todo[d]) \in Seq(Task)
         /\ todo \in [Desks -> Seq(Task)]
         /\ row \in [Matches -> RowType]
<1>1. todo[d] # << >> /\ Shaped(todo[d]) /\ todo \in [Desks -> Seq(Task)] /\ row \in [Matches -> RowType]
  BY DEF PlayInv, Idle
<1>2. todo[d] \in Seq(Task)
  BY <1>1
<1>3. Head(todo[d]) \in Task /\ Tail(todo[d]) \in Seq(Task)
  BY <1>1, <1>2, HeadTailProperties
<1> QED BY <1>1, <1>3, TailLight

\* Dropping a list.
LEMMA StopKeeps ==
  ASSUME PlayInv, NEW d \in Desks, Stop(d), standing' = standing,
         row' \in [Matches -> RowType], \A n \in Matches : Fixed(n)
  PROVE  Kept
<1>1. Shaped(<< >>) /\ ~After(<< >>)
  BY EmptySeq, ShapedLight
<1> QED BY <1>1, PlainStep DEF Stop

\* Going on after a request other than a write, perhaps with light requests first.
LEMMA ThenKeeps ==
  ASSUME PlayInv, NEW d \in Desks, ~Idle(d), Head(todo[d]).do # "write",
         NEW tasks \in Seq(Light), Then(d, tasks), standing' = standing,
         row' \in [Matches -> RowType], \A n \in Matches : Fixed(n)
  PROVE  Kept
<1>1. Tail(todo[d]) \in Seq(Light) /\ todo \in [Desks -> Seq(Task)]
  BY First
<1> DEFINE new == tasks \o Tail(todo[d])
<1>2. new \in Seq(Light)
  BY <1>1, ConcatProperties
<1>3. todo' = [todo EXCEPT ![d] = new]
  BY <1>1 DEF Then
<1> HIDE DEF new
<1>4. Shaped(new) /\ ~After(new)
  BY <1>2, ShapedLight
<1> QED BY <1>3, <1>4, PlainStep

\* Going on with the next request.
LEMMA GoKeeps ==
  ASSUME PlayInv, NEW d \in Desks, ~Idle(d), Head(todo[d]).do # "write",
         Go(d), standing' = standing,
         row' \in [Matches -> RowType], \A n \in Matches : Fixed(n)
  PROVE  Kept
  BY ThenKeeps, EmptySeq DEF Go

\* The list after Go, when nothing is put in front.
LEMMA GoTail ==
  ASSUME PlayInv, NEW d \in Desks, ~Idle(d), Go(d)
  PROVE  todo' = [todo EXCEPT ![d] = Tail(todo[d])]
<1>1. Tail(todo[d]) \in Seq(Task) /\ todo \in [Desks -> Seq(Task)]
  BY First
<1>2. << >> \o Tail(todo[d]) = Tail(todo[d])
  BY <1>1, ConcatEmptySeq
<1> QED BY <1>1, <1>2 DEF Go, Then

\* Giving up a rating leaves the restore of the match the desk holds.
LEMMA GiveUpKeeps ==
  ASSUME PlayInv, NEW d \in Desks, Doing(d, "look") \/ Doing(d, "rate"),
         GiveUpRating(d)
  PROVE  \E new : /\ Shaped(new) /\ todo' = [todo EXCEPT ![d] = new]
                  /\ After(new) /\ After(todo[d]) /\ Head(new).m = Head(todo[d]).m
                  /\ Head(new).m \in Matches /\ Head(new).do = "restore"
<1> DEFINE k == Head(todo[d])
           r == [do |-> "restore", m |-> k.m, was |-> k.prior[1]]
<1>1. k \in Task /\ todo[d] # << >> /\ k.do \in {"look", "rate"}
  BY First DEF Doing, Idle
<1>2. k.m \in Matches /\ \E was \in OpenRow : k.prior = <<was>>
  BY <1>1, KindOf DEF LookTask, RateTask, Prior
<1>3. k.prior # << >> /\ r \in RestoreTask
  BY <1>2 DEF RestoreTask
<1>4. todo' = [todo EXCEPT ![d] = <<r>>]
  BY <1>3 DEF GiveUpRating
<1>5. r \in Task
  BY <1>3 DEF Task, Heavy
<1>6. Shaped(<<r>>) /\ Head(<<r>>) = r /\ <<r>> # << >>
  BY <1>5 DEF Shaped
<1>7. After(todo[d]) /\ After(<<r>>) /\ r.m = k.m /\ r.do = "restore"
  BY <1>1, <1>6 DEF After
<1> HIDE DEF r, k
<1> QED BY <1>2, <1>4, <1>6, <1>7 DEF k

\* And so, where it changes no row, the invariant.
LEMMA GaveUp ==
  ASSUME PlayInv, NEW d \in Desks, Doing(d, "look") \/ Doing(d, "rate"),
         GiveUpRating(d), row' = row, standing' = standing
  PROVE  Kept
<1>1. row' \in [Matches -> RowType] /\ \A n \in Matches : Fixed(n)
  BY SameRow DEF PlayInv
<1>2. PICK new : /\ Shaped(new) /\ todo' = [todo EXCEPT ![d] = new]
                 /\ After(new) /\ After(todo[d]) /\ Head(new).m = Head(todo[d]).m
                 /\ Head(new).m \in Matches /\ Head(new).do = "restore"
  BY GiveUpKeeps
<1>3. Shows(new)'
  <2>1. Shows(todo[d])
    BY DEF PlayInv
  <2> QED BY <1>2, <2>1 DEF Shows, IsDecided
<1> QED BY <1>1, <1>2, <1>3, FreeStep
-----------------------------------------------------------------------------
(* The requests on a result.                                               *)

\* The write: the match was open, so nobody held it, and now its writer does.
LEMMA WriteKeeps ==
  ASSUME PlayInv, NEW d \in Desks, Write(d)
  PROVE  Kept
<1> DEFINE k == Head(todo[d])
           r == row[k.m]
           holds == r.status = k.was.status /\ (k.to = "completed" => SameOccupants(r, k.was))
           new == [r EXCEPT !.status = k.to, !.win = k.win, !.lose = k.lose]
<1>1. /\ CompareAndSwap(d, k.m, holds, new) /\ standing' = standing
      /\ ~Idle(d) /\ todo[d] # << >> /\ Shaped(todo[d]) /\ k.do = "write"
      /\ row \in [Matches -> RowType]
  BY First DEF Write, Doing, Idle
<1>2. /\ k \in WriteTask /\ Shaped(Tail(todo[d]))
      /\ After(Tail(todo[d])) => Head(Tail(todo[d])).m = k.m /\ Head(Tail(todo[d])).do = "look"
  BY <1>1, TailOfWrite
<1>3. CASE ~holds
  <2>1. row' = row /\ Stop(d)
    BY <1>1, <1>3 DEF CompareAndSwap
  <2> QED BY <1>1, <2>1, SameRow, StopKeeps
<1>4. CASE holds
  <2>1. row' = [row EXCEPT ![k.m] = new] /\ Go(d)
    BY <1>1, <1>4 DEF CompareAndSwap
  <2>2. k.m \in Matches /\ r \in RowType /\ r.status \in Open /\ k.to \in Decided
    BY <1>1, <1>2, <1>4 DEF WriteTask, OpenRow
  <2>3. new \in RowType /\ new.status \in Decided /\ new.rated = r.rated
    BY <1>2, <2>2, Statuses DEF WriteTask, RowType
  <2>4. r.rated = NoPair
    BY <2>2, Statuses DEF PlayInv, RatedIsResult, IsDecided
  <2>5. \A o \in Desks : After(todo[o]) => Head(todo[o]).m # k.m
    BY <2>2, Statuses DEF PlayInv, Shows, IsDecided
  <2>6. PICK tail : tail = Tail(todo[d])
    OBVIOUS
  <2>7. todo' = [todo EXCEPT ![d] = tail]
    BY <1>1, <2>1, <2>6, GoTail
  <2>8. PICK m0 \in Matches : m0 = k.m
    BY <2>2
  <2> HIDE DEF new, holds
  <2>9. row' \in [Matches -> RowType] /\ row'[m0] = new /\ \A n \in Matches : n # m0 \/ row[n].rated # NoPair => Fixed(n)
    BY <1>1, <2>1, <2>2, <2>3, <2>4, <2>8 DEF Fixed
  <2>10. After(tail) => Head(tail).m = m0 /\ Shows(tail)'
    <3>1. After(tail) => Head(tail).m = m0 /\ Head(tail).do = "look"
      BY <1>2, <2>6, <2>8
    <3> QED BY <2>3, <2>9, <3>1 DEF Shows, IsDecided
  <2> HIDE DEF k, r
  <2> QED BY <1>1, <1>2, <2>3, <2>4, <2>5, <2>6, <2>7, <2>8, <2>9, <2>10, OwnStep
<1> QED BY <1>3, <1>4

\* The look: what it will have rated is what the match shows.
LEMMA LookKeeps ==
  ASSUME PlayInv, NEW d \in Desks, Look(d)
  PROVE  Kept
<1> DEFINE k == Head(todo[d])
           r == row[k.m]
           q == [do |-> "rate", m |-> k.m, for |-> <<r.win, r.lose>>, prior |-> k.prior]
<1>1. /\ ~Idle(d) /\ Doing(d, "look") /\ k.do = "look" /\ k \in Task
      /\ Tail(todo[d]) \in Seq(Light) /\ todo \in [Desks -> Seq(Task)]
      /\ row' = row /\ standing' = standing /\ row \in [Matches -> RowType]
  BY First DEF Look, Doing, Idle
<1>2. row' \in [Matches -> RowType] /\ \A n \in Matches : Fixed(n)
  BY <1>1, SameRow
<1>3. k \in LookTask /\ k.m \in Matches
  BY <1>1, KindOf DEF LookTask
<1>4. CASE Go(d)
  BY <1>1, <1>2, <1>4, GoKeeps
<1>5. CASE Then(d, <<q>>) /\ r.win # None /\ r.lose # None
  <2>1. q \in RateTask
    BY <1>1, <1>3, <1>5 DEF RateTask, LookTask, RowType
  <2>2. q \in Task
    BY <2>1 DEF Task, Heavy
  <2>3. PICK new : new = <<q>> \o Tail(todo[d])
    OBVIOUS
  <2>4. todo' = [todo EXCEPT ![d] = new]
    BY <1>1, <1>5, <2>3 DEF Then
  <2>5. q.m = k.m /\ q.do = "rate" /\ q.for = <<r.win, r.lose>>
    OBVIOUS
  <2> HIDE DEF q
  <2>6. Shaped(new) /\ Head(new) = q /\ new # << >>
    BY <1>1, <2>2, <2>3, ShapedCons
  <2>7. After(todo[d]) /\ IsDecided(k.m)
    BY <1>1 DEF After, PlayInv, Shows, Doing
  <2>8. After(new) /\ Shows(new)'
    BY <1>1, <2>5, <2>6, <2>7 DEF After, Shows, IsDecided
  <2> QED BY <1>1, <1>2, <1>3, <2>4, <2>5, <2>6, <2>7, <2>8, FreeStep
<1> QED BY <1>4, <1>5 DEF Look

\* The rating is carried out on the match the desk holds.
LEMMA RatedRow ==
  ASSUME PlayInv, NEW d \in Desks, Doing(d, "rate"), row[Head(todo[d]).m].rated = NoPair,
         ApplyRating(Head(todo[d]).m, Head(todo[d]).for)
  PROVE  \E m0 \in Matches :
            /\ m0 = Head(todo[d]).m
            /\ row' \in [Matches -> RowType] /\ \A n \in Matches : n # m0 \/ row[n].rated # NoPair => Fixed(n)
            /\ row'[m0].status \in Decided
            /\ row'[m0].rated = <<row'[m0].win, row'[m0].lose>>
            /\ \A o \in Desks : o # d /\ After(todo[o]) => Head(todo[o]).m # m0
<1> DEFINE k == Head(todo[d])
<1>1. k \in RateTask /\ After(todo[d]) /\ row \in [Matches -> RowType]
  BY First, KindOf DEF Doing, Idle, After
<1>2. k.m \in Matches /\ k.for \in Entries \X Entries /\ k.do = "rate"
  BY <1>1 DEF RateTask
<1>3. row[k.m].status \in Decided /\ k.for = <<row[k.m].win, row[k.m].lose>>
  BY <1>1, <1>2 DEF PlayInv, Shows, IsDecided
<1>4. \A o \in Desks : o # d /\ After(todo[o]) => Head(todo[o]).m # k.m
  BY <1>1 DEF PlayInv, Alone
<1>5. row' = [row EXCEPT ![k.m].rated = k.for] /\ row[k.m].rated = NoPair
  BY DEF ApplyRating
<1> HIDE DEF k
<1>6. row' \in [Matches -> RowType] /\ \A n \in Matches : n # k.m \/ row[n].rated # NoPair => Fixed(n)
  BY <1>1, <1>2, <1>5 DEF RowType, Fixed
<1>7. row'[k.m].status \in Decided /\ row'[k.m].rated = <<row'[k.m].win, row'[k.m].lose>>
  <2>1. row[k.m] \in RowType
    BY <1>1, <1>2
  <2> QED BY <1>1, <1>2, <1>3, <1>5, <2>1 DEF RowType
<1> QED BY <1>2, <1>4, <1>6, <1>7 DEF k

\* The rating is answered, or refused because the match is rated.
LEMMA RateKeeps ==
  ASSUME PlayInv, NEW d \in Desks, Rate(d)
  PROVE  Kept
<1> DEFINE k == Head(todo[d])
<1>1. Doing(d, "rate") /\ ~Idle(d) /\ k.do # "write" /\ standing' = standing
      /\ Tail(todo[d]) \in Seq(Light)
  BY First DEF Rate, Doing, Idle
<1>2. CASE row[k.m].rated = NoPair
  <2>1. ApplyRating(k.m, k.for) /\ Go(d)
    BY <1>2 DEF Rate
  <2>2. PICK m0 \in Matches :
            /\ row' \in [Matches -> RowType] /\ \A n \in Matches : n # m0 \/ row[n].rated # NoPair => Fixed(n)
            /\ row'[m0].status \in Decided
            /\ row'[m0].rated = <<row'[m0].win, row'[m0].lose>>
            /\ \A o \in Desks : o # d /\ After(todo[o]) => Head(todo[o]).m # m0
    BY <1>1, <1>2, <2>1, RatedRow
  <2>3. PICK tail : tail = Tail(todo[d])
    OBVIOUS
  <2>4. todo' = [todo EXCEPT ![d] = tail] /\ Shaped(tail) /\ ~After(tail)
    BY <1>1, <2>1, <2>3, GoTail, ShapedLight
  <2> QED BY <1>1, <2>2, <2>4, OwnStep
<1>3. CASE row[k.m].rated # NoPair
  BY <1>1, <1>3, GaveUp DEF Rate
<1> QED BY <1>2, <1>3

\* The restore takes off an unrated result of its own.
LEMMA RestoreKeeps ==
  ASSUME PlayInv, NEW d \in Desks, Restore(d)
  PROVE  Kept
<1> DEFINE k == Head(todo[d])
           new == [row[k.m] EXCEPT !.status = k.was.status, !.win = k.was.win, !.lose = k.was.lose]
<1>1. /\ k \in RestoreTask /\ After(todo[d]) /\ Stop(d) /\ standing' = standing
      /\ row \in [Matches -> RowType]
  BY First, KindOf DEF Restore, Doing, Idle, After
<1>2. CASE row[k.m].rated # NoPair
  <2>1. row' = row
    BY <1>2 DEF Restore
  <2> QED BY <1>1, <2>1, SameRow, StopKeeps
<1>3. CASE row[k.m].rated = NoPair
  <2>1. k.m \in Matches /\ k.was \in RowType /\ row[k.m] \in RowType
    BY <1>1 DEF RestoreTask, OpenRow
  <2>2. row' = [row EXCEPT ![k.m] = new]
    BY <1>1, <1>3, <2>1 DEF Restore
  <2>3. new \in RowType /\ new.rated = NoPair
    BY <1>3, <2>1 DEF RowType
  <2>4. \A o \in Desks : o # d /\ After(todo[o]) => Head(todo[o]).m # k.m
    BY <1>1 DEF PlayInv, Alone
  <2>5. Shaped(<< >>) /\ ~After(<< >>) /\ todo' = [todo EXCEPT ![d] = << >>]
    BY <1>1, EmptySeq, ShapedLight DEF Stop
  <2> HIDE DEF new
  <2>6. PICK m0 \in Matches : m0 = k.m
    BY <2>1
  <2>7. row' \in [Matches -> RowType] /\ row'[m0].rated = NoPair /\ \A n \in Matches : n # m0 \/ row[n].rated # NoPair => Fixed(n)
    BY <1>1, <1>3, <2>1, <2>2, <2>3, <2>6 DEF Fixed
  <2> QED BY <1>1, <2>4, <2>5, <2>6, <2>7, OwnStep
<1> QED BY <1>2, <1>3
-----------------------------------------------------------------------------
(* The requests that move entries, fill seats and call matches.            *)

\* The slot an entry goes to is read, and written next.
LEMMA AdvanceKeeps ==
  ASSUME PlayInv, NEW d \in Desks, Doing(d, "route"), Advance(d),
         row' = row, standing' = standing
  PROVE  Kept
<1>1. /\ ~Idle(d) /\ Head(todo[d]).do = "route" /\ Head(todo[d]) \in RouteTask
      /\ row \in [Matches -> RowType]
  BY First, KindOf DEF Doing, Idle
<1>2. PICK tasks : tasks = <<[do |-> "place", slot |-> Head(todo[d]).slot, e |-> Head(todo[d]).e],
                             [do |-> "settle", m |-> Head(todo[d]).slot[1]]>>
  OBVIOUS
<1>3. tasks \in Seq(Light)
  <2>1. Head(todo[d]).slot \in Slots /\ Head(todo[d]).e \in Entries \cup {None}
    BY <1>1 DEF RouteTask
  <2> QED BY <1>2, <2>1, AdvanceLight
<1>4. Then(d, tasks)
  BY <1>2 DEF Advance
<1> QED BY <1>1, <1>3, <1>4, SameRow, ThenKeeps

\* Moving an entry along.
LEMMA RouteKeeps ==
  ASSUME PlayInv, NEW d \in Desks, Route(d)
  PROVE  Kept
<1>1. /\ Doing(d, "route") /\ ~Idle(d) /\ Head(todo[d]).do # "write"
      /\ row' = row /\ standing' = standing /\ row \in [Matches -> RowType]
  BY First DEF Route, Doing, Idle
<1>2. Advance(d) \/ Go(d) \/ Stop(d)
  BY DEF Route
<1>3. row' \in [Matches -> RowType] /\ \A n \in Matches : Fixed(n)
  BY <1>1, SameRow
<1> QED BY <1>1, <1>2, <1>3, AdvanceKeeps, GoKeeps, StopKeeps

\* Writing an entry into a slot, whatever the match shows.
LEMMA PlaceKeeps ==
  ASSUME PlayInv, NEW d \in Desks, Place(d)
  PROVE  Kept
<1> DEFINE k == Head(todo[d])
<1>1. /\ ~Idle(d) /\ k.do # "write" /\ k \in PlaceTask /\ Go(d) /\ standing' = standing
      /\ row \in [Matches -> RowType]
  BY First, KindOf DEF Place, Doing, Idle
<1>2. PICK m \in Matches, side \in Sides, e \in Entries \cup {None} :
          m = k.slot[1] /\ side = k.slot[2] /\ e = k.e
  BY <1>1 DEF PlaceTask, Slots
<1> DEFINE new == [row[m] EXCEPT ![side] = e]
<1>3. /\ new \in RowType /\ new.status = row[m].status /\ new.rated = row[m].rated
      /\ new.win = row[m].win /\ new.lose = row[m].lose
  BY <1>1, SeatedRow
<1>4. row' = [row EXCEPT ![m] = new]
  BY <1>1, <1>2 DEF Place
<1> HIDE DEF new
<1>5. row' \in [Matches -> RowType] /\ \A n \in Matches : Fixed(n)
  BY <1>1, <1>3, <1>4 DEF Fixed
<1> HIDE DEF k
<1> QED BY <1>1, <1>5, GoKeeps DEF k

\* Settling a match: nobody is out, so nobody forfeits.
LEMMA SettleKeeps ==
  ASSUME PlayInv, NEW d \in Desks, Settle(d)
  PROVE  Kept
<1> DEFINE k == Head(todo[d])
           r == row[k.m]
           out == {s \in Sides : standing[r[s]] = "out"}
           q == [do |-> "ready", m |-> k.m]
<1>1. /\ ~Idle(d) /\ k.do # "write" /\ k \in SettleTask
      /\ row' = row /\ standing' = standing /\ row \in [Matches -> RowType]
      /\ standing = [e \in Entries |-> "in"]
  BY First, KindOf DEF Settle, Doing, Idle, PlayInv
<1>2. row' \in [Matches -> RowType] /\ \A n \in Matches : Fixed(n)
  BY <1>1, SameRow
<1>3. k.m \in Matches
  BY <1>1 DEF SettleTask
<1>4. CASE ~Known(r)
  <2>1. Go(d)
    BY <1>4 DEF Settle
  <2> QED BY <1>1, <1>2, <2>1, GoKeeps
<1>5. CASE Known(r)
  <2>1. r.a \in Entries /\ r.b \in Entries
    BY <1>1, <1>3, <1>5 DEF Known, RowType
  <2>2. \A s \in Sides : standing[r[s]] = "in"
    BY <1>1, <2>1 DEF Sides
  <2>3. out = {}
    BY <2>2
  <2>4. Cardinality(out) # 1
    BY <2>3, FS_EmptySet
  <2>5. Then(d, <<q>>)
    BY <1>5, <2>4 DEF Settle
  <2>6. q \in Light
    BY <1>3 DEF Light, SettleTask
  <2>7. <<q>> \in Seq(Light)
    BY <2>6
  <2> HIDE DEF q, out, k, r
  <2> QED BY <1>1, <1>2, <2>5, <2>7, ThenKeeps DEF k
<1> QED BY <1>4, <1>5

\* A match becomes ready.
LEMMA ReadyKeeps ==
  ASSUME PlayInv, NEW d \in Desks, Ready(d)
  PROVE  Kept
<1> DEFINE k == Head(todo[d])
<1>1. /\ ~Idle(d) /\ k.do # "write" /\ k \in SettleTask /\ k.m \in Matches /\ Go(d)
      /\ standing' = standing /\ row \in [Matches -> RowType]
  BY First, KindOf DEF Ready, Doing, Idle, SettleTask
<1>2. row' \in [Matches -> RowType] /\ \A n \in Matches : Fixed(n)
  <2>1. CASE row[k.m].status \in {"pending", "ready"}
    <3> DEFINE new == [row[k.m] EXCEPT !.status = "ready"]
    <3>1. new \in RowType /\ new.rated = row[k.m].rated
      BY <1>1, Statuses DEF RowType
    <3>2. row' = [row EXCEPT ![k.m] = new] /\ row[k.m].status \notin Decided
      BY <1>1, <2>1 DEF Ready, Decided
    <3> HIDE DEF new
    <3> QED BY <1>1, <3>1, <3>2 DEF Fixed
  <2>2. CASE row[k.m].status \notin {"pending", "ready"}
    <3>1. row' = row
      BY <2>2 DEF Ready
    <3> QED BY <1>1, <3>1, SameRow
  <2> QED BY <2>1, <2>2
<1> QED BY <1>1, <1>2, GoKeeps

\* A seat is filled or emptied by hand, on the open match that was read.
LEMMA SeatKeeps ==
  ASSUME PlayInv, NEW d \in Desks, WriteSeat(d)
  PROVE  Kept
<1> DEFINE k == Head(todo[d])
           r == row[k.m]
           status == IF k.e # None /\ k.was[Other(k.side)] # None THEN "ready" ELSE "pending"
           holds == r.status = k.was.status /\ \A s \in Sides : r[s] = k.was[s]
           seat == [r EXCEPT ![k.side] = k.e]
           new == [seat EXCEPT !.status = status]
<1>1. /\ ~Idle(d) /\ k.do # "write" /\ k \in SeatTask /\ CompareAndSwap(d, k.m, holds, new)
      /\ standing' = standing /\ row \in [Matches -> RowType]
  BY First, KindOf DEF WriteSeat, Doing, Idle
<1>2. CASE ~holds
  <2>1. row' = row /\ Stop(d)
    BY <1>1, <1>2 DEF CompareAndSwap
  <2> QED BY <1>1, <2>1, SameRow, StopKeeps
<1>3. CASE holds
  <2>1. row' = [row EXCEPT ![k.m] = new] /\ Go(d)
    BY <1>1, <1>3 DEF CompareAndSwap
  <2>2. /\ k.m \in Matches /\ r \in RowType /\ r.status \in Open
        /\ k.side \in Sides /\ k.e \in Entries \cup {None}
    BY <1>1, <1>3 DEF SeatTask, OpenRow
  <2>3. seat \in RowType /\ seat.rated = r.rated
    BY <2>2, SeatedRow
  <2>4. status \in Status
    BY Statuses
  <2> HIDE DEF seat, status
  <2>5. new \in RowType /\ new.rated = r.rated
    BY <2>3, <2>4 DEF RowType
  <2> HIDE DEF new
  <2>6. row' \in [Matches -> RowType] /\ \A n \in Matches : Fixed(n)
    BY <1>1, <2>1, <2>2, <2>5, Statuses DEF Fixed
  <2> QED BY <1>1, <2>1, <2>6, GoKeeps
<1> QED BY <1>2, <1>3

\* A match is called to a court, or off it.
LEMMA CallKeeps ==
  ASSUME PlayInv, NEW d \in Desks, WriteLive(d)
  PROVE  Kept
<1> DEFINE k == Head(todo[d])
           r == row[k.m]
           new == [r EXCEPT !.status = IF k.from = "live" THEN "ready" ELSE "live"]
<1>1. /\ ~Idle(d) /\ k.do # "write" /\ k \in CallTask
      /\ CompareAndSwap(d, k.m, r.status = k.from, new)
      /\ standing' = standing /\ row \in [Matches -> RowType]
  BY First, KindOf DEF WriteLive, Doing, Idle
<1>2. CASE r.status # k.from
  <2>1. row' = row /\ Stop(d)
    BY <1>1, <1>2 DEF CompareAndSwap
  <2> QED BY <1>1, <2>1, SameRow, StopKeeps
<1>3. CASE r.status = k.from
  <2>1. row' = [row EXCEPT ![k.m] = new] /\ Go(d)
    BY <1>1, <1>3 DEF CompareAndSwap
  <2>2. k.m \in Matches /\ r \in RowType /\ r.status \in Open
    BY <1>1, <1>3 DEF CallTask
  <2>3. new \in RowType /\ new.rated = r.rated
    BY <2>2, Statuses DEF RowType
  <2> HIDE DEF new
  <2>4. row' \in [Matches -> RowType] /\ \A n \in Matches : Fixed(n)
    BY <1>1, <2>1, <2>2, <2>3, Statuses DEF Fixed
  <2> QED BY <1>1, <2>1, <2>4, GoKeeps
<1> QED BY <1>2, <1>3
-----------------------------------------------------------------------------
(* The other requests are of operations that no desk begins here, and a    *)
(* request may fail.                                                       *)

\* A desk runs the first of its requests.
LEMMA RequestKeeps ==
  ASSUME PlayInv, NEW d \in Desks, Request(d)
  PROVE  Kept
<1>1. ASSUME NEW what, Doing(d, what) 
      PROVE  what \in {"write", "look", "rate", "restore", "route", "place", "settle", "ready",
                       "seat", "call"}
  BY <1>1, First, Kinds DEF Doing, Idle
<1>2. /\ ~Guard(d) /\ ~Reverse(d) /\ ~Find(d) /\ ~Clear(d) /\ ~WriteVoid(d) /\ ~WriteNoShow(d)
      /\ ~Mark(d) /\ ~WriteUnvoid(d) /\ ~WriteUndo(d) /\ ~WriteEdit(d) /\ ~List(d) /\ ~Forfeit(d)
  <2>1. /\ ~Doing(d, "guard") /\ ~Doing(d, "reverse") /\ ~Doing(d, "find") /\ ~Doing(d, "clear")
        /\ ~Doing(d, "void") /\ ~Doing(d, "noshow") /\ ~Doing(d, "mark") /\ ~Doing(d, "unvoid")
        /\ ~Doing(d, "undo") /\ ~Doing(d, "edit") /\ ~Doing(d, "list") /\ ~Doing(d, "forfeit")
    BY <1>1
  <2> QED BY <2>1 DEF Guard, Reverse, Find, Clear, WriteVoid, WriteNoShow, Mark, WriteUnvoid,
                      WriteUndo, WriteEdit, List, Forfeit
<1> QED BY <1>2, WriteKeeps, LookKeeps, RateKeeps, RestoreKeeps, RouteKeeps, PlaceKeeps,
           SettleKeeps, ReadyKeeps, SeatKeeps, CallKeeps DEF Request

\* A request fails, a rating possibly after it was carried out.
LEMMA FaultKeeps ==
  ASSUME PlayInv, NEW d \in Desks, Fault(d)
  PROVE  Kept
<1>1. ~Idle(d) /\ standing' = standing /\ row \in [Matches -> RowType]
  BY DEF Fault, PlayInv
<1>2. CASE Stop(d) /\ row' = row
  BY <1>1, <1>2, SameRow, StopKeeps
<1>3. CASE (Doing(d, "look") \/ Doing(d, "rate")) /\ GiveUpRating(d) /\ row' = row
  BY <1>1, <1>3, GaveUp
<1>4. CASE /\ Doing(d, "rate") /\ row[Head(todo[d]).m].rated = NoPair
           /\ ApplyRating(Head(todo[d]).m, Head(todo[d]).for)
           /\ GiveUpRating(d)
  <2>1. PICK m0 \in Matches :
            /\ m0 = Head(todo[d]).m
            /\ row' \in [Matches -> RowType] /\ \A n \in Matches : n # m0 \/ row[n].rated # NoPair => Fixed(n)
            /\ row'[m0].status \in Decided
            /\ row'[m0].rated = <<row'[m0].win, row'[m0].lose>>
            /\ \A o \in Desks : o # d /\ After(todo[o]) => Head(todo[o]).m # m0
    BY <1>4, RatedRow
  <2>2. PICK new : /\ Shaped(new) /\ todo' = [todo EXCEPT ![d] = new]
                   /\ After(new) /\ After(todo[d]) /\ Head(new).m = Head(todo[d]).m
                   /\ Head(new).m \in Matches /\ Head(new).do = "restore"
    BY <1>4, GiveUpKeeps
  <2>3. Head(new).m = m0 /\ Shows(new)'
    BY <2>1, <2>2 DEF Shows, IsDecided
  <2> QED BY <1>1, <2>1, <2>2, <2>3, OwnStep
<1>5. CASE (\E what \in Unchecked : Doing(d, what)) /\ Go(d) /\ row' = row
  <2>1. Head(todo[d]).do # "write"
    BY <1>5 DEF Unchecked, Doing
  <2> QED BY <1>1, <1>5, <2>1, SameRow, GoKeeps
<1>6. CASE Doing(d, "route") /\ Advance(d) /\ row' = row
  BY <1>1, <1>6, AdvanceKeeps
<1> QED BY <1>2, <1>3, <1>4, <1>5, <1>6 DEF Fault
-----------------------------------------------------------------------------
(* The theorems.                                                           *)

\* Before the first operation.
LEMMA StartsWell == Init => PlayInv
<1> SUFFICES ASSUME Init PROVE PlayInv
  OBVIOUS
<1>1. \A m \in Matches : Seated(m) \in RowType /\ Seated(m).rated = NoPair
  <2> TAKE m \in Matches
  <2>1. Seats[m]["a"] \in Entries \cup {None} /\ Seats[m]["b"] \in Entries \cup {None}
    BY BracketAssumption DEF BracketAssumption, Sides
  <2> QED BY <2>1 DEF Seated, RowType, Status, Open
<1>2. row \in [Matches -> RowType] /\ RatedIsResult
  BY <1>1 DEF Init, RatedIsResult
<1>3. \A d \in Desks : todo[d] = << >>
  BY DEF Init
<1>4. Shaped(<< >>) /\ ~After(<< >>) /\ << >> \in Seq(Task)
  BY EmptySeq, ShapedLight
<1> QED BY <1>2, <1>3, <1>4 DEF Init, PlayInv, Shows, Alone

\* Every step keeps the invariant and every result that is rated.
LEMMA StepKeeps ==
  ASSUME Ops \subseteq PlayOps, PlayInv, [Next]_resultVars
  PROVE  Kept
<1>1. CASE Next
  BY <1>1, BeginKeeps, RequestKeeps, FaultKeeps DEF Next
<1>2. CASE UNCHANGED resultVars
  BY <1>2 DEF resultVars, Kept, PlayInv, RatedIsResult, IsDecided, Shows, After, Alone, Fixed
<1> QED BY <1>1, <1>2

\* Whatever desks enter, forfeit, seat and call at once in any bracket, and whatever
\* requests fail, a rating that counts is that of the result on the match (results.ts,
\* undoDecidedResult).
THEOREM RatedMatchesShowTheirResult ==
  ASSUME Ops \subseteq PlayOps
  PROVE  Spec => []RatedIsResult
<1>1. Init => PlayInv
  BY StartsWell
<1>2. PlayInv /\ [Next]_resultVars => PlayInv'
  BY StepKeeps DEF Kept
<1>3. PlayInv => RatedIsResult
  BY DEF PlayInv
<1>4. Spec => []PlayInv
  BY <1>1, <1>2, PTL DEF Spec
<1> QED BY <1>3, <1>4, PTL

\* And that result does not change while it is rated: the database refuses a second
\* result and the desk that lost the race does not take the first one off.
THEOREM RatedResultsStand ==
  ASSUME Ops \subseteq PlayOps
  PROVE  Spec => ResultStands
<1>1. Init => PlayInv
  BY StartsWell
<1>2. PlayInv /\ [Next]_resultVars => PlayInv'
  BY StepKeeps DEF Kept
<1> DEFINE Stands == \A m \in Matches : row[m].rated # NoPair =>
               \/ row'[m].rated = NoPair
               \/ /\ row'[m].rated = row[m].rated /\ row'[m].status = row[m].status
                  /\ row'[m].win = row[m].win /\ row'[m].lose = row[m].lose
<1>3. PlayInv /\ [Next]_resultVars => Stands
  <2> SUFFICES ASSUME PlayInv, [Next]_resultVars, NEW m \in Matches, row[m].rated # NoPair
               PROVE  /\ row'[m].rated = row[m].rated /\ row'[m].status = row[m].status
                      /\ row'[m].win = row[m].win /\ row'[m].lose = row[m].lose
    OBVIOUS
  <2>1. Fixed(m)
    BY StepKeeps DEF Kept
  <2>2. row[m].status \in Decided
    BY DEF PlayInv, RatedIsResult, IsDecided
  <2> QED BY <2>1, <2>2 DEF Fixed
<1>4. Spec => []PlayInv
  BY <1>1, <1>2, PTL DEF Spec
<1>5. PlayInv /\ [Next]_resultVars => [Stands]_resultVars
  BY <1>3
<1> QED BY <1>4, <1>5, PTL DEF Spec, ResultStands
=============================================================================
