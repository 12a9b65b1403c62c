-------------------------------- MODULE PathProofs -------------------------------
(***************************************************************************)
(* The entries on their way along a knockout draw, where one desk is at    *)
(* work and seats nobody by hand: a decided match shows its own two sides, *)
(* and the swings are those of the ratings that count.  Until a correction *)
(* gives a match to its empty side, who stands in a later round was sent   *)
(* there by the result that feeds it, and a match that is ready has both   *)
(* its entries.                                                            *)
(*                                                                         *)
(* The invariant is stated for a set ops of operations, to which all that  *)
(* begin belong; it says less when "reaward", that correction, is of them. *)
(***************************************************************************)
EXTENDS DeskProofs

At(slot) == row[slot[1]][slot[2]]

\* A result of m sends e to the slot, and a decided match does so now.
Carries(m, win, lose, slot, e) ==
    \/ WinnerTo[m] = slot /\ win = e
    \/ LoserTo[m] = slot /\ lose = e
Source(slot, e) ==
    \E m \in Matches : IsDecided(m) /\ Carries(m, row[m].win, row[m].lose, slot, e)
Makes(k, slot, e) == Carries(k.m, k.win, k.lose, slot, e)

(* What the requests Q that are still to be made say of one of them, k.    *)

\* An entry, or nobody, is on its way: the result that sends it is about to be written,
\* or stands and is not about to be taken back.
Unerased(slot, Q) == \A l \in Q : l.do \in Erasing => slot \notin FedBy(l.m)
Sent(k, Q) ==
    \/ \E l \in Q : l.do \in {"write", "edit"} /\ Makes(l, k.slot, k.e)
    \/ Source(k.slot, k.e) /\ Unerased(k.slot, Q)

\* The match of a slot is undecided, or will still be looked at.
Passed(k, Q) ==
    \/ ~IsDecided(k.slot[1])
    \/ \E l \in Q : l.do = "guard" /\ l.m = k.slot[1]

\* The slots a match feeds are empty, or about to be emptied, or written anew.
Emptying(k, Q) ==
    \A slot \in FedBy(k.m) :
        \/ At(slot) = None
        \/ \E l \in Q : l.do \in {"find", "clear"} /\ l.slot = slot /\ l.e = At(slot)
Rewriting(k, Q) ==
    \A slot \in FedBy(k.m) :
        \/ At(slot) = None
        \/ \E l \in Q : l.do = "place" /\ l.slot = slot /\ l.e # None

\* A result names the two sides of its match, which are not the same entry.
PairOf(k) ==
    /\ k.win = k.lose => k.win = None
    /\ \E side \in Sides : k.win = k.was[side] /\ k.lose = k.was[Other(side)]

OnPath(k, Q, reach, ops) ==
    /\ k.do # "seat"
    /\ k.do \in {"route", "place"} => k.e \in reach[k.slot[1]][k.slot[2]] \cup {None}
    /\ k.do \in {"place", "find", "clear"} => Passed(k, Q)
    /\ "reaward" \notin ops =>
           /\ k.do \in {"route", "place"} => Sent(k, Q)
           /\ k.do \in {"void", "undo"} => Emptying(k, Q)
           /\ k.do = "edit" => Rewriting(k, Q)
    /\ k.do \in {"write", "edit"} => PairOf(k)

\* Who stands in a slot that is fed was sent there, but for the moment in which a
\* correction writes the slots anew.
Followed(s, ops) ==
    "reaward" \notin ops =>
        \A m \in Matches : \A slot \in FedBy(m) :
            \/ At(slot) = None
            \/ Source(slot, At(slot))
            \/ /\ s # << >> /\ Head(s).do = "place"
               /\ \E l \in Range(s) : l.do = "place" /\ l.slot = slot /\ l.e # None

Along(s, reach, ops) ==
    Followed(s, ops) /\ \A k \in Range(s) : OnPath(k, Range(s), reach, ops)

\* A decided match shows its own two sides, or where one is empty, nobody.
PairsPlayed ==
    \A m \in Matches : IsDecided(m) =>
        /\ row[m].win = row[m].lose => row[m].win = None
        /\ \E side \in Sides : row[m].win = row[m][side] /\ row[m].lose = row[m][Other(side)]

Within(reach) == \A m \in Matches, side \in Sides : row[m][side] \in reach[m][side] \cup {None}

PathInv(reach, ops) ==
    /\ Within(reach) /\ PairsPlayed /\ SwingAddsUp
    /\ \A d \in Desks : Along(todo[d], reach, ops)
-----------------------------------------------------------------------------
(* The draw.                                                               *)

\* A slot that is fed is a side of another match.
LEMMA FedSlots ==
  ASSUME NEW m \in Matches, NEW slot \in FedBy(m)
  PROVE  /\ slot \in Slots /\ slot[1] \in Matches /\ slot[2] \in Sides /\ slot[1] # m
         /\ slot = <<slot[1], slot[2]>>
  BY BracketAssumption, SlotOf DEF BracketAssumption, FedBy, Slots

\* What sends to a slot that a match of a knockout feeds is that match.
LEMMA OneSource ==
  ASSUME NEW reach, Knockout(reach), NEW m \in Matches, NEW slot \in FedBy(m),
         NEW e, Source(slot, e)
  PROVE  IsDecided(m) /\ Carries(m, row[m].win, row[m].lose, slot, e)
<1>1. PICK n \in Matches : IsDecided(n) /\ Carries(n, row[n].win, row[n].lose, slot, e)
  BY DEF Source
<1>2. n = m
  BY <1>1 DEF Knockout, FedBy, Carries
<1> QED BY <1>1, <1>2

\* The two sides of a match of a knockout are different entries.
LEMMA TwoEntries ==
  ASSUME NEW reach, Knockout(reach), Within(reach), NEW m \in Matches, NEW side \in Sides,
         row[m][side] # None
  PROVE  row[m][side] # row[m][Other(side)]
  BY DEF Knockout, Within, Sides, Other
-----------------------------------------------------------------------------
(* What a step leaves of the paths.                                        *)

\* A request k of R is on its path among the requests Q that are left, or come, after
\* a step, if no result it needs is taken back and no match it writes to is decided,
\* and if what is gone from R has done its work.
LEMMA Onward ==
  ASSUME NEW reach, NEW ops, NEW R, NEW Q, NEW k \in R, OnPath(k, R, reach, ops),
         \A l \in Q : l.do \in Erasing => l \in R,
         \A l \in R : l.do \in {"write", "edit"} =>
             \/ l \in Q
             \/ /\ \A slot, e : Makes(l, slot, e) => Source(slot, e)'
                /\ \A q \in Q : q.do \notin Erasing,
         k.do \in {"place", "find", "clear"} =>
             /\ IsDecided(k.slot[1])' => IsDecided(k.slot[1])
             /\ \A l \in R : l.do = "guard" => l \in Q \/ ~IsDecided(l.m)',
         k.do \in {"void", "undo", "edit"} =>
             \A slot \in FedBy(k.m) : At(slot)' \in {At(slot), None},
         k.do \in {"void", "undo"} =>
             \A l \in R : l.do \in {"find", "clear"} =>
                 \/ \E q \in Q : q.do \in {"find", "clear"} /\ q.slot = l.slot /\ q.e = l.e
                 \/ At(l.slot)' # l.e,
         k.do = "edit" => \A l \in R : l.do = "place" => l \in Q,
         k.do \in {"route", "place"} /\ Source(k.slot, k.e) /\ Unerased(k.slot, R) =>
             Source(k.slot, k.e)'
  PROVE  OnPath(k, Q, reach, ops)'
<1>1. "reaward" \notin ops /\ k.do \in {"route", "place"} => Sent(k, Q)'
  <2> SUFFICES ASSUME "reaward" \notin ops, k.do \in {"route", "place"} PROVE Sent(k, Q)'
    OBVIOUS
  <2>1. CASE \E l \in R : l.do \in {"write", "edit"} /\ Makes(l, k.slot, k.e)
    <3>1. PICK l \in R : l.do \in {"write", "edit"} /\ Makes(l, k.slot, k.e)
      BY <2>1
    <3>2. CASE l \in Q
      BY <3>1, <3>2 DEF Sent, Makes, Carries
    <3>3. CASE l \notin Q
      <4>1. Source(k.slot, k.e)' /\ \A q \in Q : q.do \notin Erasing
        BY <3>1, <3>3
      <4> QED BY <4>1 DEF Sent, Unerased
    <3> QED BY <3>2, <3>3
  <2>2. CASE Source(k.slot, k.e) /\ Unerased(k.slot, R)
    <3>1. Source(k.slot, k.e)'
      BY <2>2
    <3>2. Unerased(k.slot, Q)
      BY <2>2 DEF Unerased
    <3> QED BY <3>1, <3>2 DEF Sent, Unerased, FedBy
  <2> QED BY <2>1, <2>2 DEF OnPath, Sent
<1>2. k.do \in {"place", "find", "clear"} => Passed(k, Q)'
  BY DEF OnPath, Passed
<1>3. "reaward" \notin ops /\ k.do \in {"void", "undo"} => Emptying(k, Q)'
  <2> SUFFICES ASSUME "reaward" \notin ops, k.do \in {"void", "undo"}, NEW slot \in FedBy(k.m),
                      At(slot)' # None
               PROVE  \E q \in Q : q.do \in {"find", "clear"} /\ q.slot = slot /\ q.e = At(slot)'
    BY DEF Emptying, FedBy
  <2>1. At(slot)' = At(slot) /\ At(slot) # None
    OBVIOUS
  <2>2. PICK l \in R : l.do \in {"find", "clear"} /\ l.slot = slot /\ l.e = At(slot)
    BY <2>1 DEF OnPath, Emptying
  <2> QED BY <2>1, <2>2
<1>4. "reaward" \notin ops /\ k.do = "edit" => Rewriting(k, Q)'
  <2> SUFFICES ASSUME "reaward" \notin ops, k.do = "edit", NEW slot \in FedBy(k.m),
                      At(slot)' # None
               PROVE  \E l \in Q : l.do = "place" /\ l.slot = slot /\ l.e # None
    BY DEF Rewriting, FedBy
  <2>1. At(slot) # None
    OBVIOUS
  <2> QED BY <2>1 DEF OnPath, Rewriting
<1> QED BY <1>1, <1>2, <1>3, <1>4 DEF OnPath, PairOf

\* Who stands in a fed slot is still sent there, if a step puts nobody into one and
\* leaves the results that sent them.
LEMMA StillFollowed ==
  ASSUME NEW ops, NEW s, Followed(s, ops), s = << >> \/ Head(s).do # "place",
         \A m \in Matches : \A slot \in FedBy(m) :
             /\ At(slot)' \in {At(slot), None}
             /\ \A e : Source(slot, e) /\ e # None /\ e = At(slot) /\ e = At(slot)' => Source(slot, e)'
  PROVE  "reaward" \notin ops =>
             \A m \in Matches : \A slot \in FedBy(m) : At(slot)' = None \/ Source(slot, At(slot))'
  BY DEF Followed
-----------------------------------------------------------------------------
(* Steps that leave all results and all occupants.                         *)

Calm ==
    \A m \in Matches :
        /\ row'[m].a = row[m].a /\ row'[m].b = row[m].b
        /\ row'[m].win = row[m].win /\ row'[m].lose = row[m].lose
        /\ row'[m].status \in Decided <=> row[m].status \in Decided

\* They leave what the paths are made of.
LEMMA CalmFacts ==
  ASSUME Calm
  PROVE  /\ \A m \in Matches : IsDecided(m)' <=> IsDecided(m)
         /\ \A slot, e : Source(slot, e)' <=> Source(slot, e)
         /\ \A slot \in Slots : At(slot)' = At(slot)
<1>1. \A m \in Matches : IsDecided(m)' <=> IsDecided(m)
  BY DEF Calm, IsDecided
<1>2. \A slot, e : Source(slot, e)' <=> Source(slot, e)
  BY <1>1 DEF Calm, Source, Carries
<1>3. ASSUME NEW slot \in Slots PROVE At(slot)' = At(slot)
  <2>1. slot[1] \in Matches /\ slot[2] \in {"a", "b"}
    BY DEF Slots, Sides
  <2> QED BY <2>1 DEF Calm, At
<1> QED BY <1>1, <1>2, <1>3

\* They leave who won, who lost and who can be where.
LEMMA CalmRows ==
  ASSUME NEW reach, Within(reach), PairsPlayed, Calm
  PROVE  Within(reach)' /\ PairsPlayed'
  BY DEF Within, PairsPlayed, Calm, Sides, Other, IsDecided

\* The swings add up while no rating changes.
LEMMA SameSwings ==
  ASSUME SwingAddsUp, swing' = swing, \A m \in Matches : row'[m].rated = row[m].rated
  PROVE  SwingAddsUp'
<1> SUFFICES ASSUME NEW e \in Entries
             PROVE  swing'[e] = Cardinality({m \in Matches : row'[m].rated[1] = e})
                                  - Cardinality({m \in Matches : row'[m].rated[2] = e})
  BY DEF SwingAddsUp
<1>1. /\ {m \in Matches : row'[m].rated[1] = e} = {m \in Matches : row[m].rated[1] = e}
      /\ {m \in Matches : row'[m].rated[2] = e} = {m \in Matches : row[m].rated[2] = e}
  OBVIOUS
<1> QED BY <1>1 DEF SwingAddsUp

\* One desk's step.
LEMMA PathStep ==
  ASSUME NEW reach, NEW ops, TypeInv,
         NEW d \in Desks, Desks = {d}, NEW t, todo' = [todo EXCEPT ![d] = t],
         Within(reach)', PairsPlayed', SwingAddsUp', Followed(t, ops)',
         \A k \in Range(t) : OnPath(k, Range(t), reach, ops)'
  PROVE  PathInv(reach, ops)'
<1>1. todo'[d] = t
  BY DEF TypeInv
<1>2. Along(t, reach, ops)'
  BY DEF Along
<1>3. Along(todo[d], reach, ops)'
  BY <1>1, <1>2
<1> QED BY <1>3 DEF PathInv

\* What is known of a request's matches and slots.
LEMMA Placed ==
  ASSUME NEW k \in AnyTask
  PROVE  /\ k.do \in {"route", "place", "find", "clear"} =>
                k.slot \in Slots /\ k.slot[1] \in Matches /\ k.slot[2] \in Sides /\ k.e \in Occupant
         /\ k.do \in {"void", "undo", "edit", "write", "noshow", "unvoid", "guard"} => k.m \in Matches
<1>1. k.do \in {"route", "place", "find", "clear"} => k.slot \in Slots /\ k.e \in Occupant
  BY FieldsOf DEF RouteTask, PlaceTask, FindTask, ClearTask, Occupant
<1>2. \A slot \in Slots : slot[1] \in Matches /\ slot[2] \in Sides
  BY DEF Slots
<1>3. k.do \in {"void", "undo", "edit", "write", "noshow", "unvoid", "guard"} => k.m \in Matches
  BY FieldsOf DEF VoidTask, ResetTask, EditTask, AnyWrite, GuardTask
<1> QED BY <1>1, <1>2, <1>3

\* A calm step leaves a request on its path, whatever is done to those around it.
LEMMA CalmOnward ==
  ASSUME NEW reach, NEW ops, Calm, NEW R, NEW Q, NEW k \in R, k \in AnyTask, R \subseteq AnyTask,
         OnPath(k, R, reach, ops),
         \A l \in Q : l.do \in Erasing => l \in R,
         \A l \in R :
             \/ l \in Q
             \/ /\ l.do \notin {"write", "edit", "place", "clear"}
                /\ l.do = "guard" => ~IsDecided(l.m)
                /\ l.do = "find" =>
                       \/ \E q \in Q : q.do = "clear" /\ q.slot = l.slot /\ q.e = l.e
                       \/ At(l.slot) # l.e
  PROVE  OnPath(k, Q, reach, ops)'
<1>1. /\ \A m \in Matches : IsDecided(m)' <=> IsDecided(m)
      /\ \A slot, e : Source(slot, e)' <=> Source(slot, e)
      /\ \A slot \in Slots : At(slot)' = At(slot)
  BY CalmFacts
<1>2. \A l \in R : l.do \in {"write", "edit"} => l \in Q
  OBVIOUS
<1>3. k.do \in {"place", "find", "clear"} =>
          /\ IsDecided(k.slot[1])' => IsDecided(k.slot[1])
          /\ \A l \in R : l.do = "guard" => l \in Q \/ ~IsDecided(l.m)'
  <2>1. k.do \in {"place", "find", "clear"} => k.slot[1] \in Matches
    BY Placed
  <2>2. \A l \in R : l.do = "guard" => l.m \in Matches
    BY Placed
  <2> QED BY <1>1, <2>1, <2>2
<1>4. k.do \in {"void", "undo", "edit"} =>
          \A slot \in FedBy(k.m) : At(slot)' \in {At(slot), None}
  BY <1>1, Placed, FedSlots
<1>5. k.do \in {"void", "undo"} =>
          \A l \in R : l.do \in {"find", "clear"} =>
              \/ \E q \in Q : q.do \in {"find", "clear"} /\ q.slot = l.slot /\ q.e = l.e
              \/ At(l.slot)' # l.e
  BY <1>1, Placed
<1>6. k.do = "edit" => \A l \in R : l.do = "place" => l \in Q
  OBVIOUS
<1>7. k.do \in {"route", "place"} /\ Source(k.slot, k.e) /\ Unerased(k.slot, R) =>
          Source(k.slot, k.e)'
  BY <1>1
<1> QED BY <1>2, <1>3, <1>4, <1>5, <1>6, <1>7, Onward

\* It also leaves who was sent where.
LEMMA CalmFollowed ==
  ASSUME NEW ops, Calm, NEW s, Followed(s, ops), s = << >> \/ Head(s).do # "place", NEW t
  PROVE  Followed(t, ops)'
<1>1. /\ \A slot, e : Source(slot, e)' <=> Source(slot, e)
      /\ \A slot \in Slots : At(slot)' = At(slot)
  BY CalmFacts
<1>2. \A m \in Matches : \A slot \in FedBy(m) :
          /\ At(slot)' \in {At(slot), None}
          /\ \A e : Source(slot, e) /\ e # None /\ e = At(slot) /\ e = At(slot)' => Source(slot, e)'
  BY <1>1, FedSlots
<1>3. "reaward" \notin ops =>
          \A m \in Matches : \A slot \in FedBy(m) : At(slot)' = None \/ Source(slot, At(slot))'
  BY <1>2, StillFollowed
<1> QED BY <1>3 DEF Followed, FedBy

\* The requests of two lists.
LEMMA ConcatRange ==
  ASSUME NEW s \in Seq(AnyTask), NEW t \in Seq(AnyTask)
  PROVE  s \o t \in Seq(AnyTask) /\ Range(s \o t) = Range(s) \cup Range(t)
  BY ConcatProperties, RangeConcatenation

\* The desk goes on, perhaps with further requests that are on their paths.
LEMMA CalmThen ==
  ASSUME NEW reach, NEW ops, PathInv(reach, ops), OneInv,
         NEW d \in Desks, Desks = {d}, ~Idle(d),
         Calm, SwingAddsUp', NEW tasks \in Seq(AnyTask), Then(d, tasks),
         Head(todo[d]).do \notin {"place", "write", "edit", "clear"} \cup Erasing,
         Head(todo[d]).do = "guard" => ~IsDecided(Head(todo[d]).m),
         Head(todo[d]).do = "find" =>
             \/ \E q \in Range(tasks) :
                    q.do = "clear" /\ q.slot = Head(todo[d]).slot /\ q.e = Head(todo[d]).e
             \/ At(Head(todo[d]).slot) # Head(todo[d]).e,
         \A k \in Range(tasks) :
             /\ k.do \notin Erasing
             /\ OnPath(k, Range(tasks) \cup Range(Tail(todo[d])), reach, ops)
  PROVE  PathInv(reach, ops)'
<1>1. PICK s : s = todo[d]
  OBVIOUS
<1>2. PICK h : h = Head(s)
  OBVIOUS
<1>3. PICK R : R = Range(s)
  OBVIOUS
<1>4. /\ s # << >> /\ s \in Seq(AnyTask) /\ h \in AnyTask /\ h \in R /\ R \subseteq AnyTask
      /\ Tail(s) \in Seq(AnyTask) /\ R = {h} \cup Range(Tail(s))
  <2>1. s # << >> /\ s \in Seq(AnyTask)
    BY <1>1, Working
  <2> QED BY <1>2, <1>3, <2>1, RangeParts
<1>5. PICK t : t = tasks \o Tail(s)
  OBVIOUS
<1>6. PICK Q : Q = Range(t)
  OBVIOUS
<1>7. Q = Range(tasks) \cup Range(Tail(s)) /\ Q \subseteq AnyTask
  <2>1. Q = Range(tasks) \cup Range(Tail(s))
    BY <1>4, <1>5, <1>6, ConcatRange
  <2>2. Range(tasks) \subseteq AnyTask
    BY RangeOfSeq
  <2> QED BY <1>4, <2>1, <2>2
<1>8. Followed(s, ops) /\ \A k \in R : OnPath(k, R, reach, ops)
  BY <1>1, <1>3 DEF PathInv, Along
<1>9. Followed(t, ops)'
  BY <1>1, <1>2, <1>8, CalmFollowed
<1>10. ASSUME NEW k \in Q PROVE OnPath(k, Q, reach, ops)'
  <2>1. CASE k \in Range(Tail(s))
    <3>1. \A l \in Q : l.do \in Erasing => l \in R
      BY <1>4, <1>7
    <3>2. \A l \in R :
              \/ l \in Q
              \/ /\ l.do \notin {"write", "edit", "place", "clear"}
                 /\ l.do = "guard" => ~IsDecided(l.m)
                 /\ l.do = "find" =>
                        \/ \E q \in Q : q.do = "clear" /\ q.slot = l.slot /\ q.e = l.e
                        \/ At(l.slot) # l.e
      BY <1>1, <1>2, <1>4, <1>7
    <3>3. k \in R /\ k \in AnyTask /\ OnPath(k, R, reach, ops)
      BY <1>4, <1>8, <2>1
    <3> QED BY <1>4, <3>1, <3>2, <3>3, CalmOnward
  <2>2. CASE k \in Range(tasks)
    <3>1. OnPath(k, Q, reach, ops)
      BY <1>1, <1>7, <2>2
    <3>2. k \in AnyTask
      BY <1>7
    <3> QED BY <1>7, <3>1, <3>2, CalmOnward
  <2> QED BY <1>7, <2>1, <2>2
<1>11. Within(reach)' /\ PairsPlayed'
  BY CalmRows DEF PathInv
<1>12. todo' = [todo EXCEPT ![d] = t] /\ TypeInv
  BY <1>1, <1>5 DEF Then, OneInv, TypeInv
<1> QED BY <1>6, <1>9, <1>10, <1>11, <1>12, PathStep

\* The desk goes on with what it has left.
LEMMA CalmGo ==
  ASSUME NEW reach, NEW ops, PathInv(reach, ops), OneInv,
         NEW d \in Desks, Desks = {d}, ~Idle(d),
         Calm, SwingAddsUp', Go(d),
         Head(todo[d]).do \notin {"place", "write", "edit", "clear"} \cup Erasing,
         Head(todo[d]).do = "guard" => ~IsDecided(Head(todo[d]).m),
         Head(todo[d]).do = "find" => At(Head(todo[d]).slot) # Head(todo[d]).e
  PROVE  PathInv(reach, ops)'
<1>1. << >> \in Seq(AnyTask) /\ Range(<< >>) = {}
  BY EmptySeq DEF Range
<1>2. Then(d, << >>)
  BY DEF Go
<1>3. PICK tasks : tasks = << >>
  OBVIOUS
<1>4. tasks \in Seq(AnyTask) /\ Then(d, tasks) /\ Range(tasks) = {}
  BY <1>1, <1>2, <1>3
<1> QED BY <1>4, CalmThen

\* The desk stops.
LEMMA CalmStop ==
  ASSUME NEW reach, NEW ops, PathInv(reach, ops), OneInv,
         NEW d \in Desks, Desks = {d}, Calm, SwingAddsUp',
         Stop(d), todo[d] = << >> \/ Head(todo[d]).do # "place"
  PROVE  PathInv(reach, ops)'
<1>1. PICK s : s = todo[d]
  OBVIOUS
<1>2. PICK t : t = << >>
  OBVIOUS
<1>3. Followed(s, ops)
  BY <1>1 DEF PathInv, Along
<1>4. Followed(t, ops)'
  BY <1>1, <1>3, CalmFollowed
<1>5. Within(reach)' /\ PairsPlayed'
  BY CalmRows DEF PathInv
<1>6. Range(t) = {}
  BY <1>2, EmptySeq DEF Range
<1>7. todo' = [todo EXCEPT ![d] = t] /\ TypeInv
  BY <1>2 DEF Stop, OneInv
<1> QED BY <1>4, <1>5, <1>6, <1>7, PathStep

\* The desk begins, with requests that are on their paths.
LEMMA CalmBegin ==
  ASSUME NEW reach, NEW ops, PathInv(reach, ops), OneInv, NEW d \in Desks, Desks = {d},
         NEW op, NEW tasks, Begin(d, op, tasks), tasks \in Seq(AnyTask),
         \A k \in Range(tasks) : OnPath(k, Range(tasks), reach, ops)
  PROVE  PathInv(reach, ops)'
<1>1. PICK t : t = tasks
  OBVIOUS
<1>2. PICK s : s = << >>
  OBVIOUS
<1>3. Followed(s, ops)
  BY <1>2 DEF PathInv, Along, Begin, Idle
<1>4. Calm /\ SwingAddsUp'
  <2>1. row' = row /\ swing' = swing
    BY DEF Begin
  <2> QED BY <2>1, SameSwings DEF Calm, PathInv
<1>5. Followed(t, ops)'
  BY <1>2, <1>3, <1>4, CalmFollowed
<1>6. PICK Q : Q = Range(t)
  OBVIOUS
<1>7. Q \subseteq AnyTask
  BY <1>1, <1>6, RangeOfSeq
<1>8. ASSUME NEW k \in Q PROVE OnPath(k, Q, reach, ops)'
  <2>1. OnPath(k, Q, reach, ops) /\ k \in AnyTask
    BY <1>1, <1>6, <1>7
  <2> QED BY <1>4, <1>7, <2>1, CalmOnward
<1>9. Within(reach)' /\ PairsPlayed'
  BY <1>4, CalmRows DEF PathInv
<1>10. todo' = [todo EXCEPT ![d] = t] /\ TypeInv
  BY <1>1 DEF Begin, OneInv
<1> QED BY <1>4, <1>5, <1>6, <1>8, <1>9, <1>10, PathStep

-----------------------------------------------------------------------------
(* Swings.                                                                 *)

\* One match more in a count.
LEMMA OneMore ==
  ASSUME NEW S \in SUBSET Matches, NEW m \in Matches, m \notin S
  PROVE  /\ Cardinality(S) \in Nat
         /\ Cardinality(S \cup {m}) = Cardinality(S) + 1
<1>1. IsFiniteSet(S)
  BY BracketAssumption, FS_Subset DEF BracketAssumption
<1> QED BY <1>1, FS_CardinalityType, FS_AddElement

\* Counting a set that may have one match more.
LEMMA Counted ==
  ASSUME NEW S \in SUBSET Matches, NEW m \in Matches, m \notin S, NEW more \in BOOLEAN,
         NEW T, \A n : n \in T <=> n \in S \/ (more /\ n = m)
  PROVE  Cardinality(S) \in Nat /\ Cardinality(T) = Cardinality(S) + (IF more THEN 1 ELSE 0)
<1>1. CASE more = TRUE
  <2>1. T = S \cup {m}
    BY <1>1
  <2> QED BY <1>1, <2>1, OneMore
<1>2. CASE more = FALSE
  <2>1. T = S
    BY <1>2
  <2>2. Cardinality(S) \in Nat
    BY OneMore
  <2>3. (IF more THEN 1 ELSE 0) = 0
    BY <1>2
  <2> QED BY <2>1, <2>2, <2>3
<1> QED BY <1>1, <1>2

\* A rating that begins to count moves the swings of its two entries.
LEMMA RatedSwings ==
  ASSUME TypeInv, SwingAddsUp, NEW m \in Matches, NEW for \in Entries \X Entries,
         for[1] # for[2], row[m].rated = NoPair, ApplyRating(m, for)
  PROVE  SwingAddsUp'
<1>1. PICK old : old = [n \in Matches |-> row[n].rated]
  OBVIOUS
<1>2. PICK new : new = [n \in Matches |-> IF n = m THEN for ELSE row[n].rated]
  OBVIOUS
<1>3. \A n \in Matches : row'[n].rated = new[n]
  <2>1. row[m] \in RowType
    BY DEF TypeInv
  <2>2. [row[m] EXCEPT !.rated = for].rated = for
    BY <2>1, RatedAs
  <2>3. row' = [row EXCEPT ![m].rated = for]
    BY DEF ApplyRating
  <2> QED BY <1>2, <2>2, <2>3 DEF TypeInv
<1> SUFFICES ASSUME NEW e \in Entries
             PROVE  swing'[e] = Cardinality({n \in Matches : new[n][1] = e})
                                  - Cardinality({n \in Matches : new[n][2] = e})
  <2>1. ASSUME NEW e \in Entries
        PROVE  /\ {n \in Matches : row'[n].rated[1] = e} = {n \in Matches : new[n][1] = e}
               /\ {n \in Matches : row'[n].rated[2] = e} = {n \in Matches : new[n][2] = e}
    BY <1>3
  <2> QED BY <2>1 DEF SwingAddsUp
<1>4. /\ {n \in Matches : row[n].rated[1] = e} = {n \in Matches : old[n][1] = e}
      /\ {n \in Matches : row[n].rated[2] = e} = {n \in Matches : old[n][2] = e}
  BY <1>1
<1>5. swing[e] = Cardinality({n \in Matches : old[n][1] = e})
                   - Cardinality({n \in Matches : old[n][2] = e})
  BY <1>4 DEF SwingAddsUp
<1>6. old[m][1] # e /\ old[m][2] # e
  BY <1>1, BracketAssumption DEF NoPair, BracketAssumption
<1>7. new[m] = for /\ \A n \in Matches : n # m => new[n] = old[n]
  BY <1>1, <1>2
<1>8. swing'[e] = swing[e] + (IF for[1] = e THEN 1 ELSE 0) - (IF for[2] = e THEN 1 ELSE 0)
  BY DEF ApplyRating, TypeInv
<1>9. /\ Cardinality({n \in Matches : old[n][1] = e}) \in Nat
     /\ Cardinality({n \in Matches : new[n][1] = e}) =
            Cardinality({n \in Matches : old[n][1] = e}) + (IF for[1] = e THEN 1 ELSE 0)
  <2>1. PICK S : S = {n \in Matches : old[n][1] = e}
    OBVIOUS
  <2>2. PICK T : T = {n \in Matches : new[n][1] = e}
    OBVIOUS
  <2>3. PICK more \in BOOLEAN : more <=> for[1] = e
    OBVIOUS
  <2>4. S \in SUBSET Matches /\ m \notin S /\ \A n : n \in T <=> n \in S \/ (more /\ n = m)
    BY <1>6, <1>7, <2>1, <2>2, <2>3
  <2>5. Cardinality(S) \in Nat /\ Cardinality(T) = Cardinality(S) + (IF more THEN 1 ELSE 0)
    BY <2>4, Counted
  <2> QED BY <2>1, <2>2, <2>3, <2>5
<1>10. /\ Cardinality({n \in Matches : old[n][2] = e}) \in Nat
      /\ Cardinality({n \in Matches : new[n][2] = e}) =
             Cardinality({n \in Matches : old[n][2] = e}) + (IF for[2] = e THEN 1 ELSE 0)
  <2>1. PICK S : S = {n \in Matches : old[n][2] = e}
    OBVIOUS
  <2>2. PICK T : T = {n \in Matches : new[n][2] = e}
    OBVIOUS
  <2>3. PICK more \in BOOLEAN : more <=> for[2] = e
    OBVIOUS
  <2>4. S \in SUBSET Matches /\ m \notin S /\ \A n : n \in T <=> n \in S \/ (more /\ n = m)
    BY <1>6, <1>7, <2>1, <2>2, <2>3
  <2>5. Cardinality(S) \in Nat /\ Cardinality(T) = Cardinality(S) + (IF more THEN 1 ELSE 0)
    BY <2>4, Counted
  <2> QED BY <2>1, <2>2, <2>3, <2>5
<1> QED BY <1>5, <1>8, <1>9, <1>10

\* A rating that is taken back moves them back.
LEMMA ReversedSwings ==
  ASSUME TypeInv, Tidy, PairsPlayed, SwingAddsUp, NEW m \in Matches,
         row' = [row EXCEPT ![m].rated = NoPair],
         swing' = [e \in Entries |->
             IF e \in {row[m].win, row[m].lose}
             THEN swing[e] - (CASE e = row[m].rated[1] -> 1 [] e = row[m].rated[2] -> -1 [] OTHER -> 0)
             ELSE swing[e]]
  PROVE  SwingAddsUp'
<1>1. PICK old : old = [n \in Matches |-> IF n = m THEN NoPair ELSE row[n].rated]
  OBVIOUS
<1>2. PICK new : new = [n \in Matches |-> row[n].rated]
  OBVIOUS
<1>3. \A n \in Matches : row'[n].rated = old[n]
  <2>1. row[m] \in RowType
    BY DEF TypeInv
  <2>2. [row[m] EXCEPT !.rated = NoPair].rated = NoPair
    BY <2>1, RatedAs
  <2> QED BY <1>1, <2>2 DEF TypeInv
<1> SUFFICES ASSUME NEW e \in Entries
             PROVE  swing'[e] = Cardinality({n \in Matches : old[n][1] = e})
                                  - Cardinality({n \in Matches : old[n][2] = e})
  <2>1. ASSUME NEW e \in Entries
        PROVE  /\ {n \in Matches : row'[n].rated[1] = e} = {n \in Matches : old[n][1] = e}
               /\ {n \in Matches : row'[n].rated[2] = e} = {n \in Matches : old[n][2] = e}
    BY <1>3
  <2> QED BY <2>1 DEF SwingAddsUp
<1>4. /\ {n \in Matches : row[n].rated[1] = e} = {n \in Matches : new[n][1] = e}
      /\ {n \in Matches : row[n].rated[2] = e} = {n \in Matches : new[n][2] = e}
  BY <1>2
<1>5. swing[e] = Cardinality({n \in Matches : new[n][1] = e})
                   - Cardinality({n \in Matches : new[n][2] = e})
  BY <1>4 DEF SwingAddsUp
<1>6. old[m][1] # e /\ old[m][2] # e
  BY <1>1, BracketAssumption DEF NoPair, BracketAssumption
<1>7. new[m] = row[m].rated /\ \A n \in Matches : n # m => new[n] = old[n]
  BY <1>1, <1>2
<1>8. row[m].rated = NoPair \/ /\ row[m].rated[1] # row[m].rated[2]
                               /\ row[m].rated[1] = row[m].win /\ row[m].rated[2] = row[m].lose
  <2>1. row[m].rated # NoPair => /\ row[m].rated = <<row[m].win, row[m].lose>> /\ IsDecided(m)
                                 /\ row[m].rated[1] # None
    BY BracketAssumption DEF Tidy, RatedIsResult, TypeInv, RowType, BracketAssumption
  <2> QED BY <2>1 DEF PairsPlayed
<1>9. swing[e] \in Int /\ e # None
  BY BracketAssumption DEF TypeInv, BracketAssumption
<1>10. swing'[e] = swing[e] - (IF new[m][1] = e THEN 1 ELSE 0) + (IF new[m][2] = e THEN 1 ELSE 0)
  <2>1. CASE row[m].rated = NoPair
    <3>1. row[m].rated[1] # e /\ row[m].rated[2] # e
      BY <1>9, <2>1 DEF NoPair
    <3> QED BY <1>7, <1>9, <3>1
  <2>2. CASE row[m].rated # NoPair
    <3>1. /\ row[m].rated[1] # row[m].rated[2]
          /\ row[m].rated[1] = row[m].win /\ row[m].rated[2] = row[m].lose
      BY <1>8, <2>2
    <3> QED BY <1>7, <1>9, <3>1
  <2> QED BY <2>1, <2>2
<1>11. /\ Cardinality({n \in Matches : old[n][1] = e}) \in Nat
      /\ Cardinality({n \in Matches : new[n][1] = e}) =
             Cardinality({n \in Matches : old[n][1] = e}) + (IF new[m][1] = e THEN 1 ELSE 0)
  <2>1. PICK S : S = {n \in Matches : old[n][1] = e}
    OBVIOUS
  <2>2. PICK T : T = {n \in Matches : new[n][1] = e}
    OBVIOUS
  <2>3. PICK more \in BOOLEAN : more <=> new[m][1] = e
    OBVIOUS
  <2>4. S \in SUBSET Matches /\ m \notin S /\ \A n : n \in T <=> n \in S \/ (more /\ n = m)
    BY <1>6, <1>7, <2>1, <2>2, <2>3
  <2>5. Cardinality(S) \in Nat /\ Cardinality(T) = Cardinality(S) + (IF more THEN 1 ELSE 0)
    BY <2>4, Counted
  <2> QED BY <2>1, <2>2, <2>3, <2>5
<1>12. /\ Cardinality({n \in Matches : old[n][2] = e}) \in Nat
      /\ Cardinality({n \in Matches : new[n][2] = e}) =
             Cardinality({n \in Matches : old[n][2] = e}) + (IF new[m][2] = e THEN 1 ELSE 0)
  <2>1. PICK S : S = {n \in Matches : old[n][2] = e}
    OBVIOUS
  <2>2. PICK T : T = {n \in Matches : new[n][2] = e}
    OBVIOUS
  <2>3. PICK more \in BOOLEAN : more <=> new[m][2] = e
    OBVIOUS
  <2>4. S \in SUBSET Matches /\ m \notin S /\ \A n : n \in T <=> n \in S \/ (more /\ n = m)
    BY <1>6, <1>7, <2>1, <2>2, <2>3
  <2>5. Cardinality(S) \in Nat /\ Cardinality(T) = Cardinality(S) + (IF more THEN 1 ELSE 0)
    BY <2>4, Counted
  <2> QED BY <2>1, <2>2, <2>3, <2>5
<1> QED BY <1>5, <1>9, <1>10, <1>11, <1>12

-----------------------------------------------------------------------------
(* The requests that change no row.                                        *)

\* No row, no swing changes.
LEMMA SameCalm ==
  ASSUME NEW reach, NEW ops, PathInv(reach, ops), row' = row, swing' = swing
  PROVE  Calm /\ SwingAddsUp'
  BY SameSwings DEF Calm, PathInv

\* Most requests depend on nobody's path.
LEMMA PlainPath ==
  ASSUME NEW k, k.do \in {"look", "rate", "settle", "ready", "guard", "reverse", "noshow", "unvoid",
                          "mark", "list", "forfeit", "call"},
         NEW Q, NEW reach, NEW ops
  PROVE  OnPath(k, Q, reach, ops) /\ k.do \notin Erasing
  BY DEF OnPath, Erasing

\* A result names the two sides of an open match, and they go where it sends them.
LEMMA ResultPath ==
  ASSUME NEW reach, NEW ops, Knockout(reach), Within(reach), TypeInv,
         NEW m \in Matches, NEW side \in Sides,
         NEW to \in Decided, row[m].status \in Open,
         NEW tasks, tasks = ResultTasks(m, row[m], side, to), NEW Q, Range(tasks) \subseteq Q
  PROVE  \A k \in Range(tasks) : k.do \notin Erasing /\ OnPath(k, Q, reach, ops)
<1>1. PICK was : was = row[m]
  OBVIOUS
<1>2. was \in RowType
  BY <1>1 DEF TypeInv
<1>3. PICK win : win = was[side]
  OBVIOUS
<1>4. PICK lose : lose = was[Other(side)]
  OBVIOUS
<1>5. /\ tasks \in Seq(AnyTask)
      /\ \A k \in Range(tasks) :
             \/ k.do = "write" /\ k.m = m /\ k.was = was /\ k.win = win /\ k.lose = lose
             \/ k.do = "look"
             \/ k.do = "route" /\ ((k.slot = WinnerTo[m] /\ k.e = win) \/ (k.slot = LoserTo[m] /\ k.e = lose))
      /\ \E k \in Range(tasks) : k.do = "write"
  BY <1>1, <1>2, <1>3, <1>4, ResultPlanned
<1>6. win = lose => win = None
  BY <1>1, <1>3, <1>4, TwoEntries
<1>7. win \in reach[m][side] \cup {None} /\ lose \in reach[m][Other(side)] \cup {None}
  BY <1>1, <1>3, <1>4 DEF Within, Sides, Other
<1>8. ASSUME NEW k \in Range(tasks) PROVE k.do \notin Erasing /\ OnPath(k, Q, reach, ops)
  <2>1. CASE k.do = "write" /\ k.was = was /\ k.win = win /\ k.lose = lose
    BY <1>3, <1>4, <1>6, <2>1 DEF OnPath, Erasing, PairOf
  <2>2. CASE k.do = "look"
    BY <2>2, PlainPath
  <2>3. CASE /\ k.do = "route"
             /\ \/ k.slot = WinnerTo[m] /\ k.e = win
                \/ k.slot = LoserTo[m] /\ k.e = lose
    <3>1. k \in AnyTask
      BY <1>5, RangeOfSeq
    <3>2. k.slot \in Slots
      BY <2>3, <3>1, Placed
    <3>3. k.slot \in FedBy(m)
      BY <2>3, <3>2, BracketAssumption DEF FedBy, Slots, NoSlot, BracketAssumption
    <3>4. k.e \in reach[m]["a"] \cup reach[m]["b"] \cup {None}
      BY <1>7, <2>3, <3>3 DEF Sides, Other
    <3>5. k.e \in reach[k.slot[1]][k.slot[2]] \cup {None}
      BY <3>3, <3>4 DEF Knockout
    <3>6. PICK l \in Range(tasks) : l.do = "write" /\ l.m = m /\ l.win = win /\ l.lose = lose
      BY <1>5
    <3>7. Makes(l, k.slot, k.e)
      BY <2>3, <3>6 DEF Makes, Carries
    <3>8. Sent(k, Q)
      BY <3>6, <3>7 DEF Sent
    <3> QED BY <2>3, <3>5, <3>8 DEF OnPath, Erasing
  <2> QED BY <1>5, <2>1, <2>2, <2>3
<1> QED BY <1>8

\* A guard lets the operation pass when the match after it is not decided.
LEMMA GuardPath ==
  ASSUME NEW reach, NEW ops, PathInv(reach, ops), OneInv,
         NEW d \in Desks, Desks = {d}, Guard(d)
  PROVE  PathInv(reach, ops)'
<1> DEFINE k == Head(todo[d])
<1>1. ~Idle(d) /\ k.do = "guard" /\ row' = row /\ swing' = swing
  BY DEF Guard, Doing, Idle
<1>2. Calm /\ SwingAddsUp'
  BY <1>1, SameCalm
<1>3. CASE IsDecided(k.m) /\ Stop(d)
  BY <1>1, <1>2, <1>3, CalmStop
<1>4. CASE ~IsDecided(k.m) /\ Go(d)
  BY <1>1, <1>2, <1>4, CalmGo DEF Erasing
<1> QED BY <1>3, <1>4 DEF Guard, IsDecided

\* The row is looked at, and rated next or not.
LEMMA LookPath ==
  ASSUME NEW reach, NEW ops, PathInv(reach, ops), OneInv,
         NEW d \in Desks, Desks = {d}, Look(d)
  PROVE  PathInv(reach, ops)'
<1> DEFINE k == Head(todo[d])
           q == [do |-> "rate", m |-> k.m, for |-> <<row[k.m].win, row[k.m].lose>>, prior |-> k.prior]
<1>1. ~Idle(d) /\ k.do = "look" /\ row' = row /\ swing' = swing
  BY DEF Look, Doing, Idle
<1>2. Calm /\ SwingAddsUp'
  BY <1>1, SameCalm
<1>3. CASE Go(d)
  BY <1>1, <1>2, <1>3, CalmGo DEF Erasing
<1>4. CASE Then(d, <<q>>) /\ row[k.m].win # None /\ row[k.m].lose # None
  <2>1. k \in AnyLook /\ TypeInv
    BY <1>1, Working, FieldsOf
  <2>2. /\ row[k.m].win \in Entries /\ row[k.m].lose \in Entries /\ k.m \in Matches
        /\ k.prior \in AnyPrior
    <3>1. k.m \in Matches /\ row[k.m] \in RowType /\ k.prior \in AnyPrior
      BY <2>1 DEF AnyLook, TypeInv
    <3> QED BY <1>4, <3>1, RowOf DEF Occupant
  <2>3. q \in AnyRate /\ q.do = "rate"
    BY <2>2 DEF AnyRate
  <2>4. q \in AnyTask
    BY <2>3 DEF AnyTask, OnMatch
  <2>5. PICK tasks : tasks = <<q>>
    OBVIOUS
  <2> HIDE DEF q
  <2>6. tasks \in Seq(AnyTask) /\ Range(tasks) = {q}
    BY <2>4, <2>5, Short
  <2>7. \A l \in Range(tasks) :
            /\ l.do \notin Erasing
            /\ OnPath(l, Range(tasks) \cup Range(Tail(todo[d])), reach, ops)
    BY <2>3, <2>6, PlainPath
  <2> QED BY <1>1, <1>2, <1>4, <2>5, <2>6, <2>7, CalmThen DEF Erasing
<1> QED BY <1>3, <1>4 DEF Look

\* An entry is routed to its slot.
LEMMA RoutePath ==
  ASSUME NEW reach, NEW ops, PathInv(reach, ops), OneInv,
         NEW d \in Desks, Desks = {d}, Route(d)
  PROVE  PathInv(reach, ops)'
<1> DEFINE k == Head(todo[d])
<1>1. ~Idle(d) /\ k.do = "route" /\ row' = row /\ swing' = swing
  BY DEF Route, Doing, Idle
<1>2. Calm /\ SwingAddsUp'
  BY <1>1, SameCalm
<1>3. CASE Stop(d)
  BY <1>1, <1>2, <1>3, CalmStop
<1>4. CASE Go(d)
  BY <1>1, <1>2, <1>4, CalmGo DEF Erasing
<1>5. CASE row[k.slot[1]].status \in {"pending", "ready"} /\ Advance(d)
  <2>1. k \in AnyTask /\ k.slot \in Slots /\ k.slot[1] \in Matches /\ k.e \in Occupant
    BY <1>1, Working, Placed
  <2>2. PICK tasks : tasks = <<[do |-> "place", slot |-> k.slot, e |-> k.e],
                               [do |-> "settle", m |-> k.slot[1]]>>
    OBVIOUS
  <2>3. /\ tasks \in Seq(AnyTask)
        /\ \A l \in Range(tasks) : \/ l.do = "place" /\ l.slot = k.slot /\ l.e = k.e
                                   \/ l.do = "settle"
    BY <2>1, <2>2, AdvancePlanned
  <2>4. PICK s : s = todo[d]
    OBVIOUS
  <2>5. /\ s \in Seq(AnyTask) /\ s # << >> /\ Planned(s) /\ k \in Range(s)
        /\ Range(s) = {k} \cup Range(Tail(s))
    BY <1>1, <2>4, Working, RangeParts
  <2>6. \A l \in Range(Tail(s)) : l.do \in Late
    BY <1>1, <2>4, <2>5, LateTail
  <2>7. OnPath(k, Range(s), reach, ops)
    BY <2>4, <2>5 DEF PathInv, Along
  <2>8. \A l \in Range(s) : l.do \notin {"write", "edit"}
    BY <1>1, <2>5, <2>6 DEF Late
  <2>9. /\ k.e \in reach[k.slot[1]][k.slot[2]] \cup {None}
        /\ "reaward" \notin ops => Source(k.slot, k.e)
    BY <1>1, <2>7, <2>8 DEF OnPath, Sent
  <2>10. PICK Q : Q = Range(tasks) \cup Range(Tail(s))
    OBVIOUS
  <2>11. \A l \in Q : l.do \notin Erasing
    BY <2>3, <2>6, <2>10 DEF Late, Erasing
  <2>12. ~IsDecided(k.slot[1])
    BY <1>5 DEF IsDecided, Decided
  <2>13. ASSUME NEW l \in Range(tasks) PROVE OnPath(l, Q, reach, ops)
    <3>1. CASE l.do = "settle"
      BY <3>1, PlainPath
    <3>2. CASE l.do = "place" /\ l.slot = k.slot /\ l.e = k.e
      BY <2>9, <2>11, <2>12, <3>2 DEF OnPath, Sent, Unerased, Passed
    <3> QED BY <2>3, <3>1, <3>2
  <2>14. Then(d, tasks)
    BY <1>5, <2>2 DEF Advance
  <2>15. \A l \in Range(tasks) :
             /\ l.do \notin Erasing
             /\ OnPath(l, Range(tasks) \cup Range(Tail(todo[d])), reach, ops)
    BY <2>4, <2>10, <2>11, <2>13
  <2> QED BY <1>1, <1>2, <2>3, <2>14, <2>15, CalmThen DEF Erasing
<1> QED BY <1>3, <1>4, <1>5 DEF Route

\* A match with both entries is settled: forfeited, or ready.
LEMMA SettlePath ==
  ASSUME NEW reach, NEW ops, Knockout(reach), PathInv(reach, ops), OneInv,
         NEW d \in Desks, Desks = {d}, Settle(d)
  PROVE  PathInv(reach, ops)'
<1> DEFINE k == Head(todo[d])
           r == row[k.m]
           out == {s \in Sides : standing[r[s]] = "out"}
           side == CHOOSE s \in Sides \ out : TRUE
           q == [do |-> "ready", m |-> k.m]
<1>1. ~Idle(d) /\ k.do = "settle" /\ row' = row /\ swing' = swing
  BY DEF Settle, Doing, Idle
<1>2. Calm /\ SwingAddsUp'
  BY <1>1, SameCalm
<1>3. CASE Go(d)
  BY <1>1, <1>2, <1>3, CalmGo DEF Erasing
<1>4. k.m \in Matches /\ r.status \in Open /\ TypeInv
  <2>1. k \in SettleTask /\ TypeInv /\ k \in Range(todo[d]) /\ Fits(todo[d])
    BY <1>1, Working, FieldsOf
  <2>2. r.status \in Open
    BY <1>1, <2>1 DEF Fits
  <2> QED BY <2>1, <2>2 DEF SettleTask
<1>5. CASE Known(r) /\ Cardinality(out) = 1 /\ Then(d, ResultTasks(k.m, r, side, "walkover"))
  <2>1. side \in Sides
    BY <1>5, WinnerByForfeit
  <2> HIDE DEF side
  <2>2. r[side] # None /\ "walkover" \in Decided
    BY <1>5, <2>1 DEF Known, Sides, Decided
  <2>3. PICK tasks : tasks = ResultTasks(k.m, r, side, "walkover")
    OBVIOUS
  <2>4. r \in RowType
    BY <1>4 DEF TypeInv
  <2>5. tasks \in Seq(AnyTask)
    BY <1>4, <2>1, <2>2, <2>3, <2>4, ResultTyped
  <2>6. PICK Q : Q = Range(tasks) \cup Range(Tail(todo[d]))
    OBVIOUS
  <2>7. \A l \in Range(tasks) : l.do \notin Erasing /\ OnPath(l, Q, reach, ops)
    <3>1. Within(reach) /\ Range(tasks) \subseteq Q
      BY <2>6 DEF PathInv
    <3> HIDE DEF k
    <3> QED BY <1>4, <2>1, <2>2, <2>3, <3>1, ResultPath
  <2> QED BY <1>1, <1>2, <1>5, <2>3, <2>5, <2>6, <2>7, CalmThen DEF Erasing
<1>6. CASE Then(d, <<q>>)
  <2>1. q \in SettleTask /\ q.do = "ready"
    BY <1>4 DEF SettleTask
  <2>2. q \in AnyTask
    BY <2>1 DEF AnyTask, OnMatch
  <2>3. PICK tasks : tasks = <<q>>
    OBVIOUS
  <2> HIDE DEF q
  <2>4. tasks \in Seq(AnyTask) /\ Range(tasks) = {q}
    BY <2>2, <2>3, Short
  <2>5. \A l \in Range(tasks) :
            /\ l.do \notin Erasing
            /\ OnPath(l, Range(tasks) \cup Range(Tail(todo[d])), reach, ops)
    BY <2>1, <2>4, PlainPath
  <2> QED BY <1>1, <1>2, <1>6, <2>3, <2>4, <2>5, CalmThen DEF Erasing
<1> QED BY <1>3, <1>5, <1>6 DEF Settle

\* An open match of an entry that is out is forfeited to its opponent, if there is one.
LEMMA ForfeitPath ==
  ASSUME NEW reach, NEW ops, Knockout(reach), PathInv(reach, ops), OneInv,
         NEW d \in Desks, Desks = {d}, Forfeit(d)
  PROVE  PathInv(reach, ops)'
<1> DEFINE k == Head(todo[d])
           r == row[k.m]
           winner == IF r.a = k.e THEN "b" ELSE "a"
<1>1. ~Idle(d) /\ k.do = "forfeit" /\ row' = row /\ swing' = swing
  BY DEF Forfeit, Doing, Idle
<1>2. Calm /\ SwingAddsUp'
  BY <1>1, SameCalm
<1>3. CASE Go(d)
  BY <1>1, <1>2, <1>3, CalmGo DEF Erasing
<1>4. CASE r.status \in Open /\ r[winner] # None /\ Then(d, ResultTasks(k.m, r, winner, "walkover"))
  <2>1. k.m \in Matches /\ TypeInv /\ r \in RowType
    <3>1. k \in ForfeitTask /\ TypeInv
      BY <1>1, Working, FieldsOf
    <3> QED BY <3>1 DEF ForfeitTask, TypeInv
  <2>2. winner \in Sides /\ "walkover" \in Decided
    BY DEF Sides, Decided
  <2>3. PICK tasks : tasks = ResultTasks(k.m, r, winner, "walkover")
    OBVIOUS
  <2> HIDE DEF winner
  <2>4. tasks \in Seq(AnyTask)
    BY <1>4, <2>1, <2>2, <2>3, ResultTyped
  <2>5. PICK Q : Q = Range(tasks) \cup Range(Tail(todo[d]))
    OBVIOUS
  <2>6. \A l \in Range(tasks) : l.do \notin Erasing /\ OnPath(l, Q, reach, ops)
    <3>1. Within(reach) /\ Range(tasks) \subseteq Q
      BY <2>5 DEF PathInv
    <3> HIDE DEF k
    <3> QED BY <1>4, <2>1, <2>2, <2>3, <3>1, ResultPath
  <2> QED BY <1>1, <1>2, <1>4, <2>3, <2>4, <2>5, <2>6, CalmThen DEF Erasing
<1> QED BY <1>3, <1>4 DEF Forfeit

\* The open matches of an entry that is out are listed.
LEMMA ListPath ==
  ASSUME NEW reach, NEW ops, PathInv(reach, ops), OneInv,
         NEW d \in Desks, Desks = {d}, List(d)
  PROVE  PathInv(reach, ops)'
<1> DEFINE k == Head(todo[d])
           open == {i \in DOMAIN Rounds : row[Rounds[i]].status \in Open /\ In(k.e, row[Rounds[i]])}
           n == Cardinality(open)
<1>1. ~Idle(d) /\ k.do = "list" /\ row' = row /\ swing' = swing
  BY DEF List, Doing, Idle
<1>2. Calm /\ SwingAddsUp'
  BY <1>1, SameCalm
<1>3. k \in ListTask
  BY <1>1, Working, FieldsOf
<1>4. PICK nth \in [1..n -> open] :
          Then(d, [i \in DOMAIN nth |-> [do |-> "forfeit", m |-> Rounds[nth[i]], e |-> k.e]])
  BY DEF List
<1>5. Rounds \in Seq(Matches)
  BY BracketAssumption DEF BracketAssumption
<1>6. n \in Nat
  <2>1. IsFiniteSet(DOMAIN Rounds)
    <3>1. Len(Rounds) \in Nat /\ DOMAIN Rounds = 1..Len(Rounds)
      BY <1>5, LenProperties
    <3> QED BY <3>1, FS_Interval
  <2>2. open \subseteq DOMAIN Rounds
    OBVIOUS
  <2> HIDE DEF open
  <2> QED BY <2>1, <2>2, FS_Subset, FS_CardinalityType
<1> DEFINE tasks == [i \in 1..n |-> [do |-> "forfeit", m |-> Rounds[nth[i]], e |-> k.e]]
<1>7. \A i \in 1..n : [do |-> "forfeit", m |-> Rounds[nth[i]], e |-> k.e] \in AnyTask
  <2> TAKE i \in 1..n
  <2>1. nth[i] \in DOMAIN Rounds
    BY <1>4
  <2>2. Rounds[nth[i]] \in Matches
    BY <1>5, <2>1, LenProperties
  <2>3. [do |-> "forfeit", m |-> Rounds[nth[i]], e |-> k.e] \in ForfeitTask
    BY <1>3, <2>2 DEF ForfeitTask, ListTask
  <2> QED BY <2>3 DEF AnyTask, OnMatch
<1>8. Then(d, tasks)
  BY <1>4
<1>9. tasks \in [1..n -> AnyTask] /\ \A i \in 1..n : tasks[i].do = "forfeit"
  BY <1>7
<1>10. PICK t : t = tasks
  OBVIOUS
<1> HIDE DEF tasks, n
<1>11. t \in Seq(AnyTask)
  BY <1>6, <1>9, <1>10, SeqDef
<1>12. \A i \in 1..Len(t) : t[i].do = "forfeit"
  BY <1>6, <1>9, <1>10, <1>11, LenProperties
<1>13. \A l \in Range(t) : l.do = "forfeit"
  BY <1>11, <1>12, ForfeitsPlanned
<1>14. \A l \in Range(t) :
           /\ l.do \notin Erasing
           /\ OnPath(l, Range(t) \cup Range(Tail(todo[d])), reach, ops)
  BY <1>13, PlainPath
<1> QED BY <1>1, <1>2, <1>8, <1>10, <1>11, <1>14, CalmThen DEF Erasing

\* The two are marked absent.
LEMMA MarkPath ==
  ASSUME NEW reach, NEW ops, PathInv(reach, ops), OneInv,
         NEW d \in Desks, Desks = {d}, Mark(d)
  PROVE  PathInv(reach, ops)'
<1>1. ~Idle(d) /\ Head(todo[d]).do = "mark" /\ row' = row /\ swing' = swing /\ Go(d)
  BY DEF Mark, Doing, Idle
<1>2. Calm /\ SwingAddsUp'
  BY <1>1, SameCalm
<1> QED BY <1>1, <1>2, CalmGo DEF Erasing

\* A slot that is to be emptied is read.
LEMMA FindPath ==
  ASSUME NEW reach, NEW ops, PathInv(reach, ops), OneInv,
         NEW d \in Desks, Desks = {d}, Find(d)
  PROVE  PathInv(reach, ops)'
<1> DEFINE k == Head(todo[d])
           r == row[k.slot[1]]
           clear == [do |-> "clear", slot |-> k.slot, e |-> k.e,
                     to |-> IF r.status \in {"ready", "live"} THEN "pending" ELSE r.status]
<1>1. ~Idle(d) /\ k.do = "find" /\ row' = row /\ swing' = swing
  BY DEF Find, Doing, Idle
<1>2. Calm /\ SwingAddsUp'
  BY <1>1, SameCalm
<1>3. CASE Go(d) /\ At(k.slot) # k.e
  BY <1>1, <1>2, <1>3, CalmGo DEF Erasing
<1>4. CASE Then(d, <<clear>>)
  <2>1. PICK s : s = todo[d]
    OBVIOUS
  <2>2. /\ s # << >> /\ s \in Seq(AnyTask) /\ Planned(s) /\ TypeInv /\ k \in FindTask
        /\ k \in Range(s) /\ Range(s) = {k} \cup Range(Tail(s))
        /\ \A l \in Range(Tail(s)) : Before(k, l)
    BY <1>1, <2>1, Working, FieldsOf, RangeParts, PlannedTail
  <2>3. PICK q : q = clear
    OBVIOUS
  <2>4. q \in ClearTask
    <3>1. r \in RowType
      BY <2>2 DEF FindTask, Slots, TypeInv
    <3> QED BY <2>2, <2>3, <3>1, RowOf, Statuses DEF FindTask, ClearTask
  <2>5. q \in AnyTask /\ q.do = "clear" /\ q.slot = k.slot /\ q.e = k.e
    BY <2>3, <2>4 DEF AnyTask, OnSlots
  <2>6. PICK tasks : tasks = <<q>>
    OBVIOUS
  <2>7. Then(d, tasks)
    BY <1>4, <2>3, <2>6
  <2> HIDE DEF clear
  <2>8. tasks \in Seq(AnyTask) /\ Range(tasks) = {q}
    BY <2>5, <2>6, Short
  <2>9. ~IsDecided(k.slot[1])
    <3>1. OnPath(k, Range(s), reach, ops)
      BY <2>1, <2>2 DEF PathInv, Along
    <3>2. \A l \in Range(s) : l.do # "guard"
      BY <1>1, <2>2 DEF Before
    <3> QED BY <1>1, <3>1, <3>2 DEF OnPath, Passed
  <2>10. \A l \in Range(tasks) :
             /\ l.do \notin Erasing
             /\ OnPath(l, Range(tasks) \cup Range(Tail(todo[d])), reach, ops)
    BY <2>5, <2>8, <2>9 DEF OnPath, Passed, Erasing
  <2> QED BY <1>1, <1>2, <2>5, <2>7, <2>8, <2>10, CalmThen DEF Erasing
<1> QED BY <1>3, <1>4 DEF Find, At
-----------------------------------------------------------------------------
(* The requests that change a rating or a status.                          *)

\* A row of which neither the result nor the occupants change.
LEMMA CalmRow ==
  ASSUME TypeInv, NEW m \in Matches, NEW new, row' = [row EXCEPT ![m] = new],
         new.a = row[m].a, new.b = row[m].b, new.win = row[m].win, new.lose = row[m].lose,
         new.status \in Decided <=> row[m].status \in Decided
  PROVE  /\ Calm
         /\ SwingAddsUp /\ swing' = swing /\ new.rated = row[m].rated => SwingAddsUp'
<1>1. row'[m] = new /\ \A n \in Matches : n # m => row'[n] = row[n]
  BY DEF TypeInv
<1>2. Calm
  BY <1>1 DEF Calm
<1>3. SwingAddsUp /\ swing' = swing /\ new.rated = row[m].rated => SwingAddsUp'
  BY <1>1, SameSwings
<1> QED BY <1>2, <1>3

\* A result is rated.
LEMMA RatePath ==
  ASSUME NEW reach, NEW ops, PathInv(reach, ops), OneInv,
         NEW d \in Desks, Desks = {d}, Rate(d)
  PROVE  PathInv(reach, ops)'
<1> DEFINE k == Head(todo[d])
           r == row[k.m]
<1>1. ~Idle(d) /\ k.do = "rate"
  BY DEF Rate, Doing, Idle
<1>2. k \in AnyRate /\ k \in Range(todo[d]) /\ TypeInv /\ Fits(todo[d])
  BY <1>1, Working, FieldsOf
<1>3. k.m \in Matches /\ k.for \in Entries \X Entries /\ r \in RowType
  BY <1>2 DEF AnyRate, TypeInv
<1>4. r.rated = NoPair /\ IsDecided(k.m) /\ k.for = <<r.win, r.lose>>
  BY <1>1, <1>2 DEF Fits
<1>5. ApplyRating(k.m, k.for) /\ Go(d)
  BY <1>4 DEF Rate
<1>6. PICK new : new = [r EXCEPT !.rated = k.for]
  OBVIOUS
<1>7. new.status = r.status /\ new.win = r.win /\ new.lose = r.lose /\ new.a = r.a /\ new.b = r.b
  BY <1>3, <1>6, RatedAs
<1>8. row' = [row EXCEPT ![k.m] = new]
  BY <1>2, <1>5, <1>6 DEF ApplyRating, TypeInv
<1>9. PICK m \in Matches : m = k.m
  BY <1>3
<1>10. PICK for \in Entries \X Entries : for = k.for
  BY <1>3
<1>11. for[1] # for[2]
  BY <1>3, <1>4, <1>10, BracketAssumption DEF PathInv, PairsPlayed, BracketAssumption
<1>12. SwingAddsUp'
  BY <1>2, <1>4, <1>5, <1>9, <1>10, <1>11, RatedSwings DEF PathInv
<1>13. Calm
  BY <1>2, <1>7, <1>8, <1>9, CalmRow
<1> QED BY <1>1, <1>5, <1>12, <1>13, CalmGo DEF Erasing

\* A rating is taken back.
LEMMA ReversePath ==
  ASSUME NEW reach, NEW ops, PathInv(reach, ops), OneInv,
         NEW d \in Desks, Desks = {d}, Reverse(d)
  PROVE  PathInv(reach, ops)'
<1> DEFINE k == Head(todo[d])
           r == row[k.m]
<1>1. ~Idle(d) /\ k.do = "reverse" /\ Go(d)
  BY DEF Reverse, Doing, Idle
<1>2. k \in GuardTask /\ TypeInv /\ Tidy
  BY <1>1, Working, FieldsOf
<1>3. PICK m \in Matches : m = k.m
  BY <1>2 DEF GuardTask
<1>4. r \in RowType
  BY <1>2, <1>3 DEF TypeInv
<1>5. PICK new : new = [r EXCEPT !.rated = NoPair]
  OBVIOUS
<1>6. new.status = r.status /\ new.win = r.win /\ new.lose = r.lose /\ new.a = r.a /\ new.b = r.b
  BY <1>4, <1>5, RatedAs
<1>7. row' = [row EXCEPT ![m] = new]
  BY <1>2, <1>3, <1>5 DEF Reverse, TypeInv
<1>8. Calm
  BY <1>2, <1>3, <1>6, <1>7, CalmRow
<1>9. SwingAddsUp'
  <2>1. row' = [row EXCEPT ![m].rated = NoPair]
    BY <1>3 DEF Reverse
  <2>2. swing' = [e \in Entries |->
            IF e \in {row[m].win, row[m].lose}
            THEN swing[e] - (CASE e = row[m].rated[1] -> 1 [] e = row[m].rated[2] -> -1 [] OTHER -> 0)
            ELSE swing[e]]
    BY <1>3 DEF Reverse
  <2> QED BY <1>2, <2>1, <2>2, ReversedSwings DEF PathInv
<1> QED BY <1>1, <1>8, <1>9, CalmGo DEF Erasing

\* A conditional update of a row of which neither the result nor the occupants change.
LEMMA CalmSwap ==
  ASSUME NEW reach, NEW ops, PathInv(reach, ops), OneInv,
         NEW d \in Desks, Desks = {d}, ~Idle(d),
         NEW m \in Matches, NEW holds, NEW new, CompareAndSwap(d, m, holds, new), swing' = swing,
         holds => /\ new.a = row[m].a /\ new.b = row[m].b
                  /\ new.win = row[m].win /\ new.lose = row[m].lose /\ new.rated = row[m].rated
                  /\ new.status \in Decided <=> row[m].status \in Decided,
         Head(todo[d]).do \notin {"place", "write", "edit", "clear", "guard", "find"} \cup Erasing
  PROVE  PathInv(reach, ops)'
<1>1. CASE holds
  <2>1. row' = [row EXCEPT ![m] = new] /\ Go(d)
    BY <1>1 DEF CompareAndSwap
  <2>2. Calm /\ SwingAddsUp'
    BY <1>1, <2>1, CalmRow DEF PathInv, OneInv
  <2> QED BY <2>1, <2>2, CalmGo
<1>2. CASE ~holds
  <2>1. row' = row /\ Stop(d)
    BY <1>2 DEF CompareAndSwap
  <2>2. Calm /\ SwingAddsUp'
    BY <2>1, SameCalm
  <2> QED BY <2>1, <2>2, CalmStop
<1> QED BY <1>1, <1>2

\* A match is ready.
LEMMA ReadyPath ==
  ASSUME NEW reach, NEW ops, PathInv(reach, ops), OneInv,
         NEW d \in Desks, Desks = {d}, Ready(d)
  PROVE  PathInv(reach, ops)'
<1> DEFINE k == Head(todo[d])
           r == row[k.m]
<1>1. ~Idle(d) /\ k.do = "ready" /\ Go(d) /\ swing' = swing
  BY DEF Ready, Doing, Idle
<1>2. k.m \in Matches /\ TypeInv /\ r \in RowType
  <2>1. k \in SettleTask /\ TypeInv
    BY <1>1, Working, FieldsOf
  <2> QED BY <2>1 DEF SettleTask, TypeInv
<1>3. CASE row' = row
  <2>1. Calm /\ SwingAddsUp'
    BY <1>1, <1>3, SameCalm
  <2> QED BY <1>1, <2>1, CalmGo DEF Erasing
<1>4. CASE r.status \in {"pending", "ready"} /\ row' = [row EXCEPT ![k.m].status = "ready"]
  <2>1. PICK new : new = [r EXCEPT !.status = "ready"]
    OBVIOUS
  <2>2. /\ new.status = "ready" /\ new.rated = r.rated
        /\ new.win = r.win /\ new.lose = r.lose /\ new.a = r.a /\ new.b = r.b
    BY <1>2, <2>1, StatusRow, Statuses
  <2>3. PICK m \in Matches : m = k.m
    BY <1>2
  <2>4. row' = [row EXCEPT ![m] = new]
    BY <1>2, <1>4, <2>1, <2>3 DEF TypeInv
  <2>5. new.status \notin Decided /\ row[m].status \notin Decided
    BY <1>4, <2>2, <2>3 DEF Decided
  <2>6. Calm /\ SwingAddsUp'
    BY <1>1, <1>2, <2>2, <2>3, <2>4, <2>5, CalmRow DEF PathInv
  <2> QED BY <1>1, <2>6, CalmGo DEF Erasing
<1> QED BY <1>3, <1>4 DEF Ready

\* A match is called to a court, or back from it.
LEMMA LivePath ==
  ASSUME NEW reach, NEW ops, PathInv(reach, ops), OneInv,
         NEW d \in Desks, Desks = {d}, WriteLive(d)
  PROVE  PathInv(reach, ops)'
<1> DEFINE k == Head(todo[d])
           r == row[k.m]
<1>1. ~Idle(d) /\ k.do = "call" /\ swing' = swing
  BY DEF WriteLive, Doing, Idle
<1>2. k \in CallTask /\ TypeInv
  BY <1>1, Working, FieldsOf
<1>3. PICK m \in Matches : m = k.m
  BY <1>2 DEF CallTask
<1>4. r \in RowType /\ k.from \in Open
  BY <1>2, <1>3 DEF TypeInv, CallTask
<1>5. PICK to \in Status : to = IF k.from = "live" THEN "ready" ELSE "live"
  BY Statuses
<1>6. PICK new : new = [r EXCEPT !.status = to]
  OBVIOUS
<1>7. /\ new.status = to /\ new.rated = r.rated
      /\ new.win = r.win /\ new.lose = r.lose /\ new.a = r.a /\ new.b = r.b
  BY <1>4, <1>6, StatusRow
<1>8. PICK holds : holds = (r.status = k.from)
  OBVIOUS
<1>9. CompareAndSwap(d, m, holds, new)
  BY <1>3, <1>5, <1>6, <1>8 DEF WriteLive
<1>10. holds => (new.status \in Decided <=> r.status \in Decided)
  BY <1>4, <1>5, <1>7, <1>8, Statuses
<1>11. k.do \notin {"place", "write", "edit", "clear", "guard", "find"} \cup Erasing
  BY <1>1 DEF Erasing
<1> HIDE DEF k
<1> QED BY <1>1, <1>3, <1>7, <1>9, <1>10, <1>11, CalmSwap DEF k
-----------------------------------------------------------------------------
(* The requests that take a result off.                                    *)

\* A result stands while another match changes.
LEMMA OtherSource ==
  ASSUME NEW m \in Matches, \A n \in Matches : n # m => row'[n] = row[n],
         NEW slot \in Slots, NEW e, Source(slot, e), slot \notin FedBy(m) \/ ~IsDecided(m)
  PROVE  Source(slot, e)'
<1>1. PICK n \in Matches : IsDecided(n) /\ Carries(n, row[n].win, row[n].lose, slot, e)
  BY DEF Source
<1>2. slot # NoSlot
  BY BracketAssumption DEF Slots, NoSlot, BracketAssumption
<1>3. n # m
  BY <1>1, <1>2 DEF FedBy, Carries
<1> QED BY <1>1, <1>3 DEF Source, IsDecided, Carries

\* A match is reset or voided.
LEMMA EndRow ==
  ASSUME NEW reach, NEW ops, Knockout(reach), PathInv(reach, ops), OneInv,
         NEW d \in Desks, Desks = {d},
         ~Idle(d), Go(d), swing' = swing,
         Head(todo[d]).do \in {"void", "undo", "noshow", "unvoid"},
         NEW m \in Matches, Head(todo[d]).m = m,
         Head(todo[d]).do \in {"noshow", "unvoid"} => ~IsDecided(m),
         NEW new, row' = [row EXCEPT ![m] = new],
         new.a = row[m].a, new.b = row[m].b, new.rated = row[m].rated, new.status \notin Decided
  PROVE  PathInv(reach, ops)'
<1>1. PICK s : s = todo[d]
  OBVIOUS
<1>2. PICK h : h = Head(s)
  OBVIOUS
<1>3. PICK R : R = Range(s)
  OBVIOUS
<1>4. PICK t : t = Tail(s)
  OBVIOUS
<1>5. PICK Q : Q = Range(t)
  OBVIOUS
<1>6. /\ R \subseteq AnyTask /\ R = {h} \cup Q /\ h \in R /\ \A l \in Q : Before(h, l)
      /\ TypeInv /\ todo' = [todo EXCEPT ![d] = t]
      /\ h.do \in {"void", "undo", "noshow", "unvoid"} /\ h.m = m
  BY <1>1, <1>2, <1>3, <1>4, <1>5, Working, RangeParts, PlannedTail, GoLeaves
<1>7. Followed(s, ops) /\ \A k \in R : OnPath(k, R, reach, ops)
  BY <1>1, <1>3 DEF PathInv, Along
<1>8. row'[m] = new /\ \A n \in Matches : n # m => row'[n] = row[n]
  BY <1>6 DEF TypeInv
<1>9. \A n \in Matches : IsDecided(n)' => IsDecided(n) /\ n # m
  BY <1>8 DEF IsDecided
<1>10. \A slot \in Slots : At(slot)' = At(slot)
  <2> TAKE slot \in Slots
  <2>1. slot[1] \in Matches /\ slot[2] \in {"a", "b"}
    BY DEF Slots, Sides
  <2> QED BY <1>8, <2>1 DEF At
<1>11. "reaward" \notin ops => \A slot \in FedBy(m) : At(slot) = None
  <2> SUFFICES ASSUME "reaward" \notin ops, NEW slot \in FedBy(m) PROVE At(slot) = None
    OBVIOUS
  <2>1. CASE h.do \in {"void", "undo"}
    <3>1. Emptying(h, R)
      BY <1>6, <1>7, <2>1 DEF OnPath
    <3>2. \A l \in R : l.do \notin {"find", "clear"}
      BY <1>6, <2>1 DEF Before, AtOnce, Preparing
    <3> QED BY <1>6, <3>1, <3>2 DEF Emptying
  <2>2. CASE h.do \in {"noshow", "unvoid"}
    <3>1. ~IsDecided(m) /\ Head(s).do # "place"
      BY <1>1, <1>2, <2>2
    <3>2. At(slot) = None \/ Source(slot, At(slot))
      BY <1>7, <3>1 DEF Followed
    <3>3. PICK e : e = At(slot)
      OBVIOUS
    <3> QED BY <3>1, <3>2, <3>3, OneSource
  <2> QED BY <1>6, <2>1, <2>2
<1>12. Followed(t, ops)'
  <2> SUFFICES ASSUME "reaward" \notin ops PROVE Followed(t, ops)'
    BY DEF Followed
  <2>1. \A n \in Matches : \A slot \in FedBy(n) :
            /\ At(slot)' \in {At(slot), None}
            /\ \A e : Source(slot, e) /\ e # None /\ e = At(slot) /\ e = At(slot)' => Source(slot, e)'
    <3> TAKE n \in Matches
    <3> TAKE slot \in FedBy(n)
    <3>1. slot \in Slots
      BY FedSlots
    <3>2. ASSUME NEW e, Source(slot, e), e # None, e = At(slot) PROVE Source(slot, e)'
      <4>1. slot \notin FedBy(m)
        BY <1>11, <3>2
      <4> QED BY <1>8, <3>1, <3>2, <4>1, OtherSource
    <3> QED BY <1>10, <3>1, <3>2
  <2>2. Head(s).do # "place"
    BY <1>2, <1>6
  <2>3. "reaward" \notin ops =>
          \A n \in Matches : \A slot \in FedBy(n) : At(slot)' = None \/ Source(slot, At(slot))'
    BY <1>7, <2>1, <2>2, StillFollowed
  <2> QED BY <2>3 DEF Followed, FedBy
<1>13. ASSUME NEW k \in Q PROVE OnPath(k, Q, reach, ops)'
  <2>1. k \in R /\ k \in AnyTask /\ OnPath(k, R, reach, ops)
    BY <1>6, <1>7
  <2>2. \A l \in R : l.do \in {"write", "edit", "guard", "find", "clear", "place"} => l \in Q
    BY <1>6
  <2>3. k.do \in {"place", "find", "clear"} =>
            /\ IsDecided(k.slot[1])' => IsDecided(k.slot[1])
            /\ \A l \in R : l.do = "guard" => l \in Q \/ ~IsDecided(l.m)'
    BY <1>9, <2>1, <2>2, Placed
  <2>4. k.do \in {"void", "undo", "edit"} =>
            \A slot \in FedBy(k.m) : At(slot)' \in {At(slot), None}
    BY <1>10, <2>1, Placed, FedSlots
  <2>5. k.do \in {"route", "place"} /\ Source(k.slot, k.e) /\ Unerased(k.slot, R) => Source(k.slot, k.e)'
    <3> SUFFICES ASSUME k.do \in {"route", "place"}, Source(k.slot, k.e), Unerased(k.slot, R)
                 PROVE  Source(k.slot, k.e)'
      OBVIOUS
    <3>1. k.slot \in Slots
      BY <2>1, Placed
    <3>2. k.slot \notin FedBy(m) \/ ~IsDecided(m)
      BY <1>1, <1>2, <1>6 DEF Unerased, Erasing
    <3>3. PICK slot \in Slots : slot = k.slot
      BY <3>1
    <3>4. PICK e : e = k.e
      OBVIOUS
    <3> QED BY <1>8, <3>2, <3>3, <3>4, OtherSource
  <2> QED BY <1>6, <2>1, <2>2, <2>3, <2>4, <2>5, Onward
<1>14. Within(reach)' /\ PairsPlayed'
  BY <1>8, <1>9 DEF PathInv, Within, PairsPlayed, IsDecided, Sides, Other
<1>15. SwingAddsUp'
  BY <1>8, SameSwings DEF PathInv
<1> QED BY <1>5, <1>6, <1>12, <1>13, <1>14, <1>15, PathStep

\* A conditional reset or voiding.
LEMMA EndSwap ==
  ASSUME NEW reach, NEW ops, Knockout(reach), PathInv(reach, ops), OneInv,
         NEW d \in Desks, Desks = {d},
         ~Idle(d), swing' = swing,
         Head(todo[d]).do \in {"void", "undo", "noshow", "unvoid"},
         NEW m \in Matches, Head(todo[d]).m = m,
         NEW holds, NEW new, CompareAndSwap(d, m, holds, new),
         holds => (Head(todo[d]).do \in {"noshow", "unvoid"} => ~IsDecided(m)),
         new.a = row[m].a, new.b = row[m].b, new.rated = row[m].rated, new.status \notin Decided
  PROVE  PathInv(reach, ops)'
<1>1. CASE holds
  BY <1>1, EndRow DEF CompareAndSwap
<1>2. CASE ~holds
  <2>1. row' = row /\ Stop(d)
    BY <1>2 DEF CompareAndSwap
  <2>2. Calm /\ SwingAddsUp'
    BY <2>1, SameCalm
  <2> QED BY <2>1, <2>2, CalmStop
<1> QED BY <1>1, <1>2

\* A match is voided.
LEMMA VoidPath ==
  ASSUME NEW reach, NEW ops, Knockout(reach), PathInv(reach, ops), OneInv,
         NEW d \in Desks, Desks = {d}, WriteVoid(d)
  PROVE  PathInv(reach, ops)'
<1> DEFINE k == Head(todo[d])
           r == row[k.m]
<1>1. ~Idle(d) /\ k.do = "void" /\ swing' = swing
  BY DEF WriteVoid, Doing, Idle
<1>2. k \in VoidTask /\ TypeInv
  BY <1>1, Working, FieldsOf
<1>3. PICK m \in Matches : m = k.m
  BY <1>2 DEF VoidTask
<1>4. r \in RowType
  BY <1>2, <1>3 DEF TypeInv
<1>5. PICK new : new = [r EXCEPT !.status = "voided"]
  OBVIOUS
<1>6. /\ new.status = "voided" /\ new.rated = r.rated /\ new.a = r.a /\ new.b = r.b
  BY <1>4, <1>5, StatusRow DEF Status
<1>7. PICK holds : holds = MayErase(r, k.was)
  OBVIOUS
<1>8. CompareAndSwap(d, m, holds, new)
  BY <1>3, <1>5, <1>7 DEF WriteVoid
<1>9. new.status \notin Decided
  BY <1>6 DEF Decided
<1> HIDE DEF k
<1> QED BY <1>1, <1>3, <1>6, <1>8, <1>9, EndSwap DEF k

\* Neither side of a match turned up.
LEMMA NoShowPath ==
  ASSUME NEW reach, NEW ops, Knockout(reach), PathInv(reach, ops), OneInv,
         NEW d \in Desks, Desks = {d}, WriteNoShow(d)
  PROVE  PathInv(reach, ops)'
<1> DEFINE k == Head(todo[d])
           r == row[k.m]
<1>1. ~Idle(d) /\ k.do = "noshow" /\ swing' = swing
  BY DEF WriteNoShow, Doing, Idle
<1>2. k \in VoidTask /\ TypeInv /\ k \in Range(todo[d]) /\ Planned(todo[d])
  BY <1>1, Working, FieldsOf
<1>3. PICK m \in Matches : m = k.m
  BY <1>2 DEF VoidTask
<1>4. r \in RowType /\ k.was.status \in Open
  BY <1>1, <1>2, <1>3 DEF TypeInv, Planned
<1>5. PICK new : new = [r EXCEPT !.status = "voided", !.win = None, !.lose = None]
  OBVIOUS
<1>6. /\ new.status = "voided" /\ new.rated = r.rated /\ new.a = r.a /\ new.b = r.b
  BY <1>4, <1>5 DEF RowType
<1>7. PICK holds : holds = MayErase(r, k.was)
  OBVIOUS
<1>8. CompareAndSwap(d, m, holds, new)
  BY <1>3, <1>5, <1>7 DEF WriteNoShow
<1>9. new.status \notin Decided
  BY <1>6 DEF Decided
<1>10. holds => ~IsDecided(m)
  BY <1>3, <1>4, <1>7, Statuses DEF MayErase, IsDecided
<1> HIDE DEF k
<1> QED BY <1>1, <1>3, <1>6, <1>8, <1>9, <1>10, EndSwap DEF k

\* A match is restored, or its result undone.
LEMMA ResetPath ==
  ASSUME NEW reach, NEW ops, Knockout(reach), PathInv(reach, ops), OneInv,
         NEW d \in Desks, Desks = {d},
         WriteUnvoid(d) \/ WriteUndo(d)
  PROVE  PathInv(reach, ops)'
<1> DEFINE k == Head(todo[d])
           r == row[k.m]
<1>1. ~Idle(d) /\ k.do \in {"unvoid", "undo"} /\ swing' = swing
  BY DEF WriteUnvoid, WriteUndo, Doing, Idle
<1>2. k \in ResetTask /\ TypeInv
  BY <1>1, Working, FieldsOf
<1>3. PICK m \in Matches : m = k.m
  BY <1>2 DEF ResetTask
<1>4. r \in RowType
  BY <1>2, <1>3 DEF TypeInv
<1>5. PICK to \in {"pending", "ready"} : to = k.to
  BY <1>2 DEF ResetTask
<1>6. PICK new : new = [r EXCEPT !.status = to, !.win = None, !.lose = None]
  OBVIOUS
<1>7. new.status = to /\ new.rated = r.rated /\ new.a = r.a /\ new.b = r.b
  BY <1>4, <1>6 DEF RowType
<1>8. PICK holds : holds = (k.do = "unvoid" => r.status = "voided")
  OBVIOUS
<1>9. CompareAndSwap(d, m, holds, new)
  BY <1>3, <1>5, <1>6, <1>8 DEF WriteUnvoid, WriteUndo, Doing, CompareAndSwap
<1>10. new.status \notin Decided
  BY <1>7 DEF Decided
<1>11. holds => (k.do \in {"noshow", "unvoid"} => ~IsDecided(m))
  BY <1>1, <1>3, <1>8 DEF IsDecided, Decided
<1> HIDE DEF k
<1> QED BY <1>1, <1>3, <1>7, <1>9, <1>10, <1>11, EndSwap DEF k
-----------------------------------------------------------------------------
(* The requests that write a slot.                                         *)

\* No guard stands behind a request that writes a slot: its match was found undecided.
LEMMA SlotUndecided ==
  ASSUME NEW reach, NEW ops, PathInv(reach, ops), OneInv, NEW d \in Desks, ~Idle(d),
         Head(todo[d]).do \in {"place", "clear"}
  PROVE  ~IsDecided(Head(todo[d]).slot[1])
<1>1. PICK s : s = todo[d]
  OBVIOUS
<1>2. PICK h : h = Head(s)
  OBVIOUS
<1>3. Range(s) = {h} \cup Range(Tail(s)) /\ h \in Range(s) /\ \A l \in Range(Tail(s)) : Before(h, l)
  BY <1>1, <1>2, Working, RangeParts, PlannedTail
<1>4. OnPath(h, Range(s), reach, ops)
  BY <1>1, <1>3 DEF PathInv, Along
<1>5. \A l \in Range(s) : l.do # "guard"
  BY <1>1, <1>2, <1>3 DEF Before
<1> QED BY <1>1, <1>2, <1>4, <1>5 DEF OnPath, Passed

\* A slot is emptied, unless somebody else stands in it.
LEMMA ClearPath ==
  ASSUME NEW reach, NEW ops, PathInv(reach, ops), OneInv,
         NEW d \in Desks, Desks = {d}, Clear(d)
  PROVE  PathInv(reach, ops)'
<1> DEFINE k == Head(todo[d])
<1>1. ~Idle(d) /\ k.do = "clear" /\ swing' = swing /\ Go(d)
  BY DEF Clear, Doing, Idle
<1>2. PICK s : s = todo[d]
  OBVIOUS
<1>3. PICK h : h = Head(s)
  OBVIOUS
<1>4. PICK R : R = Range(s)
  OBVIOUS
<1>5. PICK t : t = Tail(s)
  OBVIOUS
<1>6. PICK Q : Q = Range(t)
  OBVIOUS
<1>7. /\ R \subseteq AnyTask /\ R = {h} \cup Q /\ h \in R /\ Fits(s)
      /\ TypeInv /\ todo' = [todo EXCEPT ![d] = t]
      /\ h.do = "clear" /\ h \in ClearTask
  BY <1>1, <1>2, <1>3, <1>4, <1>5, <1>6, Working, FieldsOf, RangeParts, GoLeaves
<1>8. Followed(s, ops) /\ \A l \in R : OnPath(l, R, reach, ops)
  BY <1>2, <1>4 DEF PathInv, Along
<1>9. PICK m \in Matches, side \in Sides : m = h.slot[1] /\ side = h.slot[2]
  BY <1>7 DEF ClearTask, Slots
<1>10. ~IsDecided(m) /\ h.to = Emptied(row[m]) /\ h.e # None /\ h.to \in Status /\ row[m] \in RowType
  BY <1>1, <1>2, <1>3, <1>4, <1>7, <1>9, SlotUndecided, BracketAssumption
     DEF Fits, ClearTask, BracketAssumption, TypeInv
<1>11. \/ row[m][side] # h.e /\ row' = row
       \/ \E new : /\ row' = [row EXCEPT ![m] = new] /\ new[side] = None
                   /\ new[Other(side)] = row[m][Other(side)] /\ new.status \notin Decided
                   /\ new.win = row[m].win /\ new.lose = row[m].lose /\ new.rated = row[m].rated
  <2>1. PICK mid : mid = [row[m] EXCEPT ![side] = None]
    OBVIOUS
  <2>2. /\ mid \in RowType /\ mid[side] = None /\ mid[Other(side)] = row[m][Other(side)]
        /\ mid.win = row[m].win /\ mid.lose = row[m].lose /\ mid.rated = row[m].rated
    BY <1>10, <2>1, SideRow DEF Occupant
  <2>3. PICK new : new = [mid EXCEPT !.status = h.to]
    OBVIOUS
  <2>4. /\ new.status = h.to /\ new.a = mid.a /\ new.b = mid.b
        /\ new.win = mid.win /\ new.lose = mid.lose /\ new.rated = mid.rated
    BY <1>10, <2>2, <2>3, StatusRow
  <2>5. new.status \notin Decided
    BY <1>10, <2>4 DEF IsDecided, Emptied, Decided
  <2>6. new[side] = None /\ new[Other(side)] = row[m][Other(side)]
    BY <2>2, <2>4 DEF Sides, Other
  <2>7. \/ row[m][side] # h.e /\ row' = row
        \/ row' = [row EXCEPT ![m] = new]
    BY <1>2, <1>3, <1>9, <2>1, <2>3, <1>7 DEF Clear, TypeInv
  <2> QED BY <2>2, <2>4, <2>5, <2>6, <2>7
<1>12. /\ \A n \in Matches : n # m => row'[n] = row[n]
       /\ row'[m][Other(side)] = row[m][Other(side)] /\ row'[m][side] \in {row[m][side], None}
       /\ row'[m][side] # h.e /\ row'[m].status \notin Decided
       /\ row'[m].win = row[m].win /\ row'[m].lose = row[m].lose /\ row'[m].rated = row[m].rated
  BY <1>7, <1>10, <1>11 DEF TypeInv, IsDecided
<1>13. \A n \in Matches : IsDecided(n)' <=> IsDecided(n)
  BY <1>10, <1>12 DEF IsDecided
<1>14. \A slot, e : Source(slot, e)' <=> Source(slot, e)
  BY <1>12, <1>13 DEF Source, Carries
<1>15. \A slot \in Slots : At(slot)' \in {At(slot), None}
  <2> TAKE slot \in Slots
  <2>1. slot[1] \in Matches /\ slot[2] \in Sides
    BY DEF Slots
  <2>2. slot[2] = side \/ slot[2] = Other(side)
    BY <2>1 DEF Sides, Other
  <2> QED BY <1>12, <2>1, <2>2 DEF At
<1>16. At(h.slot)' # h.e
  BY <1>9, <1>12 DEF At
<1>17. Followed(t, ops)'
  <2>1. \A n \in Matches : \A slot \in FedBy(n) :
            /\ At(slot)' \in {At(slot), None}
            /\ \A e : Source(slot, e) /\ e # None /\ e = At(slot) /\ e = At(slot)' => Source(slot, e)'
    BY <1>14, <1>15, FedSlots
  <2>2. Head(s).do # "place"
    BY <1>3, <1>7
  <2>3. "reaward" \notin ops =>
          \A n \in Matches : \A slot \in FedBy(n) : At(slot)' = None \/ Source(slot, At(slot))'
    BY <1>8, <2>1, <2>2, StillFollowed
  <2> QED BY <2>3 DEF Followed, FedBy
<1>18. ASSUME NEW l \in Q PROVE OnPath(l, Q, reach, ops)'
  <2>1. l \in R /\ l \in AnyTask /\ OnPath(l, R, reach, ops)
    BY <1>7, <1>8
  <2>2. \A q \in R : q.do \in {"write", "edit", "guard", "place"} => q \in Q
    BY <1>7
  <2>3. l.do \in {"place", "find", "clear"} =>
            /\ IsDecided(l.slot[1])' => IsDecided(l.slot[1])
            /\ \A q \in R : q.do = "guard" => q \in Q \/ ~IsDecided(q.m)'
    BY <1>13, <2>1, <2>2, Placed
  <2>4. l.do \in {"void", "undo", "edit"} =>
            \A slot \in FedBy(l.m) : At(slot)' \in {At(slot), None}
    BY <1>15, <2>1, Placed, FedSlots
  <2>5. \A q \in R : q.do \in {"find", "clear"} =>
            \/ \E p \in Q : p.do \in {"find", "clear"} /\ p.slot = q.slot /\ p.e = q.e
            \/ At(q.slot)' # q.e
    BY <1>7, <1>16
  <2>6. Source(l.slot, l.e) => Source(l.slot, l.e)'
    BY <1>14
  <2> QED BY <1>7, <2>1, <2>2, <2>3, <2>4, <2>5, <2>6, Onward
<1>19. Within(reach)'
  BY <1>12 DEF PathInv, Within, Sides, Other
<1>20. PairsPlayed'
  BY <1>12, <1>13 DEF PathInv, PairsPlayed, IsDecided
<1>21. SwingAddsUp'
  BY <1>1, <1>12, SameSwings DEF PathInv
<1> QED BY <1>6, <1>7, <1>17, <1>18, <1>19, <1>20, <1>21, PathStep

\* Slots are written one right after the other.
LEMMA NextPlace ==
  ASSUME NEW s \in Seq(AnyTask), s # << >>, Planned(s), Head(s).do \in {"place", "edit"},
         NEW l \in Range(Tail(s)), l.do = "place"
  PROVE  Tail(s) # << >> /\ Head(Tail(s)).do = "place"
<1>1. PICK t : t = Tail(s)
  OBVIOUS
<1>2. Planned(t) /\ t \in Seq(AnyTask) /\ \A q \in Range(t) : Before(Head(s), q)
  BY <1>1, PlannedTail
<1>3. t # << >>
  BY <1>1, EmptySeq DEF Range
<1>4. /\ Head(t) \in Range(t) /\ \A q \in Range(t) : q = Head(t) \/ q \in Range(Tail(t))
      /\ \A q \in Range(Tail(t)) : Before(Head(t), q)
  BY <1>2, <1>3, PlannedTail
<1>5. Head(t).do \in {"guard", "reverse", "edit", "place"}
  BY <1>1, <1>4 DEF Before
<1>6. Head(t).do \notin {"guard", "reverse", "edit"}
  BY <1>2, <1>4 DEF Before, Erasures, Erasing, Preparing
<1> QED BY <1>1, <1>3, <1>5, <1>6

\* An entry is written into a slot that a result sends it to.
LEMMA PlacePath ==
  ASSUME NEW reach, NEW ops, PathInv(reach, ops), OneInv,
         NEW d \in Desks, Desks = {d}, Place(d)
  PROVE  PathInv(reach, ops)'
<1> DEFINE k == Head(todo[d])
<1>1. ~Idle(d) /\ k.do = "place" /\ swing' = swing /\ Go(d)
  BY DEF Place, Doing, Idle
<1>2. PICK s : s = todo[d]
  OBVIOUS
<1>3. PICK h : h = Head(s)
  OBVIOUS
<1>4. PICK R : R = Range(s)
  OBVIOUS
<1>5. PICK t : t = Tail(s)
  OBVIOUS
<1>6. PICK Q : Q = Range(t)
  OBVIOUS
<1>7. /\ R \subseteq AnyTask /\ R = {h} \cup Q /\ h \in R /\ \A l \in Q : Before(h, l)
      /\ s \in Seq(AnyTask) /\ s # << >> /\ Planned(s)
      /\ TypeInv /\ todo' = [todo EXCEPT ![d] = t]
      /\ h.do = "place" /\ h \in PlaceTask
  BY <1>1, <1>2, <1>3, <1>4, <1>5, <1>6, Working, FieldsOf, RangeParts, PlannedTail, GoLeaves
<1>8. Followed(s, ops) /\ \A l \in R : OnPath(l, R, reach, ops)
  BY <1>2, <1>4 DEF PathInv, Along
<1>9. PICK m \in Matches, side \in Sides, e \in Occupant :
          h.slot = <<m, side>> /\ m = h.slot[1] /\ side = h.slot[2] /\ e = h.e
  BY <1>7 DEF PlaceTask, Slots, Occupant
<1>10. ~IsDecided(m) /\ row[m] \in RowType
  BY <1>1, <1>2, <1>3, <1>7, <1>9, SlotUndecided DEF TypeInv
<1>11. PICK new : new = [row[m] EXCEPT ![side] = e]
  OBVIOUS
<1>12. /\ new[side] = e /\ new[Other(side)] = row[m][Other(side)]
       /\ new.status = row[m].status /\ new.win = row[m].win /\ new.lose = row[m].lose
       /\ new.rated = row[m].rated
  BY <1>10, <1>11, SideRow DEF Occupant
<1>13. row' = [row EXCEPT ![m] = new]
  BY <1>2, <1>3, <1>7, <1>9, <1>11 DEF Place, TypeInv
<1>14. row'[m] = new /\ \A n \in Matches : n # m => row'[n] = row[n]
  BY <1>7, <1>13 DEF TypeInv
<1>15. \A n \in Matches : IsDecided(n)' <=> IsDecided(n)
  BY <1>12, <1>14 DEF IsDecided
<1>16. \A slot, x : Source(slot, x)' <=> Source(slot, x)
  BY <1>12, <1>14, <1>15 DEF Source, Carries
<1>17. \A slot \in Slots : At(slot)' = IF slot = h.slot THEN e ELSE At(slot)
  <2> TAKE slot \in Slots
  <2>1. slot[1] \in Matches /\ slot[2] \in Sides /\ slot = <<slot[1], slot[2]>>
    BY DEF Slots
  <2>2. slot[2] = side \/ slot[2] = Other(side)
    BY <2>1 DEF Sides, Other
  <2>3. side # Other(side)
    BY DEF Sides, Other
  <2>4. CASE slot = h.slot
    BY <1>9, <1>12, <1>14, <2>1, <2>4 DEF At
  <2>5. CASE slot[1] # m
    BY <1>9, <1>14, <2>1, <2>5 DEF At
  <2>6. CASE slot[1] = m /\ slot[2] = Other(side)
    BY <1>9, <1>12, <1>14, <2>1, <2>3, <2>6 DEF At
  <2> QED BY <1>9, <2>1, <2>2, <2>4, <2>5, <2>6
<1>18. e \in reach[m][side] \cup {None} /\ ("reaward" \notin ops => Source(h.slot, e))
  <2>1. \A l \in R : l.do \notin {"write", "edit"}
    BY <1>7 DEF Before, AtOnce, Erasures, Erasing, Preparing
  <2> QED BY <1>7, <1>8, <1>9, <2>1 DEF OnPath, Sent
<1>19. Followed(t, ops)'
  <2> SUFFICES ASSUME NEW n \in Matches, NEW slot \in FedBy(n), At(slot)' # None,
                      NEW x, x = At(slot)', ~Source(slot, x)', "reaward" \notin ops
               PROVE  /\ t # << >> /\ Head(t).do = "place"
                      /\ \E l \in Range(t) : l.do = "place" /\ l.slot = slot /\ l.e # None
    BY DEF Followed, FedBy
  <2>1. slot \in Slots
    BY FedSlots
  <2>2. slot # h.slot
    BY <1>16, <1>17, <1>18, <2>1
  <2>3. At(slot) = x /\ ~Source(slot, x) /\ x # None
    BY <1>16, <1>17, <2>1, <2>2
  <2>4. PICK l \in R : l.do = "place" /\ l.slot = slot /\ l.e # None
    BY <1>4, <1>8, <2>3 DEF Followed
  <2>5. l \in Range(t)
    BY <1>6, <1>7, <2>2, <2>4
  <2>6. t # << >> /\ Head(t).do = "place"
    BY <1>3, <1>5, <1>7, <2>4, <2>5, NextPlace
  <2> QED BY <2>4, <2>5, <2>6
<1>20. ASSUME NEW l \in Q PROVE OnPath(l, Q, reach, ops)'
  <2>1. l \in R /\ l \in AnyTask /\ OnPath(l, R, reach, ops)
    BY <1>7, <1>8
  <2>2. \A q \in R : q.do \in {"write", "edit", "guard", "find", "clear"} => q \in Q
    BY <1>7
  <2>3. l.do \in {"place", "find", "clear"} =>
            /\ IsDecided(l.slot[1])' => IsDecided(l.slot[1])
            /\ \A q \in R : q.do = "guard" => q \in Q \/ ~IsDecided(q.m)'
    BY <1>15, <2>1, <2>2, Placed
  <2>4. l.do \notin {"void", "undo", "edit"}
    BY <1>7 DEF Before, Erasures, Erasing, Preparing
  <2>5. Source(l.slot, l.e) => Source(l.slot, l.e)'
    BY <1>16
  <2> QED BY <1>7, <2>1, <2>2, <2>3, <2>4, <2>5, Onward
<1>21. Within(reach)'
  BY <1>12, <1>14, <1>18 DEF PathInv, Within, Sides, Other
<1>22. PairsPlayed'
  BY <1>10, <1>14, <1>15 DEF PathInv, PairsPlayed, IsDecided
<1>23. SwingAddsUp'
  BY <1>1, <1>12, <1>14, SameSwings DEF PathInv
<1> QED BY <1>6, <1>7, <1>19, <1>20, <1>21, <1>22, <1>23, PathStep
-----------------------------------------------------------------------------
(* The requests that write a result.                                       *)

\* A result that is written names the two sides of its match, and sends them on their
\* way.
LEMMA NewResult ==
  ASSUME NEW reach, NEW ops, PathInv(reach, ops), TypeInv, swing' = swing,
         NEW m \in Matches, NEW k, k.m = m, PairOf(k), SameAs(row[m], k.was),
         k.to \in Decided,
         NEW new, row' = [row EXCEPT ![m] = new], new.status = k.to, new.win = k.win,
         new.lose = k.lose, new.a = row[m].a, new.b = row[m].b, new.rated = row[m].rated
  PROVE  /\ Within(reach)' /\ PairsPlayed' /\ SwingAddsUp'
         /\ \A slot, e : Makes(k, slot, e) => Source(slot, e)'
         /\ \A slot \in Slots : At(slot)' = At(slot)
         /\ \A n \in Matches : n # m => row'[n] = row[n]
<1>1. row'[m] = new /\ \A n \in Matches : n # m => row'[n] = row[n]
  BY DEF TypeInv
<1>2. Within(reach)'
  BY <1>1 DEF PathInv, Within, Sides
<1>3. new.win = new.lose => new.win = None
  BY DEF PairOf
<1>4. \E side \in Sides : new.win = new[side] /\ new.lose = new[Other(side)]
  BY DEF PairOf, SameAs, Sides, Other
<1>5. PairsPlayed'
  BY <1>1, <1>3, <1>4 DEF PathInv, PairsPlayed, IsDecided
<1>6. SwingAddsUp'
  BY <1>1, SameSwings DEF PathInv
<1>7. \A slot, e : Makes(k, slot, e) => Source(slot, e)'
  BY <1>1 DEF Makes, Source, Carries, IsDecided
<1>8. \A slot \in Slots : At(slot)' = At(slot)
  <2> TAKE slot \in Slots
  <2>1. slot[1] \in Matches /\ slot[2] \in {"a", "b"}
    BY DEF Slots, Sides
  <2> QED BY <1>1, <2>1 DEF At
<1> QED BY <1>1, <1>2, <1>5, <1>6, <1>7, <1>8

\* The desk goes on when a result is written, for the first time or anew.
LEMMA ResultGo ==
  ASSUME NEW reach, NEW ops, PathInv(reach, ops), OneInv, NEW d \in Desks, Desks = {d},
         ~Idle(d), Go(d), swing' = swing,
         NEW h, h = Head(todo[d]), h.do \in {"write", "edit"},
         NEW m \in Matches, h.m = m, SameAs(row[m], h.was),
         h.do = "write" => ~IsDecided(m),
         NEW new, row' = [row EXCEPT ![m] = new], new.status = h.to, new.win = h.win,
         new.lose = h.lose, new.a = row[m].a, new.b = row[m].b, new.rated = row[m].rated
  PROVE  PathInv(reach, ops)'
<1>1. PICK s : s = todo[d]
  OBVIOUS
<1>2. PICK R : R = Range(s)
  OBVIOUS
<1>3. PICK t : t = Tail(s)
  OBVIOUS
<1>4. PICK Q : Q = Range(t)
  OBVIOUS
<1>5. /\ R \subseteq AnyTask /\ R = {h} \cup Q /\ h \in R /\ \A l \in Q : Before(h, l)
      /\ s \in Seq(AnyTask) /\ s # << >> /\ Planned(s)
      /\ TypeInv /\ todo' = [todo EXCEPT ![d] = t]
  BY <1>1, <1>2, <1>3, <1>4, Working, RangeParts, PlannedTail, GoLeaves
<1>6. h.to \in Decided
  BY <1>5, FieldsOf DEF AnyWrite, EditTask
<1>7. Followed(s, ops) /\ \A l \in R : OnPath(l, R, reach, ops)
  BY <1>1, <1>2 DEF PathInv, Along
<1>8. PairOf(h)
  BY <1>5, <1>7 DEF OnPath
<1>9. /\ Within(reach)' /\ PairsPlayed' /\ SwingAddsUp'
      /\ \A slot, e : Makes(h, slot, e) => Source(slot, e)'
      /\ \A slot \in Slots : At(slot)' = At(slot)
      /\ \A n \in Matches : n # m => row'[n] = row[n]
  BY <1>5, <1>6, <1>8, NewResult, ZenonT(60)
<1>10. \A l \in Q : l.do \notin {"find", "clear"} \cup Erasing
  BY <1>5 DEF Before, AtOnce, Erasures, Erasing, Preparing
<1>11. \A l \in Q : l.do = "place" => h.do = "edit" /\ l.slot[1] # m
  BY <1>5 DEF Before
<1>12. ASSUME NEW slot \in Slots, NEW e, Source(slot, e), slot \notin FedBy(m) \/ h.do = "write"
       PROVE  Source(slot, e)'
  <2>1. slot \notin FedBy(m) \/ ~IsDecided(m)
    BY <1>12
  <2> QED BY <1>9, <1>12, <2>1, OtherSource
<1>13. Followed(t, ops)'
  <2> SUFFICES ASSUME NEW n \in Matches, NEW slot \in FedBy(n), At(slot)' # None,
                      NEW x, x = At(slot)', ~Source(slot, x)', "reaward" \notin ops
               PROVE  /\ t # << >> /\ Head(t).do = "place"
                      /\ \E l \in Range(t) : l.do = "place" /\ l.slot = slot /\ l.e # None
    BY DEF Followed, FedBy
  <2>1. slot \in Slots
    BY FedSlots
  <2>2. At(slot) = x /\ x # None
    BY <1>9, <2>1
  <2>3. Source(slot, x)
    BY <1>1, <1>7, <2>2 DEF Followed
  <2>4. slot \in FedBy(m) /\ h.do = "edit"
    BY <1>12, <2>1, <2>3
  <2>5. PICK l \in R : l.do = "place" /\ l.slot = slot /\ l.e # None
    BY <1>5, <1>7, <2>2, <2>4 DEF OnPath, Rewriting
  <2>6. l \in Range(t)
    BY <1>4, <1>5, <2>4, <2>5
  <2>7. t # << >> /\ Head(t).do = "place"
    BY <1>1, <1>3, <1>5, <2>4, <2>5, <2>6, NextPlace
  <2> QED BY <2>5, <2>6, <2>7
<1>14. ASSUME NEW l \in Q PROVE OnPath(l, Q, reach, ops)'
  <2>1. l \in R /\ l \in AnyTask /\ OnPath(l, R, reach, ops)
    BY <1>5, <1>7
  <2>2. \A q \in R : q.do \in {"write", "edit"} => q \in Q \/ q = h
    BY <1>5
  <2>3. l.do \in {"place", "find", "clear"} =>
            /\ IsDecided(l.slot[1])' => IsDecided(l.slot[1])
            /\ \A q \in R : q.do = "guard" => q \in Q \/ ~IsDecided(q.m)'
    <3>1. l.do \in {"place", "find", "clear"} => l.slot[1] \in Matches /\ l.slot[1] # m
      BY <1>10, <1>11, <2>1, Placed
    <3>2. \A q \in R : q.do = "guard" => q \in Q
      BY <1>5
    <3> QED BY <1>9, <3>1, <3>2 DEF IsDecided
  <2>4. l.do \notin {"void", "undo", "edit"}
    BY <1>10 DEF Erasing
  <2>5. l.do \in {"route", "place"} /\ Source(l.slot, l.e) /\ Unerased(l.slot, R) =>
            Source(l.slot, l.e)'
    <3> SUFFICES ASSUME l.do \in {"route", "place"}, Source(l.slot, l.e), Unerased(l.slot, R)
                 PROVE  Source(l.slot, l.e)'
      OBVIOUS
    <3>1. PICK slot \in Slots : slot = l.slot
      BY <2>1, Placed
    <3>2. PICK e : e = l.e
      OBVIOUS
    <3>3. slot \notin FedBy(m) \/ h.do = "write"
      BY <1>5, <3>1 DEF Unerased, Erasing
    <3> QED BY <1>12, <3>1, <3>2, <3>3
  <2> QED BY <1>9, <1>10, <2>1, <2>2, <2>3, <2>4, <2>5, Onward
<1> QED BY <1>4, <1>5, <1>9, <1>13, <1>14, PathStep

\* It goes on, or stops.
LEMMA ResultSwap ==
  ASSUME NEW reach, NEW ops, PathInv(reach, ops), OneInv, NEW d \in Desks, Desks = {d},
         ~Idle(d), swing' = swing,
         NEW h, h = Head(todo[d]), h.do \in {"write", "edit"},
         NEW m \in Matches, h.m = m, SameAs(row[m], h.was),
         h.do = "write" => ~IsDecided(m),
         NEW holds, NEW new, CompareAndSwap(d, m, holds, new), new.status = h.to,
         new.win = h.win, new.lose = h.lose, new.a = row[m].a, new.b = row[m].b,
         new.rated = row[m].rated
  PROVE  PathInv(reach, ops)'
<1>1. CASE holds
  BY <1>1, ResultGo DEF CompareAndSwap
<1>2. CASE ~holds
  <2>1. row' = row /\ Stop(d)
    BY <1>2 DEF CompareAndSwap
  <2>2. Calm /\ SwingAddsUp'
    BY <2>1, SameCalm
  <2> QED BY <2>1, <2>2, CalmStop
<1> QED BY <1>1, <1>2

\* The first result of a match is written.
LEMMA WritePath ==
  ASSUME NEW reach, NEW ops, PathInv(reach, ops), OneInv,
         NEW d \in Desks, Desks = {d}, Write(d)
  PROVE  PathInv(reach, ops)'
<1>1. PICK h : h = Head(todo[d])
  OBVIOUS
<1>2. ~Idle(d) /\ h.do = "write" /\ swing' = swing
  BY <1>1 DEF Write, Doing, Idle
<1>3. /\ h \in AnyWrite /\ h \in Range(todo[d]) /\ TypeInv
      /\ Fits(todo[d]) /\ Planned(todo[d])
  BY <1>1, <1>2, Working, FieldsOf
<1>4. PICK m \in Matches : m = h.m
  BY <1>3 DEF AnyWrite
<1>5. row[m] \in RowType /\ SameAs(row[m], h.was) /\ row[m].status \in Open
  BY <1>2, <1>3, <1>4 DEF TypeInv, Fits, Planned, SameAs
<1>6. ~IsDecided(m)
  BY <1>5, Statuses DEF IsDecided
<1>7. PICK new : new = [row[m] EXCEPT !.status = h.to, !.win = h.win, !.lose = h.lose]
  OBVIOUS
<1>8. /\ new.status = h.to /\ new.win = h.win /\ new.lose = h.lose
      /\ new.a = row[m].a /\ new.b = row[m].b /\ new.rated = row[m].rated
  BY <1>5, <1>7 DEF RowType
<1>9. PICK holds :
          holds = (row[m].status = h.was.status /\ (h.to = "completed" => SameOccupants(row[m], h.was)))
  OBVIOUS
<1>10. CompareAndSwap(d, m, holds, new)
  BY <1>1, <1>4, <1>7, <1>9 DEF Write
<1> QED BY <1>1, <1>2, <1>4, <1>5, <1>6, <1>8, <1>10, ResultSwap

\* What begins has begun.
LEMMA NowBegun ==
  ASSUME OneInv, NEW d \in Desks, NEW op, NEW tasks, Begin(d, op, tasks)
  PROVE  Begun(op)'
<1>1. op \in Ops /\ begun \in Seq(Ops) /\ begun' = Append(begun, op)
  BY DEF Begin, OneInv, TypeInv
<1>2. Len(begun) + 1 \in DOMAIN begun' /\ begun'[Len(begun) + 1] = op
  BY <1>1
<1> QED BY <1>2 DEF Begun

\* A result is corrected.
LEMMA EditPath ==
  ASSUME NEW reach, NEW ops, PathInv(reach, ops), OneInv,
         NEW d \in Desks, Desks = {d}, WriteEdit(d)
  PROVE  PathInv(reach, ops)'
<1>1. PICK h : h = Head(todo[d])
  OBVIOUS
<1>2. ~Idle(d) /\ h.do = "edit" /\ swing' = swing
  BY <1>1 DEF WriteEdit, Doing, Idle
<1>3. h \in EditTask /\ h \in Range(todo[d]) /\ TypeInv /\ Fits(todo[d])
  BY <1>1, <1>2, Working, FieldsOf
<1>4. PICK m \in Matches : m = h.m
  BY <1>3 DEF EditTask
<1>5. row[m] \in RowType /\ SameAs(row[m], h.was)
  BY <1>2, <1>3, <1>4 DEF TypeInv, Fits
<1>6. PICK new : new = [row[m] EXCEPT !.status = h.to, !.win = h.win, !.lose = h.lose]
  OBVIOUS
<1>7. /\ new.status = h.to /\ new.win = h.win /\ new.lose = h.lose
      /\ new.a = row[m].a /\ new.b = row[m].b /\ new.rated = row[m].rated
  BY <1>5, <1>6 DEF RowType
<1>8. PICK holds : holds = (row[m].status = h.was.status /\ SameOccupants(row[m], h.was))
  OBVIOUS
<1>9. CompareAndSwap(d, m, holds, new)
  BY <1>1, <1>4, <1>6, <1>8 DEF WriteEdit
<1> QED BY <1>1, <1>2, <1>4, <1>5, <1>7, <1>9, ResultSwap

\* Every request.
LEMMA RequestPath ==
  ASSUME NEW reach, NEW ops, Knockout(reach), PathInv(reach, ops), OneInv,
         NEW d \in Desks, Desks = {d}, Request(d)
  PROVE  PathInv(reach, ops)'
<1>1. ~Restore(d)
  <2> SUFFICES ASSUME Restore(d) PROVE FALSE
    OBVIOUS
  <2>1. ~Idle(d) /\ Head(todo[d]).do = "restore"
    BY DEF Restore, Doing, Idle
  <2> QED BY <2>1, Working DEF Planned
<1>2. ~WriteSeat(d)
  <2> SUFFICES ASSUME WriteSeat(d) PROVE FALSE
    OBVIOUS
  <2>1. ~Idle(d) /\ Head(todo[d]).do = "seat"
    BY DEF WriteSeat, Doing, Idle
  <2>2. Head(todo[d]) \in Range(todo[d])
    BY <2>1, Working
  <2> QED BY <2>1, <2>2 DEF PathInv, Along, OnPath
<1>3. CASE Write(d) \/ Look(d) \/ Rate(d) \/ Route(d) \/ Place(d) \/ Settle(d) \/ Ready(d)
  BY <1>3, WritePath, LookPath, RatePath, RoutePath, PlacePath, SettlePath, ReadyPath
<1>4. CASE List(d) \/ Forfeit(d) \/ Guard(d) \/ Mark(d) \/ Reverse(d) \/ Find(d) \/ Clear(d)
  BY <1>4, ListPath, ForfeitPath, GuardPath, MarkPath, ReversePath, FindPath, ClearPath
<1>5. CASE \/ WriteVoid(d) \/ WriteNoShow(d) \/ WriteUnvoid(d) \/ WriteUndo(d)
           \/ WriteEdit(d) \/ WriteLive(d)
  BY <1>5, VoidPath, NoShowPath, ResetPath, EditPath, LivePath
<1> QED BY <1>1, <1>2, <1>3, <1>4, <1>5 DEF Request

-----------------------------------------------------------------------------
(* Operations begin.                                                       *)

\* A result is entered, or a walkover.
LEMMA EnterPath ==
  ASSUME NEW reach, NEW ops, Knockout(reach), PathInv(reach, ops), OneInv,
         NEW d \in Desks, Desks = {d},
         NEW m \in Matches, NEW side \in Sides, Enter(d, m, side) \/ Walkover(d, m, side)
  PROVE  PathInv(reach, ops)'
<1>1. PICK op, to :
          to \in Decided /\ Begin(d, op, ResultTasks(m, row[m], side, to))
  BY DEF Enter, Walkover, Decided
<1>2. PICK was \in RowType : was = row[m] /\ was.status \in Open
  BY DEF Enter, Walkover, OneInv, TypeInv
<1>3. PICK tasks : tasks = ResultTasks(m, was, side, to)
  OBVIOUS
<1>4. tasks \in Seq(AnyTask)
  BY <1>1, <1>2, <1>3, ResultPlanned
<1>5. PICK Q : Q = Range(tasks)
  OBVIOUS
<1>6. \A k \in Range(tasks) : k.do \notin Erasing /\ OnPath(k, Q, reach, ops)
  <2>1. TypeInv /\ Within(reach) /\ Range(tasks) \subseteq Q
    BY <1>5 DEF OneInv, PathInv
  <2> QED BY <1>1, <1>2, <1>3, <2>1, ResultPath
<1> QED BY <1>1, <1>2, <1>3, <1>4, <1>5, <1>6, CalmBegin

\* One request that depends on nobody's path.
LEMMA PlainBegin ==
  ASSUME NEW reach, NEW ops, PathInv(reach, ops), OneInv,
         NEW d \in Desks, Desks = {d}, NEW op,
         NEW k \in AnyTask, k.do \in {"unvoid", "list", "call"}, NEW tasks, tasks = <<k>>,
         Begin(d, op, tasks)
  PROVE  PathInv(reach, ops)'
<1>1. tasks \in Seq(AnyTask) /\ Range(tasks) = {k}
  BY Short
<1>2. \A l \in Range(tasks) : OnPath(l, Range(tasks), reach, ops)
  BY <1>1, PlainPath
<1> QED BY <1>1, <1>2, CalmBegin

\* Every match that follows is looked at.
LEMMA AllGuarded ==
  ASSUME NEW m \in Matches, NEW slot \in FedBy(m)
  PROVE  \E l \in Range(GuardTasks(m)) : l.do = "guard" /\ l.m = slot[1]
<1>1. ASSUME NEW to \in Slots \cup {NoSlot}
      PROVE  /\ OnSlot(to, [do |-> "guard", m |-> to[1]]) \in Seq(AnyTask)
             /\ to # NoSlot => \E l \in Range(OnSlot(to, [do |-> "guard", m |-> to[1]])) :
                                   l.do = "guard" /\ l.m = to[1]
  <2>1. PICK s : s = OnSlot(to, [do |-> "guard", m |-> to[1]])
    OBVIOUS
  <2>2. CASE to = NoSlot
    BY <2>1, <2>2, EmptySeq DEF OnSlot
  <2>3. CASE to # NoSlot
    <3>1. PICK k : k = [do |-> "guard", m |-> to[1]]
      OBVIOUS
    <3>2. k \in GuardTask /\ k.do = "guard" /\ k.m = to[1]
      BY <2>3, <3>1, SlotOf DEF GuardTask
    <3>3. k \in AnyTask /\ s = <<k>>
      BY <2>1, <2>3, <3>1, <3>2 DEF OnSlot, AnyTask, OnMatch
    <3>4. s \in Seq(AnyTask) /\ Range(s) = {k}
      BY <3>3, Short
    <3> QED BY <2>1, <3>2, <3>4
  <2> QED BY <2>2, <2>3
<1>2. PICK winner \in Slots \cup {NoSlot}, loser \in Slots \cup {NoSlot} :
          winner = WinnerTo[m] /\ loser = LoserTo[m]
  BY BracketAssumption DEF BracketAssumption
<1>3. PICK s, t : /\ s = OnSlot(winner, [do |-> "guard", m |-> winner[1]])
                  /\ t = OnSlot(loser, [do |-> "guard", m |-> loser[1]])
  OBVIOUS
<1>4. /\ s \in Seq(AnyTask) /\ t \in Seq(AnyTask)
      /\ winner # NoSlot => \E l \in Range(s) : l.do = "guard" /\ l.m = winner[1]
      /\ loser # NoSlot => \E l \in Range(t) : l.do = "guard" /\ l.m = loser[1]
  BY <1>1, <1>3
<1>5. Range(s \o t) = Range(s) \cup Range(t)
  BY <1>4, ConcatRange
<1>6. GuardTasks(m) = s \o t
  BY <1>2, <1>3 DEF GuardTasks
<1>7. (slot = winner /\ winner # NoSlot) \/ (slot = loser /\ loser # NoSlot)
  BY <1>2 DEF FedBy
<1> QED BY <1>4, <1>5, <1>6, <1>7

\* A slot that a request writes or clears is passed if the match it belongs to is looked
\* at.
LEMMA GuardedPass ==
  ASSUME NEW m \in Matches, NEW Q, Range(GuardTasks(m)) \subseteq Q, NEW k, k.slot \in FedBy(m)
  PROVE  Passed(k, Q)
<1>1. PICK slot \in FedBy(m) : slot = k.slot
  OBVIOUS
<1>2. PICK l \in Range(GuardTasks(m)) : l.do = "guard" /\ l.m = slot[1]
  BY AllGuarded
<1> QED BY <1>1, <1>2 DEF Passed

\* The slots that are cleared are looked at before.
LEMMA ClearedPass ==
  ASSUME NEW m \in Matches, NEW was \in RowType, NEW Q, Range(GuardTasks(m)) \subseteq Q,
         NEW k \in Range(ClearTasks(m, was)), NEW reach, NEW ops
  PROVE  OnPath(k, Q, reach, ops)
<1>1. k \in AnyTask /\ k.do = "find" /\ k.slot \in {WinnerTo[m], LoserTo[m]}
  BY ClearPart, RangeOfSeq
<1>2. k.slot \in Slots
  BY <1>1, Placed
<1>3. k.slot \in FedBy(m)
  BY <1>1, <1>2, BracketAssumption DEF FedBy, Slots, NoSlot, BracketAssumption
<1>4. Passed(k, Q)
  BY <1>3, GuardedPass
<1> QED BY <1>1, <1>4 DEF OnPath

\* Between operations, who stands in a fed slot was sent there by the result of the
\* match that feeds it.
LEMMA SentHere ==
  ASSUME NEW reach, NEW ops, Knockout(reach), PathInv(reach, ops), NEW d \in Desks, Idle(d),
         "reaward" \notin ops, NEW m \in Matches, NEW slot \in FedBy(m), At(slot) # None
  PROVE  /\ IsDecided(m)
         /\ \/ slot = WinnerTo[m] /\ At(slot) = row[m].win /\ slot # LoserTo[m]
            \/ slot = LoserTo[m] /\ At(slot) = row[m].lose /\ slot # WinnerTo[m]
<1>1. PICK s : s = todo[d]
  OBVIOUS
<1>2. Followed(s, ops) /\ s = << >>
  BY <1>1 DEF PathInv, Along, Idle
<1>3. PICK e : e = At(slot)
  OBVIOUS
<1>4. Source(slot, e)
  BY <1>2, <1>3 DEF Followed
<1>5. IsDecided(m) /\ Carries(m, row[m].win, row[m].lose, slot, e)
  BY <1>4, OneSource
<1>6. slot = WinnerTo[m] /\ slot = LoserTo[m] => FALSE
  BY DEF Knockout, FedBy
<1> QED BY <1>3, <1>5, <1>6 DEF Carries

\* A match is voided, or its result undone.
LEMMA ErasePath ==
  ASSUME NEW reach, NEW ops, Knockout(reach), PathInv(reach, ops), OneInv,
         NEW d \in Desks, Desks = {d},
         NEW m \in Matches, Void(d, m) \/ Undo(d, m)
  PROVE  PathInv(reach, ops)'
<1>1. PICK was \in RowType : was = row[m]
  BY DEF OneInv, TypeInv
<1>2. PICK op, q :
          /\ q \in AnyTask /\ q.do \in {"void", "undo"} /\ q.m = m
          /\ Begin(d, op, GuardTasks(m) \o ReverseTasks(m, was) \o ClearTasks(m, was) \o <<q>>)
  <2>1. CASE Void(d, m)
    <3>1. PICK q : q = [do |-> "void", m |-> m, was |-> was]
      OBVIOUS
    <3>2. q \in VoidTask /\ q.do = "void" /\ q.m = m
      BY <3>1 DEF VoidTask
    <3>3. q \in AnyTask
      BY <3>2 DEF AnyTask, OnMatch
    <3>4. Begin(d, "void", GuardTasks(m) \o ReverseTasks(m, was) \o ClearTasks(m, was) \o <<q>>)
      BY <1>1, <2>1, <3>1 DEF Void
    <3> QED BY <3>2, <3>3, <3>4
  <2>2. CASE Undo(d, m)
    <3>1. PICK q : q = [do |-> "undo", m |-> m, to |-> Playable(was)]
      OBVIOUS
    <3>2. q \in ResetTask /\ q.do = "undo" /\ q.m = m
      BY <3>1 DEF ResetTask, Playable
    <3>3. q \in AnyTask
      BY <3>2 DEF AnyTask, OnMatch
    <3>4. Begin(d, "undo", GuardTasks(m) \o ReverseTasks(m, was) \o ClearTasks(m, was) \o <<q>>)
      BY <1>1, <2>2, <3>1 DEF Undo
    <3> QED BY <3>2, <3>3, <3>4
  <2> QED BY <2>1, <2>2
<1>3. PICK g, r, c, tq : /\ g = GuardTasks(m) /\ r = ReverseTasks(m, was)
                         /\ c = ClearTasks(m, was) /\ tq = <<q>>
  OBVIOUS
<1>4. /\ g \in Seq(AnyTask) /\ r \in Seq(AnyTask) /\ c \in Seq(AnyTask) /\ tq \in Seq(AnyTask)
      /\ \A l \in Range(g) : l.do = "guard"
      /\ \A l \in Range(r) : l.do = "reverse"
      /\ Range(tq) = {q}
  BY <1>2, <1>3, GuardPart, ReversePart, ClearPart, Short
<1>5. PICK s : s = g \o r \o c \o tq
  OBVIOUS
<1>6. s \in Seq(AnyTask) /\ Range(s) = Range(g) \cup Range(r) \cup Range(c) \cup {q}
  <2>1. PICK gr : gr = g \o r
    OBVIOUS
  <2>2. gr \in Seq(AnyTask) /\ Range(gr) = Range(g) \cup Range(r)
    BY <1>4, <2>1, ConcatRange
  <2>3. PICK grc : grc = gr \o c
    OBVIOUS
  <2>4. grc \in Seq(AnyTask) /\ Range(grc) = Range(gr) \cup Range(c)
    BY <1>4, <2>2, <2>3, ConcatRange
  <2>5. s \in Seq(AnyTask) /\ Range(s) = Range(grc) \cup Range(tq)
    BY <1>4, <1>5, <2>1, <2>3, <2>4, ConcatRange
  <2> QED BY <1>4, <2>2, <2>4, <2>5
<1>7. PICK Q : Q = Range(s)
  OBVIOUS
<1>8. "reaward" \notin ops => Emptying(q, Q)
  <2> SUFFICES ASSUME "reaward" \notin ops, NEW slot \in FedBy(m), At(slot) # None
               PROVE  \E l \in Q : l.do \in {"find", "clear"} /\ l.slot = slot /\ l.e = At(slot)
    BY <1>2 DEF Emptying
  <2>1. Idle(d) /\ slot # NoSlot
    BY <1>2 DEF Begin, FedBy
  <2>2. \/ slot = WinnerTo[m] /\ At(slot) = row[m].win
        \/ slot = LoserTo[m] /\ At(slot) = row[m].lose
    BY <2>1, SentHere
  <2>3. \E l \in Range(c) : l.do = "find" /\ l.slot = slot /\ l.e = At(slot)
    BY <1>1, <1>3, <2>1, <2>2, ClearPart
  <2> QED BY <1>6, <1>7, <2>3
<1>9. \A l \in Range(s) : OnPath(l, Q, reach, ops)
  <2> TAKE l \in Range(s)
  <2>1. CASE l \in Range(g) \cup Range(r)
    BY <1>4, <2>1, PlainPath
  <2>2. CASE l \in Range(c)
    BY <1>3, <1>6, <1>7, <2>2, ClearedPass
  <2>3. CASE l = q
    BY <1>2, <1>8, <2>3 DEF OnPath
  <2> QED BY <1>6, <2>1, <2>2, <2>3
<1> QED BY <1>2, <1>3, <1>5, <1>6, <1>7, <1>9, CalmBegin

\* Neither side of a match came.
LEMMA AbsentPath ==
  ASSUME NEW reach, NEW ops, PathInv(reach, ops), OneInv, NEW d \in Desks, Desks = {d},
         NEW m \in Matches, DoubleNoShow(d, m)
  PROVE  PathInv(reach, ops)'
<1>1. PICK was \in RowType : was = row[m]
  BY DEF OneInv, TypeInv
<1>2. was.a \in Entries /\ was.b \in Entries
  <2>1. was.a # None /\ was.b # None
    BY <1>1 DEF DoubleNoShow, Known
  <2> QED BY <2>1, RowOf DEF Occupant
<1>3. PICK q, p : /\ q = [do |-> "noshow", m |-> m, was |-> was]
                  /\ p = [do |-> "mark", who |-> {was.a, was.b}]
  OBVIOUS
<1>4. q \in AnyTask /\ q.do = "noshow" /\ p \in AnyTask /\ p.do = "mark"
  <2>1. q \in VoidTask /\ p \in MarkTask
    BY <1>2, <1>3 DEF VoidTask, MarkTask
  <2> QED BY <1>3, <2>1 DEF AnyTask, OnMatch
<1>5. PICK g, r, c, tq, tp :
          /\ g = GuardTasks(m) /\ r = ReverseTasks(m, was) /\ tq = <<q>>
          /\ c = ClearTasks(m, was) /\ tp = <<p>>
  OBVIOUS
<1>6. /\ g \in Seq(AnyTask) /\ r \in Seq(AnyTask) /\ tq \in Seq(AnyTask)
      /\ c \in Seq(AnyTask) /\ tp \in Seq(AnyTask)
      /\ \A l \in Range(g) : l.do = "guard"
      /\ \A l \in Range(r) : l.do = "reverse"
      /\ Range(tq) = {q} /\ Range(tp) = {p}
  <2>1. g \in Seq(AnyTask) /\ \A l \in Range(g) : l.do = "guard"
    BY <1>5, GuardPart
  <2>2. r \in Seq(AnyTask) /\ \A l \in Range(r) : l.do = "reverse"
    BY <1>5, ReversePart
  <2>3. c \in Seq(AnyTask)
    BY <1>5, ClearPart
  <2>4. tq \in Seq(AnyTask) /\ Range(tq) = {q} /\ tp \in Seq(AnyTask) /\ Range(tp) = {p}
    BY <1>4, <1>5, Short
  <2> QED BY <2>1, <2>2, <2>3, <2>4
<1>7. PICK s : s = g \o r \o tq \o c \o tp
  OBVIOUS
<1>8. s \in Seq(AnyTask) /\ Range(s) = Range(g) \cup Range(r) \cup {q} \cup Range(c) \cup {p}
  <2>1. PICK gr : gr = g \o r
    OBVIOUS
  <2>2. gr \in Seq(AnyTask) /\ Range(gr) = Range(g) \cup Range(r)
    BY <1>6, <2>1, ConcatRange
  <2>3. PICK grq : grq = gr \o tq
    OBVIOUS
  <2>4. grq \in Seq(AnyTask) /\ Range(grq) = Range(gr) \cup Range(tq)
    BY <1>6, <2>2, <2>3, ConcatRange
  <2>5. PICK grqc : grqc = grq \o c
    OBVIOUS
  <2>6. grqc \in Seq(AnyTask) /\ Range(grqc) = Range(grq) \cup Range(c)
    BY <1>6, <2>4, <2>5, ConcatRange
  <2>7. s \in Seq(AnyTask) /\ Range(s) = Range(grqc) \cup Range(tp)
    BY <1>6, <1>7, <2>1, <2>3, <2>5, <2>6, ConcatRange
  <2> QED BY <1>6, <2>2, <2>4, <2>6, <2>7
<1>9. PICK Q : Q = Range(s)
  OBVIOUS
<1>10. \A l \in Range(s) : OnPath(l, Q, reach, ops)
  <2> TAKE l \in Range(s)
  <2>1. CASE l \in Range(g) \cup Range(r) \cup {q, p}
    <3>1. l.do \in {"guard", "reverse", "noshow", "mark"}
      BY <1>4, <1>6, <2>1
    <3> QED BY <3>1, PlainPath
  <2>2. CASE l \in Range(c)
    BY <1>5, <1>8, <1>9, <2>2, ClearedPass
  <2> QED BY <1>8, <2>1, <2>2
<1>11. Begin(d, "noshow", s)
  BY <1>1, <1>3, <1>5, <1>7 DEF DoubleNoShow
<1> QED BY <1>8, <1>9, <1>10, <1>11, CalmBegin

\* A voided match is restored.
LEMMA RestoredPath ==
  ASSUME NEW reach, NEW ops, PathInv(reach, ops), OneInv, NEW d \in Desks, Desks = {d},
         NEW m \in Matches, Unvoid(d, m)
  PROVE  PathInv(reach, ops)'
<1>1. PICK was \in RowType : was = row[m]
  BY DEF OneInv, TypeInv
<1>2. was.rated = NoPair
  BY <1>1 DEF Unvoid, OneInv, Tidy, RatedIsResult, IsDecided, Decided
<1>3. PICK q : q = [do |-> "unvoid", m |-> m, to |-> Playable(was)]
  OBVIOUS
<1>4. q \in AnyTask /\ q.do = "unvoid"
  <2>1. q \in ResetTask
    BY <1>3 DEF ResetTask, Playable
  <2> QED BY <1>3, <2>1 DEF AnyTask, OnMatch
<1>5. PICK s : s = <<q>>
  OBVIOUS
<1>6. Begin(d, "unvoid", s)
  <2>1. ReverseTasks(m, was) = << >>
    BY <1>2, ReversePart
  <2>2. << >> \o s = s
    BY <1>4, <1>5, Short, ConcatEmptySeq
  <2> QED BY <1>1, <1>3, <1>5, <2>1, <2>2 DEF Unvoid
<1> QED BY <1>4, <1>5, <1>6, PlainBegin

\* A slot that a correction writes gets one of the two entries of the match, who can be
\* there, and is looked at before.
LEMMA PlacedAnew ==
  ASSUME NEW reach, NEW ops, Knockout(reach), NEW m \in Matches, NEW e,
         e \in reach[m]["a"] \cup reach[m]["b"] \cup {None},
         NEW Q, Range(GuardTasks(m)) \subseteq Q,
         NEW q \in Q, q.do = "edit", NEW k, k.do = "place", k.e = e,
         k.slot \in FedBy(m), Makes(q, k.slot, k.e)
  PROVE  OnPath(k, Q, reach, ops)
<1>1. Passed(k, Q)
  BY GuardedPass
<1>2. k.e \in reach[k.slot[1]][k.slot[2]] \cup {None}
  BY DEF Knockout
<1>3. Sent(k, Q)
  BY DEF Sent
<1> QED BY <1>1, <1>2, <1>3 DEF OnPath

\* A result is corrected.
LEMMA CorrectPath ==
  ASSUME NEW reach, NEW ops, Knockout(reach), PathInv(reach, ops), OneInv,
         NEW d \in Desks, Desks = {d},
         NEW m \in Matches, NEW side \in Sides, NEW played \in BOOLEAN, Edit(d, m, side, played),
         Begun("reaward")' => "reaward" \in ops
  PROVE  PathInv(reach, ops)'
<1>1. PICK was \in RowType : was = row[m]
  BY DEF OneInv, TypeInv
<1>2. PICK win \in Occupant, lose \in Occupant, to \in Decided :
          /\ win = was[side] /\ lose = was[Other(side)]
          /\ to = IF played THEN "completed" ELSE was.status
  BY <1>1, RowOf DEF Edit, Decided
<1>3. PICK q, p : /\ q = [do |-> "edit", m |-> m, was |-> was, win |-> win, lose |-> lose, to |-> to]
                  /\ p = [do |-> "look", m |-> m, prior |-> << >>]
  OBVIOUS
<1>4. /\ q \in AnyTask /\ q.do = "edit" /\ q.m = m /\ q.was = was /\ q.win = win /\ q.lose = lose
      /\ p \in AnyTask /\ p.do = "look"
  <2>1. q \in EditTask /\ p \in AnyLook
    BY <1>2, <1>3 DEF EditTask, AnyLook, AnyPrior, Occupant
  <2> QED BY <1>3, <2>1 DEF AnyTask, OnMatch
<1>5. PICK wslot \in Slots \cup {NoSlot}, lslot \in Slots \cup {NoSlot} :
          wslot = WinnerTo[m] /\ lslot = LoserTo[m]
  BY BracketAssumption DEF BracketAssumption
<1>6. PICK g, r, tq, w, z, tp :
          /\ g = GuardTasks(m) /\ r = ReverseTasks(m, was) /\ tq = <<q>>
          /\ w = PlaceTasks(wslot, win) /\ z = PlaceTasks(lslot, lose) /\ tp = <<p>>
  OBVIOUS
<1>7. /\ g \in Seq(AnyTask) /\ \A l \in Range(g) : l.do = "guard"
      /\ r \in Seq(AnyTask) /\ \A l \in Range(r) : l.do = "reverse"
  BY <1>6, GuardPart, ReversePart
<1>8. /\ w \in Seq(AnyTask)
      /\ \A l \in Range(w) : l.do = "place" /\ l.slot = wslot /\ l.e = win
      /\ wslot # NoSlot /\ win # None =>
             \E l \in Range(w) : l.do = "place" /\ l.slot = wslot /\ l.e = win
  BY <1>6, PlacePart
<1>9. /\ z \in Seq(AnyTask)
      /\ \A l \in Range(z) : l.do = "place" /\ l.slot = lslot /\ l.e = lose
      /\ lslot # NoSlot /\ lose # None =>
             \E l \in Range(z) : l.do = "place" /\ l.slot = lslot /\ l.e = lose
  BY <1>6, PlacePart
<1>10. tq \in Seq(AnyTask) /\ Range(tq) = {q} /\ tp \in Seq(AnyTask) /\ Range(tp) = {p}
  BY <1>4, <1>6, Short
<1>11. PICK s : s = g \o r \o tq \o w \o z \o tp
  OBVIOUS
<1>12. /\ s \in Seq(AnyTask)
       /\ Range(s) = Range(g) \cup Range(r) \cup {q} \cup Range(w) \cup Range(z) \cup {p}
  <2>1. PICK gr : gr = g \o r
    OBVIOUS
  <2>2. gr \in Seq(AnyTask) /\ Range(gr) = Range(g) \cup Range(r)
    BY <1>7, <2>1, ConcatRange
  <2>3. PICK grq : grq = gr \o tq
    OBVIOUS
  <2>4. grq \in Seq(AnyTask) /\ Range(grq) = Range(gr) \cup {q}
    BY <1>10, <2>2, <2>3, ConcatRange
  <2>5. PICK grqw : grqw = grq \o w
    OBVIOUS
  <2>6. grqw \in Seq(AnyTask) /\ Range(grqw) = Range(grq) \cup Range(w)
    BY <1>8, <2>4, <2>5, ConcatRange
  <2>7. PICK grqwz : grqwz = grqw \o z
    OBVIOUS
  <2>8. grqwz \in Seq(AnyTask) /\ Range(grqwz) = Range(grqw) \cup Range(z)
    BY <1>9, <2>6, <2>7, ConcatRange
  <2>9. s = grqwz \o tp
    BY <1>11, <2>1, <2>3, <2>5, <2>7
  <2>10. s \in Seq(AnyTask) /\ Range(s) = Range(grqwz) \cup {p}
    BY <1>10, <2>8, <2>9, ConcatRange
  <2> QED BY <2>2, <2>4, <2>6, <2>8, <2>10
<1>13. Begin(d, Correction(was, side), s)
  BY <1>1, <1>2, <1>3, <1>5, <1>6, <1>11 DEF Edit
<1>14. PICK Q : Q = Range(s)
  OBVIOUS
<1>15. win = lose => win = None
  BY <1>1, <1>2, TwoEntries DEF PathInv
<1>16. "reaward" \notin ops => Rewriting(q, Q)
  <2> SUFFICES ASSUME "reaward" \notin ops, NEW slot \in FedBy(m), At(slot) # None
               PROVE  \E l \in Q : l.do = "place" /\ l.slot = slot /\ l.e # None
    BY <1>4 DEF Rewriting
  <2>1. Idle(d) /\ slot # NoSlot
    BY <1>13 DEF Begin, FedBy
  <2>2. /\ IsDecided(m)
        /\ \/ slot = wslot /\ was.win # None
           \/ slot = lslot /\ was.lose # None
    BY <1>1, <1>5, <2>1, SentHere
  <2>3. (win # None /\ lose # None) \/ was.win = win
    <3>1. Correction(was, side) = "edit"
      <4>1. ~Begun(Correction(was, side))' => FALSE
        BY <1>13, NowBegun
      <4> QED BY <4>1 DEF Correction
    <3> QED BY <1>2, <3>1 DEF Correction, Known, Sides, Other
  <2>4. PICK s1 \in Sides : was.win = was[s1] /\ was.lose = was[Other(s1)]
    BY <1>1, <2>2 DEF PathInv, PairsPlayed
  <2>5. CASE slot = wslot /\ was.win # None
    <3>1. win # None
      BY <2>3, <2>5
    <3> QED BY <1>8, <1>12, <1>14, <2>1, <2>5, <3>1
  <2>6. CASE slot = lslot /\ was.lose # None
    <3>1. lose # None
      BY <1>2, <2>3, <2>4, <2>6 DEF Sides, Other
    <3> QED BY <1>9, <1>12, <1>14, <2>1, <2>6, <3>1
  <2> QED BY <2>2, <2>5, <2>6
<1>17. q \in Q /\ Range(GuardTasks(m)) \subseteq Q
  BY <1>6, <1>12, <1>14
<1>18. win \in reach[m][side] \cup {None} /\ lose \in reach[m][Other(side)] \cup {None}
  BY <1>1, <1>2 DEF PathInv, Within, Sides, Other
<1>19. ASSUME NEW l \in Range(w) \cup Range(z) PROVE OnPath(l, Q, reach, ops)
  <2>1. /\ l \in AnyTask /\ l.do = "place"
        /\ \/ l.slot = wslot /\ l.e = win
           \/ l.slot = lslot /\ l.e = lose
    BY <1>8, <1>9, RangeOfSeq
  <2>2. l.slot \in Slots
    BY <2>1, Placed
  <2>3. l.slot \in FedBy(m)
    BY <1>5, <2>1, <2>2, BracketAssumption DEF FedBy, Slots, NoSlot, BracketAssumption
  <2>4. PICK e : e = l.e
    OBVIOUS
  <2>5. e \in reach[m]["a"] \cup reach[m]["b"] \cup {None}
    BY <1>18, <2>1, <2>4 DEF Sides, Other
  <2>6. Makes(q, l.slot, l.e)
    BY <1>4, <1>5, <2>1 DEF Makes, Carries
  <2> QED BY <1>4, <1>17, <2>1, <2>3, <2>4, <2>5, <2>6, PlacedAnew
<1>20. \A l \in Range(s) : OnPath(l, Q, reach, ops)
  <2> TAKE l \in Range(s)
  <2>1. CASE l \in Range(g) \cup Range(r) \cup {p}
    <3>1. l.do \in {"guard", "reverse", "look"}
      BY <1>4, <1>7, <2>1
    <3> QED BY <3>1, PlainPath
  <2>2. CASE l \in Range(w) \cup Range(z)
    BY <1>19, <2>2
  <2>3. CASE l = q
    BY <1>2, <1>4, <1>15, <1>16, <2>3 DEF OnPath, PairOf
  <2> QED BY <1>12, <2>1, <2>2, <2>3
<1> QED BY <1>12, <1>13, <1>14, <1>20, CalmBegin

\* Every operation.
LEMMA BeginPath ==
  ASSUME NEW reach, NEW ops, Knockout(reach), PathInv(reach, ops), OneInv,
         NEW d \in Desks, Desks = {d},
         "seat" \notin Ops, BeginStep(d),
         Begun("reaward")' => "reaward" \in ops
  PROVE  PathInv(reach, ops)'
<1>1. ASSUME NEW m \in Matches, SetLive(d, m)
      PROVE  PathInv(reach, ops)'
  <2>1. PICK k : k = [do |-> "call", m |-> m, from |-> row[m].status]
    OBVIOUS
  <2>2. row[m].status \in {"pending", "ready", "live"}
    BY <1>1 DEF SetLive
  <2>3. k \in AnyTask /\ k.do = "call"
    <3>1. k \in CallTask /\ k.do = "call"
      BY <2>1, <2>2 DEF CallTask, Open
    <3> QED BY <3>1 DEF AnyTask, OnMatch
  <2>4. PICK tasks : tasks = <<k>>
    OBVIOUS
  <2>5. Begin(d, "live", tasks)
    BY <1>1, <2>1, <2>4 DEF SetLive
  <2> QED BY <2>3, <2>4, <2>5, PlainBegin
<1>2. ASSUME NEW e \in Entries, ExitDraw(d, e)
      PROVE  PathInv(reach, ops)'
  <2>1. PICK k : k = [do |-> "list", e |-> e]
    OBVIOUS
  <2>2. k \in AnyTask /\ k.do = "list"
    <3>1. k \in ListTask /\ k.do = "list"
      BY <2>1 DEF ListTask
    <3> QED BY <3>1 DEF AnyTask
  <2>3. PICK tasks : tasks = <<k>>
    OBVIOUS
  <2>4. Begin(d, "exit", tasks)
    BY <1>2, <2>1, <2>3 DEF ExitDraw
  <2> QED BY <2>2, <2>3, <2>4, PlainBegin
<1>3. \A m \in Matches, side \in Sides, e \in Entries \cup {None} : ~SetEntry(d, m, side, e)
  BY DEF SetEntry, Begin
<1>4. ASSUME NEW m \in Matches, NEW side \in Sides,
             \/ Enter(d, m, side) \/ Walkover(d, m, side)
             \/ \E played \in BOOLEAN : Edit(d, m, side, played)
      PROVE  PathInv(reach, ops)'
  BY <1>4, EnterPath, CorrectPath
<1>5. ASSUME NEW m \in Matches, Void(d, m) \/ DoubleNoShow(d, m) \/ Unvoid(d, m) \/ Undo(d, m)
      PROVE  PathInv(reach, ops)'
  BY <1>5, ErasePath, AbsentPath, RestoredPath
<1>6. CASE \E m \in Matches, side \in Sides :
              \/ Enter(d, m, side) \/ Walkover(d, m, side)
              \/ \E played \in BOOLEAN : Edit(d, m, side, played)
              \/ \E e \in Entries \cup {None} : SetEntry(d, m, side, e)
  <2>1. PICK m \in Matches, side \in Sides :
            \/ Enter(d, m, side) \/ Walkover(d, m, side)
            \/ \E played \in BOOLEAN : Edit(d, m, side, played)
            \/ \E e \in Entries \cup {None} : SetEntry(d, m, side, e)
    BY <1>6
  <2>2. ~\E e \in Entries \cup {None} : SetEntry(d, m, side, e)
    BY <1>3
  <2> QED BY <1>4, <2>1, <2>2
<1>7. CASE \E m \in Matches :
              Void(d, m) \/ DoubleNoShow(d, m) \/ Unvoid(d, m) \/ Undo(d, m) \/ SetLive(d, m)
  BY <1>1, <1>5, <1>7
<1>8. CASE \E e \in Entries : ExitDraw(d, e)
  BY <1>2, <1>8
<1> QED BY <1>6, <1>7, <1>8, Zenon DEF BeginStep
-----------------------------------------------------------------------------
(* One desk at work in a knockout where no request fails.                  *)

\* The draw has sent nobody anywhere yet.
LEMMA DrawPath ==
  ASSUME NEW reach, NEW ops, Knockout(reach), Init
  PROVE  PathInv(reach, ops)
<1>1. \A m \in Matches : /\ row[m].status \in {"ready", "pending"} /\ row[m].rated = NoPair
                         /\ row[m].a = Seats[m]["a"] /\ row[m].b = Seats[m]["b"]
  BY DEF Init, Seated
<1>2. Within(reach)
  BY <1>1 DEF Knockout, Within, Sides
<1>3. PairsPlayed
  BY <1>1 DEF PairsPlayed, IsDecided, Decided
<1>4. SwingAddsUp
  <2> SUFFICES ASSUME NEW e \in Entries
               PROVE  swing[e] = Cardinality({m \in Matches : row[m].rated[1] = e})
                                   - Cardinality({m \in Matches : row[m].rated[2] = e})
    BY DEF SwingAddsUp
  <2>1. e # None
    BY BracketAssumption DEF BracketAssumption
  <2>2. {m \in Matches : row[m].rated[1] = e} = {} /\ {m \in Matches : row[m].rated[2] = e} = {}
    BY <1>1, <2>1 DEF NoPair
  <2>3. swing[e] = 0
    BY DEF Init
  <2>4. Cardinality({}) = 0
    BY FS_EmptySet
  <2>5. swing[e] = Cardinality({}) - Cardinality({})
    BY <2>3, <2>4
  <2> QED BY <2>2, <2>5
<1>5. PICK s : s = << >>
  OBVIOUS
<1>6. Followed(s, ops)
  <2> SUFFICES ASSUME NEW m \in Matches, NEW slot \in FedBy(m) PROVE At(slot) = None
    BY DEF Followed
  <2>1. slot[1] \in Matches /\ slot[2] \in {"a", "b"}
    BY FedSlots DEF Sides
  <2>2. At(slot) = Seats[slot[1]][slot[2]]
    BY <1>1, <2>1 DEF At
  <2> QED BY <2>2 DEF Knockout
<1>7. Along(s, reach, ops)
  BY <1>5, <1>6, EmptySeq DEF Along, Range
<1>8. \A d \in Desks : Along(todo[d], reach, ops)
  BY <1>5, <1>7 DEF Init
<1> QED BY <1>2, <1>3, <1>4, <1>8 DEF PathInv

\* Every step keeps the entries on their paths.
LEMMA PathKept ==
  ASSUME NEW reach, NEW ops, Knockout(reach), PathInv(reach, ops), OneInv,
         NEW d \in Desks, Desks = {d},
         MaxFaults = 0, "seat" \notin Ops, [Next]_resultVars,
         Begun("reaward")' => "reaward" \in ops
  PROVE  PathInv(reach, ops)'
<1>1. CASE BeginStep(d)
  BY <1>1, BeginPath
<1>2. CASE Request(d)
  BY <1>2, RequestPath
<1>3. CASE Fault(d)
  BY <1>3 DEF Fault, OneInv
<1>4. CASE UNCHANGED resultVars
  <2>1. row' = row /\ swing' = swing /\ todo' = todo
    BY <1>4 DEF resultVars
  <2>2. Calm /\ SwingAddsUp' /\ Within(reach)' /\ PairsPlayed'
    BY <2>1, SameCalm, CalmRows DEF PathInv
  <2>3. PICK s : s = todo[d]
    OBVIOUS
  <2>4. PICK R : R = Range(s)
    OBVIOUS
  <2>5. R \subseteq AnyTask /\ TypeInv /\ todo' = [todo EXCEPT ![d] = s]
    BY <2>1, <2>3, <2>4, RangeOfSeq DEF OneInv, TypeInv
  <2>6. Followed(s, ops) /\ \A k \in R : OnPath(k, R, reach, ops)
    BY <2>3, <2>4 DEF PathInv, Along
  <2>7. \A k \in R : OnPath(k, R, reach, ops)'
    BY <2>2, <2>5, <2>6, CalmOnward
  <2>8. Followed(s, ops)'
    <3> SUFFICES ASSUME NEW m \in Matches, NEW slot \in FedBy(m), NEW e, e = At(slot)', e # None,
                        ~Source(slot, e)', "reaward" \notin ops
                 PROVE  /\ s # << >> /\ Head(s).do = "place"
                        /\ \E l \in Range(s) : l.do = "place" /\ l.slot = slot /\ l.e # None
      BY DEF Followed, FedBy
    <3>1. e = At(slot) /\ ~Source(slot, e)
      BY <2>2, CalmFacts, FedSlots
    <3> QED BY <2>6, <3>1 DEF Followed
  <2> QED BY <2>2, <2>4, <2>5, <2>7, <2>8, PathStep
<1> QED BY <1>1, <1>2, <1>3, <1>4 DEF Next
-----------------------------------------------------------------------------
(* The matches that may be called to a court, as long as no correction     *)
(* gives a match to its empty side.                                        *)

CallsKnown == \A m \in Matches : row[m].status \in {"ready", "live"} => Known(row[m])

\* They have both their entries when one row changes, if that row has.
LEMMA CallsRow ==
  ASSUME TypeInv, CallsKnown, NEW m \in Matches, NEW new, row' = [row EXCEPT ![m] = new],
         new.status \in {"ready", "live"} => Known(new)
  PROVE  CallsKnown'
<1>1. row'[m] = new /\ \A n \in Matches : n # m => row'[n] = row[n]
  BY DEF TypeInv
<1> QED BY <1>1 DEF CallsKnown

\* So they have when the occupants stay and the status is not raised.
LEMMA CallsSame ==
  ASSUME TypeInv, CallsKnown, NEW m \in Matches, NEW new, row' = [row EXCEPT ![m] = new],
         new.a = row[m].a, new.b = row[m].b,
         new.status \in {"ready", "live"} => row[m].status \in {"ready", "live"} \/ Known(row[m])
  PROVE  CallsKnown'
<1>1. new.status \in {"ready", "live"} => Known(new)
  BY DEF CallsKnown, Known
<1> QED BY <1>1, CallsRow

\* A result or a rating raises nothing, nor does the voiding of a match.
LEMMA ResultCalls ==
  ASSUME OneInv, CallsKnown, NEW d \in Desks,
         \/ Write(d) \/ WriteEdit(d) \/ WriteVoid(d) \/ WriteNoShow(d) \/ Rate(d) \/ Reverse(d)
  PROVE  CallsKnown'
<1> DEFINE k == Head(todo[d])
           r == row[k.m]
<1>1. ~Idle(d) /\ k.do \in {"write", "edit", "void", "noshow", "rate", "reverse"} /\ TypeInv
  BY DEF Write, WriteEdit, WriteVoid, WriteNoShow, Rate, Reverse, Doing, Idle, OneInv
<1>2. k \in AnyTask
  BY <1>1, Working
<1>3. /\ k.m \in Matches /\ r \in RowType
      /\ k.do \in {"write", "edit"} => k.to \in Decided
      /\ k.do = "rate" => k.for \in Entries \X Entries
  BY <1>1, <1>2, FieldsOf
     DEF AnyWrite, EditTask, VoidTask, AnyRate, GuardTask, TypeInv
<1>4. CASE row' = row
  BY <1>4 DEF CallsKnown
<1>5. CASE /\ k.do \in {"write", "edit"}
           /\ row' = [row EXCEPT ![k.m] = [r EXCEPT !.status = k.to, !.win = k.win, !.lose = k.lose]]
  <2>1. PICK new : new = [r EXCEPT !.status = k.to, !.win = k.win, !.lose = k.lose]
    OBVIOUS
  <2>2. new.status \in Decided
    BY <1>3, <1>5, <2>1 DEF RowType
  <2>3. new.status \notin {"ready", "live"}
    BY <2>2 DEF Decided
  <2>4. row' = [row EXCEPT ![k.m] = new]
    BY <1>5, <2>1
  <2> HIDE DEF k
  <2> QED BY <1>1, <1>3, <2>3, <2>4, CallsRow
<1>6. CASE \/ row' = [row EXCEPT ![k.m] = [r EXCEPT !.status = "voided"]]
           \/ row' = [row EXCEPT ![k.m] = [r EXCEPT !.status = "voided", !.win = None, !.lose = None]]
  <2>1. PICK new :
            /\ \/ new = [r EXCEPT !.status = "voided"]
               \/ new = [r EXCEPT !.status = "voided", !.win = None, !.lose = None]
            /\ row' = [row EXCEPT ![k.m] = new]
    BY <1>6
  <2>2. new.status = "voided"
    BY <1>3, <2>1 DEF RowType
  <2> HIDE DEF k
  <2> QED BY <1>1, <1>3, <2>1, <2>2, CallsRow
<1>7. CASE \E for \in (Entries \X Entries) \cup {NoPair} :
               row' = [row EXCEPT ![k.m] = [r EXCEPT !.rated = for]]
  <2>1. PICK for \in (Entries \X Entries) \cup {NoPair} :
            row' = [row EXCEPT ![k.m] = [r EXCEPT !.rated = for]]
    BY <1>7
  <2>2. PICK new : new = [r EXCEPT !.rated = for]
    OBVIOUS
  <2>3. new.status = r.status /\ new.a = r.a /\ new.b = r.b
    BY <1>3, <2>2, RatedAs
  <2>4. row' = [row EXCEPT ![k.m] = new]
    BY <2>1, <2>2
  <2> HIDE DEF k
  <2> QED BY <1>1, <1>3, <2>3, <2>4, CallsSame
<1>8. CASE Write(d) \/ WriteEdit(d)
  BY <1>4, <1>5, <1>8 DEF Write, WriteEdit, Doing, CompareAndSwap
<1>9. CASE WriteVoid(d) \/ WriteNoShow(d)
  BY <1>4, <1>6, <1>9 DEF WriteVoid, WriteNoShow, CompareAndSwap
<1>10. CASE Rate(d)
  <2>1. CASE ApplyRating(k.m, k.for)
    <3>1. row' = [row EXCEPT ![k.m] = [r EXCEPT !.rated = k.for]]
      BY <1>1, <1>3, <2>1 DEF ApplyRating, TypeInv
    <3> QED BY <1>3, <1>7, <1>10, <3>1 DEF Rate, Doing
  <2> QED BY <1>4, <1>10, <2>1 DEF Rate
<1>11. CASE Reverse(d)
  <2>1. row' = [row EXCEPT ![k.m] = [r EXCEPT !.rated = NoPair]]
    BY <1>1, <1>3, <1>11 DEF Reverse, TypeInv
  <2> QED BY <1>7, <2>1
<1> QED BY <1>8, <1>9, <1>10, <1>11

\* A match is ready, live, restored or reset to be played only if both are known.
LEMMA StatusCalls ==
  ASSUME OneInv, CallsKnown, NEW d \in Desks,
         Ready(d) \/ WriteLive(d) \/ WriteUnvoid(d) \/ WriteUndo(d)
  PROVE  CallsKnown'
<1> DEFINE k == Head(todo[d])
           r == row[k.m]
<1>1. ~Idle(d) /\ k.do \in {"ready", "call", "unvoid", "undo"} /\ TypeInv
  BY DEF Ready, WriteLive, WriteUnvoid, WriteUndo, Doing, Idle, OneInv
<1>2. k \in AnyTask /\ k \in Range(todo[d]) /\ Fits(todo[d])
  BY <1>1, Working
<1>3. /\ k.m \in Matches /\ r \in RowType
      /\ k.do \in {"unvoid", "undo"} => k.to \in {"pending", "ready"}
  BY <1>1, <1>2, FieldsOf DEF SettleTask, CallTask, ResetTask, TypeInv
<1>4. /\ k.do = "ready" \/ (k.do = "call" /\ k.from # "live") => Known(r)
      /\ k.do \in {"unvoid", "undo"} => k.to = Playable(r)
  BY <1>2 DEF Fits
<1>5. CASE row' = row
  BY <1>5 DEF CallsKnown
<1>6. CASE Ready(d)
  <2>1. CASE row' = [row EXCEPT ![k.m].status = "ready"]
    <3>1. PICK new : new = [r EXCEPT !.status = "ready"]
      OBVIOUS
    <3>2. new.a = r.a /\ new.b = r.b
      BY <1>3, <3>1, StatusRow, Statuses
    <3>3. row' = [row EXCEPT ![k.m] = new] /\ Known(r)
      BY <1>1, <1>3, <1>4, <1>6, <2>1, <3>1 DEF TypeInv, Ready, Doing
    <3> HIDE DEF k
    <3> QED BY <1>1, <1>3, <3>2, <3>3, CallsSame
  <2> QED BY <1>1, <1>3, <1>5, <1>6, <2>1 DEF Ready, TypeInv
<1>7. CASE WriteLive(d)
  <2>1. PICK to \in Status : to = IF k.from = "live" THEN "ready" ELSE "live"
    BY Statuses
  <2>2. PICK new : new = [r EXCEPT !.status = to]
    OBVIOUS
  <2>3. new.a = r.a /\ new.b = r.b
    BY <1>3, <2>2, StatusRow
  <2>4. row' = row \/ (row' = [row EXCEPT ![k.m] = new] /\ r.status = k.from)
    BY <1>7, <2>1, <2>2 DEF WriteLive, CompareAndSwap
  <2>5. CASE row' = [row EXCEPT ![k.m] = new] /\ r.status = k.from
    <3>1. r.status = "live" \/ Known(r)
      BY <1>4, <1>7, <2>5 DEF WriteLive, Doing
    <3> HIDE DEF k
    <3> QED BY <1>1, <1>3, <2>3, <2>5, <3>1, CallsSame
  <2> QED BY <1>5, <2>4, <2>5
<1>8. CASE WriteUnvoid(d) \/ WriteUndo(d)
  <2>1. PICK new : new = [r EXCEPT !.status = k.to, !.win = None, !.lose = None]
    OBVIOUS
  <2>2. k.do \in {"unvoid", "undo"} /\ (row' = row \/ row' = [row EXCEPT ![k.m] = new])
    BY <1>8, <2>1 DEF WriteUnvoid, WriteUndo, Doing, CompareAndSwap
  <2>3. new.a = r.a /\ new.b = r.b /\ new.status = k.to
    BY <1>3, <2>1 DEF RowType
  <2>4. new.status \in {"ready", "live"} => Known(r)
    BY <1>4, <2>2, <2>3 DEF Playable
  <2>5. CASE row' = [row EXCEPT ![k.m] = new]
    <3> HIDE DEF k
    <3> QED BY <1>1, <1>3, <2>3, <2>4, <2>5, CallsSame
  <2> QED BY <1>5, <2>2, <2>5
<1> QED BY <1>6, <1>7, <1>8

\* A slot that is emptied takes its match off the court.
LEMMA ClearCalls ==
  ASSUME OneInv, CallsKnown, NEW d \in Desks, Clear(d)
  PROVE  CallsKnown'
<1>1. PICK h : h = Head(todo[d])
  OBVIOUS
<1>2. ~Idle(d) /\ h.do = "clear" /\ TypeInv
  BY <1>1 DEF Clear, Doing, Idle, OneInv
<1>3. h \in ClearTask /\ h.to = Emptied(row[h.slot[1]])
  BY <1>1, <1>2, Working, FieldsOf DEF Fits
<1>4. PICK m \in Matches, side \in Sides : m = h.slot[1] /\ side = h.slot[2]
  BY <1>3 DEF ClearTask, Slots
<1>5. row[m] \in RowType /\ h.to \in Status /\ h.to \notin {"ready", "live"}
  BY <1>2, <1>3, <1>4 DEF TypeInv, ClearTask, Emptied
<1>6. PICK mid : mid = [row[m] EXCEPT ![side] = None]
  OBVIOUS
<1>7. mid \in RowType
  BY <1>5, <1>6, SideRow DEF Occupant
<1>8. PICK new : new = [mid EXCEPT !.status = h.to]
  OBVIOUS
<1>9. new.status \notin {"ready", "live"}
  BY <1>5, <1>7, <1>8, StatusRow
<1>10. row' = row \/ row' = [row EXCEPT ![m] = new]
  BY <1>1, <1>2, <1>4, <1>6, <1>8 DEF Clear, TypeInv
<1>11. CASE row' = row
  BY <1>11 DEF CallsKnown
<1>12. CASE row' = [row EXCEPT ![m] = new]
  BY <1>2, <1>9, <1>12, CallsRow
<1> QED BY <1>10, <1>11, <1>12

\* Nobody is written only into a slot that is empty: the result that sends nobody there
\* is the only one that feeds it.
LEMMA PlaceCalls ==
  ASSUME NEW reach, NEW ops, Knockout(reach), PathInv(reach, ops), OneInv, CallsKnown,
         NEW d \in Desks,
         "reaward" \notin ops, Place(d)
  PROVE  CallsKnown'
<1>1. PICK s : s = todo[d]
  OBVIOUS
<1>2. PICK h : h = Head(s)
  OBVIOUS
<1>3. PICK R : R = Range(s)
  OBVIOUS
<1>4. /\ s # << >> /\ h.do = "place" /\ h \in R /\ R = {h} \cup Range(Tail(s))
      /\ \A l \in Range(Tail(s)) : Before(h, l)
      /\ h \in PlaceTask /\ TypeInv /\ R \subseteq AnyTask
  <2>1. ~Idle(d) /\ h.do = "place"
    BY <1>1, <1>2 DEF Place, Doing, Idle
  <2> QED BY <1>1, <1>2, <1>3, <2>1, Working, FieldsOf, RangeParts, PlannedTail, RangeOfSeq
<1>5. PICK m \in Matches, side \in Sides, e \in Occupant :
          h.slot = <<m, side>> /\ m = h.slot[1] /\ side = h.slot[2] /\ e = h.e
  BY <1>4 DEF PlaceTask, Slots, Occupant
<1>6. row[m] \in RowType
  BY <1>4 DEF TypeInv
<1>7. PICK new : new = [row[m] EXCEPT ![side] = e]
  OBVIOUS
<1>8. new[side] = e /\ new[Other(side)] = row[m][Other(side)] /\ new.status = row[m].status
  BY <1>6, <1>7, SideRow
<1>9. row' = [row EXCEPT ![m] = new]
  BY <1>1, <1>2, <1>4, <1>5, <1>7 DEF Place, TypeInv
<1>10. ASSUME NEW l \in R, l.do = "place" PROVE Source(l.slot, l.e)
  <2>1. Sent(l, R)
    BY <1>1, <1>3, <1>10 DEF PathInv, Along, OnPath
  <2>2. \A q \in R : q.do \notin {"write", "edit"}
    BY <1>4 DEF Before, AtOnce, Erasures, Erasing, Preparing
  <2> QED BY <2>1, <2>2 DEF Sent
<1>11. PICK n \in Matches : h.slot \in FedBy(n)
  <2>1. Source(h.slot, h.e)
    BY <1>4, <1>10
  <2>2. h.slot # NoSlot
    BY <1>4, BracketAssumption DEF PlaceTask, Slots, NoSlot, BracketAssumption
  <2> QED BY <2>1, <2>2 DEF Source, Carries, FedBy
<1>12. ASSUME NEW x, Source(h.slot, x) PROVE x = e
  <2>1. PICK slot \in FedBy(n) : slot = h.slot
    BY <1>11
  <2>2. Carries(n, row[n].win, row[n].lose, slot, x) /\ Carries(n, row[n].win, row[n].lose, slot, e)
    <3>1. Source(slot, x) /\ Source(slot, e)
      BY <1>4, <1>5, <1>10, <1>12, <2>1
    <3> QED BY <3>1, OneSource
  <2>3. slot # NoSlot /\ ~(slot = WinnerTo[n] /\ slot = LoserTo[n])
    BY DEF Knockout, FedBy
  <2> QED BY <2>2, <2>3 DEF Carries
<1>13. e = None => row[m][side] = None
  <2> SUFFICES ASSUME e = None, row[m][side] # None PROVE FALSE
    OBVIOUS
  <2>1. At(h.slot) = row[m][side]
    BY <1>5 DEF At
  <2>2. ~Source(h.slot, At(h.slot))
    BY <1>12, <2>1
  <2>3. Followed(s, ops)
    BY <1>1 DEF PathInv, Along
  <2>4. PICK l \in R : l.do = "place" /\ l.slot = h.slot /\ l.e # None
    BY <1>3, <1>11, <2>1, <2>2, <2>3 DEF Followed
  <2>5. Source(h.slot, l.e)
    BY <1>10, <2>4
  <2> QED BY <1>12, <2>4, <2>5
<1>14. new.status \in {"ready", "live"} => Known(new)
  <2> SUFFICES ASSUME new.status \in {"ready", "live"} PROVE Known(new)
    OBVIOUS
  <2>1. row[m].a # None /\ row[m].b # None
    BY <1>8 DEF CallsKnown, Known
  <2>2. e # None
    BY <1>13, <2>1 DEF Sides
  <2> QED BY <1>8, <2>1, <2>2 DEF Known, Sides, Other
<1> QED BY <1>4, <1>9, <1>14, CallsRow

\* Every step.
LEMMA CallsKept ==
  ASSUME NEW reach, NEW ops, Knockout(reach), PathInv(reach, ops), OneInv, CallsKnown,
         NEW d \in Desks, Desks = {d}, MaxFaults = 0, "seat" \notin Ops, "reaward" \notin ops,
         [Next]_resultVars
  PROVE  CallsKnown'
<1>1. CASE row' = row
  BY <1>1 DEF CallsKnown
<1>2. CASE BeginStep(d)
  <2>1. row' = row
    BY <1>2 DEF BeginStep, Enter, Walkover, Edit, SetEntry, Void, DoubleNoShow, Unvoid, Undo,
                SetLive, ExitDraw, Begin
  <2> QED BY <1>1, <2>1
<1>3. CASE Request(d)
  <2>1. ~Restore(d)
    <3> SUFFICES ASSUME Restore(d) PROVE FALSE
      OBVIOUS
    <3>1. ~Idle(d) /\ Head(todo[d]).do = "restore"
      BY DEF Restore, Doing, Idle
    <3> QED BY <3>1, Working DEF Planned
  <2>2. ~WriteSeat(d)
    <3> SUFFICES ASSUME WriteSeat(d) PROVE FALSE
      OBVIOUS
    <3>1. ~Idle(d) /\ Head(todo[d]).do = "seat"
      BY DEF WriteSeat, Doing, Idle
    <3>2. Head(todo[d]) \in Range(todo[d])
      BY <3>1, Working
    <3> QED BY <3>1, <3>2 DEF PathInv, Along, OnPath
  <2>3. CASE \/ Write(d) \/ WriteEdit(d) \/ WriteVoid(d) \/ WriteNoShow(d) \/ Rate(d) \/ Reverse(d)
             \/ Ready(d) \/ WriteLive(d) \/ WriteUnvoid(d) \/ WriteUndo(d)
    BY <2>3, ResultCalls, StatusCalls
  <2>4. CASE Clear(d) \/ Place(d)
    BY <2>4, ClearCalls, PlaceCalls
  <2>5. CASE \/ Look(d) \/ Route(d) \/ Settle(d) \/ Guard(d) \/ Find(d) \/ Mark(d) \/ List(d) \/ Forfeit(d)
    <3>1. row' = row
      BY <2>5 DEF Look, Route, Settle, Guard, Find, Mark, List, Forfeit
    <3> QED BY <1>1, <3>1
  <2> QED BY <1>3, <2>1, <2>2, <2>3, <2>4, <2>5 DEF Request
<1>4. CASE Fault(d)
  BY <1>4 DEF Fault, OneInv
<1>5. CASE UNCHANGED resultVars
  BY <1>1, <1>5 DEF resultVars
<1> QED BY <1>2, <1>3, <1>4, <1>5 DEF Next
-----------------------------------------------------------------------------
(* What one desk keeps in a knockout.                                      *)

\* The invariant of one desk's knockout: in full until a correction gives a match to its
\* empty side.
OnPaths(reach) ==
    /\ PathInv(reach, Ops)
    /\ ~Begun("reaward") => PathInv(reach, Ops \ {"reaward"}) /\ CallsKnown

\* What has begun has begun.
LEMMA StillBegun ==
  ASSUME OneInv, [Next]_resultVars, Begun("reaward")
  PROVE  Begun("reaward")'
<1>1. begun \in Seq(Ops)
  BY DEF OneInv, TypeInv
<1>2. CASE begun' = begun
  BY <1>2 DEF Begun
<1>3. CASE \E d \in Desks : BeginStep(d)
  <2>1. PICK op : begun' = Append(begun, op)
    <3>1. PICK e \in Desks : BeginStep(e)
      BY <1>3
    <3>2. \A op, tasks : Begin(e, op, tasks) => begun' = Append(begun, op)
      BY DEF Begin
    <3>3. \E op, tasks : Begin(e, op, tasks)
      BY <3>1, Zenon DEF BeginStep, Enter, Walkover, Edit, SetEntry, Void, DoubleNoShow, Unvoid,
                Undo, SetLive, ExitDraw
    <3> QED BY <3>2, <3>3
  <2>2. PICK i \in DOMAIN begun : begun[i] = "reaward"
    BY DEF Begun
  <2>3. i \in DOMAIN begun' /\ begun'[i] = "reaward"
    BY <1>1, <2>1, <2>2
  <2> QED BY <2>3 DEF Begun
<1>4. CASE \E d \in Desks : Request(d)
  <2>1. begun' = begun
    BY <1>4 DEF Request, Write, Look, Rate, Restore, Route, Place, Settle, Ready, Guard, Reverse,
                Find, Clear, WriteVoid, WriteNoShow, Mark, WriteUnvoid, WriteUndo, WriteEdit,
                WriteSeat, WriteLive, List, Forfeit
  <2> QED BY <1>2, <2>1
<1>5. CASE \E d \in Desks : Fault(d)
  BY <1>2, <1>5 DEF Fault
<1>6. CASE UNCHANGED resultVars
  BY <1>2, <1>6 DEF resultVars
<1> QED BY <1>3, <1>4, <1>5, <1>6 DEF Next

LEMMA PathAlways ==
  ASSUME NEW d \in Desks, Desks = {d}, MaxFaults = 0, "seat" \notin Ops,
         NEW reach, Knockout(reach)
  PROVE  Spec => []OnPaths(reach)
<1>1. Init => OnPaths(reach)
  <2> SUFFICES ASSUME Init PROVE CallsKnown
    BY DrawPath DEF OnPaths
  <2> SUFFICES ASSUME NEW m \in Matches, row[m].status \in {"ready", "live"}
               PROVE  Known(row[m])
    BY DEF CallsKnown
  <2> QED BY DEF Init, Seated, Known
<1>2. OneInv /\ OnPaths(reach) /\ [Next]_resultVars => OnPaths(reach)'
  <2> SUFFICES ASSUME OneInv, OnPaths(reach), [Next]_resultVars PROVE OnPaths(reach)'
    OBVIOUS
  <2>1. Begun("reaward")' => "reaward" \in Ops
    <3> SUFFICES ASSUME "reaward" \notin Ops, Begun("reaward")' PROVE FALSE
      OBVIOUS
    <3>1. begun' \in Seq(Ops)
      BY OneKept DEF OneInv, TypeInv
    <3> QED BY <3>1 DEF Begun
  <2>2. PathInv(reach, Ops)'
    BY <2>1, PathKept DEF OnPaths
  <2>3. ASSUME ~Begun("reaward")'
        PROVE  PathInv(reach, Ops \ {"reaward"})' /\ CallsKnown'
    <3>1. PICK ops : ops = Ops \ {"reaward"}
      OBVIOUS
    <3>2. PathInv(reach, ops) /\ CallsKnown /\ "reaward" \notin ops
      BY <2>3, <3>1, StillBegun DEF OnPaths
    <3>3. PathInv(reach, ops)' /\ CallsKnown'
      BY <2>3, <3>2, PathKept, CallsKept
    <3> QED BY <3>1, <3>3
  <2> QED BY <2>2, <2>3 DEF OnPaths
<1>3. Spec => []OneInv
  BY OneAlways
<1> QED BY <1>1, <1>2, <1>3, PTL DEF Spec

\* Where one desk is at work in a knockout, seats nobody by hand and no request fails, an
\* entry's swing is at all times what its rated wins and losses add up to, however often
\* results were corrected, undone or voided in between.
THEOREM OneDeskSwingsAddUp ==
  ASSUME NEW d \in Desks, Desks = {d}, MaxFaults = 0, "seat" \notin Ops,
         NEW reach, Knockout(reach)
  PROVE  Spec => []SwingAddsUp
<1>1. OnPaths(reach) => SwingAddsUp
  BY DEF OnPaths, PathInv
<1> QED BY <1>1, PathAlways, PTL

\* There, who won and lost a decided match still sits in it, each on a side of their own,
\* and where nobody is recorded the side is still empty.
THEOREM OneDeskWinnersPlayed ==
  ASSUME NEW d \in Desks, Desks = {d}, MaxFaults = 0, "seat" \notin Ops,
         NEW reach, Knockout(reach)
  PROVE  Spec => []WinnerPlayed
<1>1. OnPaths(reach) => WinnerPlayed
  BY DEF OnPaths, PathInv, PairsPlayed, WinnerPlayed
<1> QED BY <1>1, PathAlways, PTL

\* There, until a correction gives a match to its empty side, a slot that a match feeds is
\* between operations empty or holds the entry which that match sends there as it is
\* decided now: nobody is left in a later round by a result that was undone, voided or
\* corrected.
THEOREM OneDeskSlotsFollowResults ==
  ASSUME NEW d \in Desks, Desks = {d}, MaxFaults = 0, "seat" \notin Ops,
         NEW reach, Knockout(reach)
  PROVE  Spec => []SlotsFollowResults
<1>1. OnPaths(reach) => SlotsFollowResults
  <2> SUFFICES ASSUME OnPaths(reach), Quiet, ~Begun("reaward"), NEW m \in Matches
               PROVE  Fed(WinnerTo[m], row[m].win, m) /\ Fed(LoserTo[m], row[m].lose, m)
    BY DEF SlotsFollowResults, Regular
  <2>1. PICK ops : ops = Ops \ {"reaward"}
    OBVIOUS
  <2>2. Idle(d) /\ PathInv(reach, ops) /\ "reaward" \notin ops
    BY <2>1 DEF Quiet, OnPaths
  <2>3. /\ WinnerTo[m] # NoSlot => Fed(WinnerTo[m], row[m].win, m)
        /\ LoserTo[m] # NoSlot => Fed(LoserTo[m], row[m].lose, m)
    BY <2>2, SentHere DEF FedBy, Fed, At
  <2> QED BY <2>3 DEF Fed
<1> QED BY <1>1, PathAlways, PTL

\* There too, a match that may be called to a court has both its entries between
\* operations, whatever results before it were undone, voided or corrected, and also when
\* a result was entered for an empty side.
THEOREM OneDeskCallsKnownEntries ==
  ASSUME NEW d \in Desks, Desks = {d}, MaxFaults = 0, "seat" \notin Ops,
         NEW reach, Knockout(reach)
  PROVE  Spec => []ReadyIsKnown
<1>1. OnPaths(reach) => ReadyIsKnown
  BY DEF OnPaths, CallsKnown, ReadyIsKnown, Regular
<1> QED BY <1>1, PathAlways, PTL
=============================================================================
