------------------------------ MODULE OutboxProofs ------------------------------
(***************************************************************************)
(* The outbox for any number of runs, rows, attempts, corrections, crashes *)
(* and lost calls.  As long as no claim runs out under the run that holds  *)
(* it, a row is held by one run at most and is not corrected meanwhile;    *)
(* so what is reported as sent is what the channel shows.  When claims do  *)
(* run out, every extra copy is still paid for: the last part.             *)
(***************************************************************************)
EXTENDS OutboxProperties, TLAPS, FiniteSetTheorems, Functions

-----------------------------------------------------------------------------
(* Types.                                                                  *)

\* A message in the channel.
Message == [row: Rows, text: 0..MaxEdits, gone: BOOLEAN]

\* The channel is a sequence of messages, each of them some row's.
LEMMA ChannelType ==
  ASSUME TypeOK
  PROVE  /\ channel \in Seq(Message)
         /\ \A m \in DOMAIN channel : channel[m] \in Message /\ channel[m].row \in Rows
<1>1. channel \in Seq(Message)
  BY DEF TypeOK, Message
<1>2. ASSUME NEW m \in DOMAIN channel PROVE channel[m] \in Message /\ channel[m].row \in Rows
  <2>1. channel[m] \in Message
    BY <1>1
  <2> QED BY <2>1 DEF Message
<1> QED BY <1>1, <1>2

\* NoAnswer is an answer.
LEMMA EmptyType == NoAnswer \in [row: Rows \cup {0}, ok: BOOLEAN, mid: Nat, seen: Nat]
  BY DEF NoAnswer

\* Posting a message or patching one gives a channel.
LEMMA WrittenType ==
  ASSUME TypeOK, NEW j \in Job
  PROVE  Written(j) \in Seq(Message)
<1>0. channel \in Seq(Message) /\ j.row \in Rows /\ j.text \in 0..MaxEdits
  BY DEF TypeOK, Message, Job
<1>1. [row |-> j.row, text |-> j.text, gone |-> FALSE] \in Message
  BY <1>0 DEF Message
<1>2. CASE j.mid \in DOMAIN channel
  <2>1. channel[j.mid] \in Message
    BY <1>0, <1>2
  <2>2. [channel[j.mid] EXCEPT !.text = j.text] \in Message
    BY <1>0, <2>1 DEF Message
  <2> QED BY <1>0, <1>1, <1>2, <2>2 DEF Written
<1>3. CASE j.mid \notin DOMAIN channel
  <2>1. [channel EXCEPT ![j.mid].text = j.text] = channel
    BY <1>0, <1>3
  <2>2. Append(channel, [row |-> j.row, text |-> j.text, gone |-> FALSE]) \in Seq(Message)
    BY <1>0, <1>1
  <2> QED BY <1>0, <2>1, <2>2 DEF Written
<1> QED BY <1>2, <1>3

\* A run receives jobs of rows.
LEMMA ReceiveType ==
  ASSUME TypeOK, NEW b \in Bots, NEW S \in SUBSET Rows, Receive(b, S)
  PROVE  /\ jobs' \in [Bots -> SUBSET Job]
         /\ pc' \in [Bots -> {"idle", "read", "working", "answered", "failing"}]
         /\ cands' \in [Bots -> SUBSET Rows]
<1>1. \A r \in S : [row |-> r, text |-> row[r].text, mid |-> row[r].mid] \in Job
  BY DEF TypeOK, OutboxRow, Job
<1> QED BY <1>1 DEF Receive, TypeOK

\* A claim keeps the table's type.
LEMMA ClaimedType ==
  ASSUME TypeOK, NEW S PROVE Claimed(S) \in [Rows -> OutboxRow]
<1>1. \A x \in OutboxRow : [x EXCEPT !.claim = "fresh"] \in OutboxRow
  BY DEF OutboxRow
<1> QED BY <1>1 DEF TypeOK, Claimed

\* An answer of Discord keeps the types of what a run holds.
LEMMA AnswerType ==
  ASSUME TypeOK, NEW b \in Bots, NEW j \in jobs[b], NEW ok \in BOOLEAN, NEW mid \in Nat,
         Answer(b, j, ok, mid)
  PROVE  /\ jobs' \in [Bots -> SUBSET Job]
         /\ doing' \in [Bots -> [row: Rows \cup {0}, ok: BOOLEAN, mid: Nat, seen: Nat]]
         /\ pc' \in [Bots -> {"idle", "read", "working", "answered", "failing"}]
  BY DEF Answer, TypeOK, Job

\* So does going on to the next job.
LEMMA NextJobType ==
  ASSUME TypeOK, NEW b \in Bots, NextJob(b)
  PROVE  /\ doing' \in [Bots -> [row: Rows \cup {0}, ok: BOOLEAN, mid: Nat, seen: Nat]]
         /\ pc' \in [Bots -> {"idle", "read", "working", "answered", "failing"}]
  BY EmptyType DEF NextJob, TypeOK

\* The console and the ten minutes keep every type.
LEMMA TableStepType ==
  ASSUME TypeOK, NEW r \in Rows, Queue(r) \/ Edit(r) \/ Expire(r)
  PROVE  TypeOK'
<1>1. row[r] \in OutboxRow
  BY DEF TypeOK
<1>2. CASE Queue(r)
  <2>1. [row[r] EXCEPT !.queued = TRUE] \in OutboxRow
    BY <1>1 DEF OutboxRow
  <2> QED BY <1>2, <2>1 DEF Queue, TypeOK, rvars
<1>3. CASE Edit(r)
  <2>1. row[r].text + 1 \in 0..MaxEdits
    BY <1>1, <1>3, OutboxAssumption DEF OutboxRow, Edit
  <2> DEFINE new == [row[r] EXCEPT !.text = @ + 1, !.sent = FALSE, !.claim = "free",
                                   !.failed = FALSE, !.attempts = 0]
  <2>2. new \in OutboxRow
    BY <1>1, <2>1 DEF OutboxRow
  <2>3. row' = [row EXCEPT ![r] = new]
    BY <1>3 DEF Edit, Requeued
  <2> HIDE DEF new
  <2>4. row' \in [Rows -> OutboxRow]
    BY <2>2, <2>3 DEF TypeOK
  <2> QED BY <1>3, <2>4 DEF Edit, TypeOK, rvars
<1>4. CASE Expire(r)
  <2>1. [row[r] EXCEPT !.claim = "stale"] \in OutboxRow
    BY <1>1 DEF OutboxRow
  <2>2. stalls' \in Nat
    BY <1>4 DEF Expire, TypeOK
  <2> QED BY <1>4, <2>1, <2>2 DEF Expire, TypeOK, rvars
<1> QED BY <1>2, <1>3, <1>4

\* So does a deletion in Discord.
LEMMA RemoveType ==
  ASSUME TypeOK, NEW m \in DOMAIN channel, Remove(m)
  PROVE  TypeOK'
<1>0. channel \in Seq(Message)
  BY DEF TypeOK, Message
<1>1. channel[m] \in Message
  BY <1>0
<1>2. [channel[m] EXCEPT !.gone = TRUE] \in Message
  BY <1>1 DEF Message
<1>3. channel' \in Seq(Message)
  BY <1>0, <1>2 DEF Remove
<1> QED BY <1>3 DEF Remove, TypeOK, rvars, Message

\* A run that has an answer to write back has it for a row.
Busy == \A b \in Bots : pc[b] \in {"answered", "failing"} => doing[b].row \in Rows

\* So does a run when nothing goes wrong,
LEMMA WorkType ==
  ASSUME TypeOK, Busy, NEW b \in Bots, Work(b)
  PROVE  TypeOK'
<1>1. CASE Read(b)
  BY <1>1 DEF Read, Oldest, TypeOK
<1>2. CASE Claim(b)
  <2>1. {r \in cands[b] : Claimable(r)} \in SUBSET Rows
    BY DEF TypeOK
  <2> QED BY <1>2, <2>1, ReceiveType, ClaimedType DEF Claim, TypeOK
<1>3. ASSUME NEW j \in jobs[b], Accepted(b, j) PROVE TypeOK'
  <2>1. j \in Job /\ j.mid \in Nat /\ Len(channel) + 1 \in Nat
    BY DEF TypeOK, Job
  <2>2. channel' \in Seq(Message)
    BY <1>3, <2>1, WrittenType DEF Accepted
  <2>3. (IF j.mid = 0 THEN Len(channel) + 1 ELSE j.mid) \in Nat
    BY <2>1
  <2>4. /\ jobs' \in [Bots -> SUBSET Job]
        /\ doing' \in [Bots -> [row: Rows \cup {0}, ok: BOOLEAN, mid: Nat, seen: Nat]]
        /\ pc' \in [Bots -> {"idle", "read", "working", "answered", "failing"}]
    BY <1>3, <2>3, AnswerType DEF Accepted
  <2> QED BY <1>3, <2>2, <2>4 DEF Accepted, Answer, TypeOK, Message
<1>4. ASSUME NEW j \in jobs[b], Refused(b, j) PROVE TypeOK'
  BY <1>4, AnswerType DEF Refused, Answer, TypeOK
<1>5. CASE RecordSent(b)
  <2>1. ASSUME NEW x \in OutboxRow, NEW n \in Nat
        PROVE  [x EXCEPT !.sent = TRUE, !.mid = n] \in OutboxRow
    BY DEF OutboxRow
  <2>2. doing[b].mid \in Nat
    BY DEF TypeOK
  <2>3. row' \in [Rows -> OutboxRow]
    BY <1>5, <2>1, <2>2 DEF RecordSent, TypeOK
  <2> QED BY <1>5, <2>3, NextJobType DEF RecordSent, NextJob, TypeOK
<1>6. CASE ReadAttempts(b)
  <2> DEFINE n == row[doing[b].row].attempts
  <2>1. n \in Nat
    <3>1. row[doing[b].row] \in OutboxRow
      BY <1>6 DEF TypeOK, Busy, ReadAttempts
    <3> QED BY <3>1 DEF OutboxRow
  <2>2. doing' = [doing EXCEPT ![b].seen = n]
    BY <1>6 DEF ReadAttempts
  <2> HIDE DEF n
  <2>3. [doing[b] EXCEPT !.seen = n] \in [row: Rows \cup {0}, ok: BOOLEAN, mid: Nat, seen: Nat]
    BY <2>1 DEF TypeOK
  <2> QED BY <1>6, <2>2, <2>3 DEF ReadAttempts, TypeOK
<1>7. CASE RecordFailed(b)
  <2>1. ASSUME NEW x \in OutboxRow, NEW n \in Nat, NEW out \in BOOLEAN
        PROVE  [x EXCEPT !.attempts = n, !.claim = "free", !.failed = @ \/ out] \in OutboxRow
    BY DEF OutboxRow
  <2>2. doing[b].seen + 1 \in Nat
    BY DEF TypeOK
  <2> DEFINE r == doing[b].row
             n == doing[b].seen + 1
             new == [row[r] EXCEPT !.attempts = n, !.claim = "free",
                                   !.failed = @ \/ n >= MaxAttempts]
  <2>3. r \in Rows /\ row[r] \in OutboxRow
    BY <1>7 DEF RecordFailed, Busy, TypeOK
  <2>4. new \in OutboxRow
    BY <2>1, <2>2, <2>3
  <2>5. row' = row \/ row' = [row EXCEPT ![r] = new]
    BY <1>7 DEF RecordFailed
  <2> HIDE DEF r, n, new
  <2>6. row' \in [Rows -> OutboxRow]
    BY <2>3, <2>4, <2>5 DEF TypeOK
  <2> QED BY <1>7, <2>6, NextJobType DEF RecordFailed, NextJob, TypeOK
<1> QED BY <1>1, <1>2, <1>3, <1>4, <1>5, <1>6, <1>7 DEF Work

\* and when something does.
LEMMA TroubleType ==
  ASSUME TypeOK, NEW b \in Bots, Trouble(b)
  PROVE  TypeOK'
<1>1. CASE ClaimLost(b)
  <2>1. {} \in SUBSET Rows
    OBVIOUS
  <2> QED BY <1>1, <2>1, ReceiveType, ClaimedType DEF ClaimLost, TypeOK, Fault
<1>2. ASSUME NEW j \in jobs[b], AnswerLost(b, j) PROVE TypeOK'
  <2>1. j \in Job
    BY DEF TypeOK
  <2>2. channel' \in Seq(Message)
    BY <1>2, <2>1, WrittenType DEF AnswerLost
  <2>3. /\ jobs' \in [Bots -> SUBSET Job]
        /\ doing' \in [Bots -> [row: Rows \cup {0}, ok: BOOLEAN, mid: Nat, seen: Nat]]
        /\ pc' \in [Bots -> {"idle", "read", "working", "answered", "failing"}]
    BY <1>2, AnswerType DEF AnswerLost
  <2>4. faults' \in Nat
    BY <1>2 DEF AnswerLost, Fault, TypeOK
  <2> QED BY <1>2, <2>2, <2>3, <2>4 DEF AnswerLost, Answer, TypeOK, Message
<1>3. CASE RecordLost(b)
  <2>1. /\ doing' \in [Bots -> [row: Rows \cup {0}, ok: BOOLEAN, mid: Nat, seen: Nat]]
        /\ pc' \in [Bots -> {"idle", "read", "working", "answered", "failing"}]
    BY <1>3, NextJobType DEF RecordLost
  <2>2. faults' \in Nat
    BY <1>3 DEF RecordLost, Fault, TypeOK
  <2> QED BY <1>3, <2>1, <2>2 DEF RecordLost, NextJob, TypeOK
<1>4. CASE Crash(b)
  BY <1>4, EmptyType DEF Crash, TypeOK, Fault
<1> QED BY <1>1, <1>2, <1>3, <1>4 DEF Trouble

\* A run in the middle of a write-back keeps the row it is about.
LEMMA BusyStep ==
  ASSUME TypeOK, Busy, [Next]_vars PROVE Busy'
<1> USE DEF Busy
<1>1. ASSUME NEW b \in Bots, NEW j \in jobs[b], NEW ok, NEW mid, Answer(b, j, ok, mid)
      PROVE  Busy'
  <2>1. j.row \in Rows
    BY DEF TypeOK, Job
  <2> QED BY <1>1, <2>1 DEF Answer, TypeOK
<1>2. ASSUME NEW b \in Bots, NextJob(b) PROVE Busy'
  BY <1>2 DEF NextJob, TypeOK
<1>3. ASSUME NEW b \in Bots, NEW S, Receive(b, S), doing' = doing PROVE Busy'
  BY <1>3 DEF Receive, TypeOK
<1>4. ASSUME NEW b \in Bots, Work(b) PROVE Busy'
  <2>1. CASE Read(b)
    BY <2>1 DEF Read, TypeOK
  <2>2. CASE ReadAttempts(b)
    BY <2>2 DEF ReadAttempts, TypeOK
  <2> QED BY <1>1, <1>2, <1>3, <1>4, <2>1, <2>2 DEF Work, Claim, Accepted, Refused, RecordSent, RecordFailed
<1>5. ASSUME NEW b \in Bots, Trouble(b) PROVE Busy'
  <2>1. CASE Crash(b)
    BY <2>1 DEF Crash, TypeOK
  <2> QED BY <1>1, <1>2, <1>3, <1>5, <2>1 DEF Trouble, ClaimLost, AnswerLost, RecordLost
<1>6. CASE UNCHANGED <<pc, doing>>
  BY <1>6
<1> QED BY <1>4, <1>5, <1>6 DEF Next, Queue, Edit, Expire, Remove, vars, rvars

\* Every step keeps every type.
LEMMA NextType == TypeOK /\ Busy /\ [Next]_vars => (TypeOK /\ Busy)'
<1>1. TypeOK /\ UNCHANGED vars => TypeOK'
  BY DEF vars, rvars, TypeOK
<1> QED BY <1>1, TableStepType, RemoveType, WorkType, TroubleType, BusyStep DEF Next

\* The outbox starts well typed.
LEMMA InitType == Init => TypeOK /\ Busy
<1> SUFFICES ASSUME Init PROVE TypeOK /\ Busy
  OBVIOUS
<1>1. [queued |-> FALSE, text |-> 0, claim |-> "free", attempts |-> 0,
       sent |-> FALSE, failed |-> FALSE, mid |-> 0] \in OutboxRow
  BY OutboxAssumption DEF OutboxRow
<1>2. << >> \in Seq(Message)
  OBVIOUS
<1> QED BY <1>1, <1>2, EmptyType DEF Init, TypeOK, Busy, Message

\* Every state of the outbox is well typed.
THEOREM OutboxTypeCorrect == Spec => []TypeOK
  BY InitType, NextType, PTL DEF Spec

-----------------------------------------------------------------------------
(* A held row is fresh, unsettled and held once; what its run took or      *)
(* wrote is the row's latest wording.                                      *)

\* A run that holds r holds its claim, and works on its latest wording.
HeldIsFresh ==
    \A b \in Bots, r \in Rows : Holds(b, r) =>
        /\ row[r].claim = "fresh" /\ row[r].queued /\ ~row[r].sent /\ ~row[r].failed
        /\ \A c \in Bots : Holds(c, r) => c = b

JobsAreLatest ==
    \A b \in Bots : \A j \in jobs[b] :
        /\ j.text = row[j.row].text /\ j.mid = row[j.row].mid
        /\ doing[b].row # j.row
        /\ \A k \in jobs[b] : k.row = j.row => k = j

\* A message in the channel under an id is row r's, in its latest wording.
ShownAt(m, r) == m \in DOMAIN channel /\ Shows(m, r)

\* The id a row carries is one of its own messages.
IdsAreOwn ==
    \A r \in Rows : row[r].mid # 0 => row[r].mid \in DOMAIN channel /\ channel[row[r].mid].row = r

\* An answer of success is about a message that shows the row.
AnswersAreTrue ==
    \A b \in Bots : pc[b] = "answered" /\ doing[b].ok => ShownAt(doing[b].mid, doing[b].row)

\* No message is ahead of its row.
NoneAhead ==
    \A m \in DOMAIN channel :
        row[channel[m].row].queued /\ channel[m].text <= row[channel[m].row].text
UnqueuedIsNew == \A r \in Rows : ~row[r].queued => ~row[r].sent /\ ~row[r].failed

Held == HeldIsFresh /\ JobsAreLatest
Told == IdsAreOwn /\ AnswersAreTrue /\ SentIsShown
OutboxInv ==
    /\ TypeOK /\ Busy /\ stalls = 0
    /\ Held /\ Told /\ NoneAhead /\ UnqueuedIsNew

-----------------------------------------------------------------------------
(* What a run holds.                                                       *)

\* A row that is open to an edit, or that nobody queued, is in no run's hands.
LEMMA NotHeld ==
  ASSUME HeldIsFresh, NEW r \in Rows,
         \/ row[r].claim # "fresh"
         \/ row[r].sent
         \/ row[r].failed
         \/ ~row[r].queued
  PROVE  \A b \in Bots : ~Holds(b, r)
  BY DEF HeldIsFresh

\* A job's row is held by the run that has the job.
LEMMA JobIsHeld ==
  ASSUME TypeOK, NEW b \in Bots, NEW j \in jobs[b]
  PROVE  j \in Job /\ j.row \in Rows /\ Holds(b, j.row)
  BY DEF TypeOK, Job, Holds

\* When the table changes in rows that no run holds and no run takes anything
\* new, what was held stays as it was.
LEMMA TableKeepsHeld ==
  ASSUME TypeOK, Held, NEW r \in Rows, \A b \in Bots : ~Holds(b, r),
         \A q \in Rows : q # r => row'[q] = row[q],
         UNCHANGED <<jobs, doing>>
  PROVE  Held'
<1>1. \A b \in Bots, q \in Rows : Holds(b, q)' <=> Holds(b, q)
  BY DEF Holds
<1>2. HeldIsFresh'
  BY <1>1 DEF Held, HeldIsFresh
<1>3. JobsAreLatest'
  <2> SUFFICES ASSUME NEW b \in Bots, NEW j \in jobs[b]
               PROVE  row'[j.row] = row[j.row]
    BY DEF Held, JobsAreLatest
  <2> QED BY JobIsHeld
<1> QED BY <1>2, <1>3 DEF Held

\* A run that lets go of what it works on, and of nothing else, disturbs no
\* other: the row it let go of may change as it likes.
LEMMA LetGoKeepsHeld ==
  ASSUME TypeOK, Held, NEW b \in Bots, NextJob(b),
         \A q \in Rows : q # doing[b].row => row'[q] = row[q]
  PROVE  Held'
<1>1. /\ jobs' = jobs
      /\ doing'[b].row = 0
      /\ \A c \in Bots : c # b => doing'[c] = doing[c]
  BY DEF NextJob, NoAnswer, TypeOK
<1>2. \A c \in Bots, q \in Rows : Holds(c, q)' => Holds(c, q) /\ q # doing[b].row
  <2> SUFFICES ASSUME NEW c \in Bots, NEW q \in Rows, Holds(c, q)'
               PROVE  Holds(c, q) /\ q # doing[b].row
    OBVIOUS
  <2>1. Holds(c, q)
    BY <1>1 DEF Holds, Rows
  <2>2. CASE c = b
    BY <1>1, <2>2 DEF Held, JobsAreLatest, Holds, Rows
  <2>3. CASE c # b
    <3>1. q = doing[b].row => Holds(b, q)
      BY DEF Holds
    <3> QED BY <2>1, <2>3, <3>1 DEF Held, HeldIsFresh
  <2> QED BY <2>1, <2>2, <2>3
<1>3. HeldIsFresh'
  BY <1>2 DEF Held, HeldIsFresh
<1>4. JobsAreLatest'
  <2> SUFFICES ASSUME NEW c \in Bots, NEW j \in jobs[c]
               PROVE  row'[j.row] = row[j.row] /\ doing'[c].row # j.row
    BY <1>1 DEF Held, JobsAreLatest
  <2>1. j.row \in Rows /\ Holds(c, j.row)'
    BY <1>1, JobIsHeld DEF Holds
  <2>2. row'[j.row] = row[j.row]
    BY <1>2, <2>1
  <2>3. doing'[c].row # j.row
    BY <1>1, <2>1 DEF Held, JobsAreLatest, Rows
  <2> QED BY <2>2, <2>3
<1> QED BY <1>3, <1>4 DEF Held

\* Discord's answer about a job moves the job into the run's hand.
LEMMA AnswerKeepsHeld ==
  ASSUME TypeOK, Held, NEW b \in Bots, NEW j \in jobs[b], NEW ok, NEW mid,
         Answer(b, j, ok, mid)
  PROVE  Held'
<1>1. /\ row' = row
      /\ jobs'[b] = jobs[b] \ {j} /\ doing'[b].row = j.row
      /\ \A c \in Bots : c # b => jobs'[c] = jobs[c] /\ doing'[c] = doing[c]
  BY DEF Answer, TypeOK
<1>2. \A c \in Bots, q \in Rows : Holds(c, q)' => Holds(c, q)
  BY <1>1 DEF Holds
<1>3. HeldIsFresh'
  BY <1>1, <1>2 DEF Held, HeldIsFresh
<1>4. JobsAreLatest'
  <2> SUFFICES ASSUME NEW c \in Bots, NEW k \in jobs'[c]
               PROVE  /\ k.text = row[k.row].text /\ k.mid = row[k.row].mid
                      /\ doing'[c].row # k.row
                      /\ \A i \in jobs'[c] : i.row = k.row => i = k
    BY <1>1 DEF JobsAreLatest
  <2>1. CASE c = b
    BY <1>1, <2>1 DEF Held, JobsAreLatest
  <2>2. CASE c # b
    BY <1>1, <2>2 DEF Held, JobsAreLatest
  <2> QED BY <2>1, <2>2
<1> QED BY <1>3, <1>4 DEF Held

\* A claim takes rows that nobody holds.
LEMMA ClaimKeepsHeld ==
  ASSUME TypeOK, Held, NEW b \in Bots, NEW S \in SUBSET Rows, NEW T \in SUBSET S,
         \A r \in S : Claimable(r), row' = Claimed(S), Receive(b, T), UNCHANGED doing
  PROVE  Held'
<1>1. /\ jobs'[b] = {[row |-> r, text |-> row[r].text, mid |-> row[r].mid] : r \in T}
      /\ \A c \in Bots : c # b => jobs'[c] = jobs[c]
  BY DEF Receive, TypeOK
<1>2. \A q \in Rows : /\ row'[q].queued = row[q].queued /\ row'[q].sent = row[q].sent
                      /\ row'[q].failed = row[q].failed /\ row'[q].text = row[q].text
                      /\ row'[q].mid = row[q].mid
                      /\ row[q].claim = "fresh" => row'[q].claim = "fresh"
                      /\ q \in S => row'[q].claim = "fresh"
  <2> TAKE q \in Rows
  <2>1. row[q] \in OutboxRow
    BY DEF TypeOK
  <2>2. CASE q \in S
    <3>1. row'[q] = [row[q] EXCEPT !.claim = "fresh"]
      BY <2>2 DEF Claimed
    <3> QED BY <2>1, <3>1 DEF OutboxRow
  <2>3. CASE q \notin S
    BY <2>3 DEF Claimed
  <2> QED BY <2>2, <2>3
<1>3. \A q \in S : \A c \in Bots : ~Holds(c, q)
  BY NotHeld DEF Claimable, Held
<1>4. \A c \in Bots, q \in Rows : Holds(c, q)' => (c = b /\ q \in T) \/ (q \notin S /\ Holds(c, q))
  <2> SUFFICES ASSUME NEW c \in Bots, NEW q \in Rows, Holds(c, q)', ~(c = b /\ q \in T)
               PROVE  Holds(c, q)
    BY <1>3
  <2>1. CASE c = b
    BY <1>1, <2>1 DEF Holds
  <2>2. CASE c # b
    BY <1>1, <2>2 DEF Holds
  <2> QED BY <2>1, <2>2
<1>5. HeldIsFresh'
  <2> SUFFICES ASSUME NEW c \in Bots, NEW q \in Rows, Holds(c, q)'
               PROVE  /\ row'[q].claim = "fresh" /\ row'[q].queued /\ ~row'[q].sent /\ ~row'[q].failed
                      /\ \A d \in Bots : Holds(d, q)' => d = c
    BY DEF HeldIsFresh
  <2>1. CASE q \in S
    BY <1>2, <1>4, <2>1 DEF Claimable
  <2>2. CASE q \notin S
    BY <1>2, <1>4, <2>2 DEF Held, HeldIsFresh
  <2> QED BY <2>1, <2>2
<1>6. JobsAreLatest'
  <2> SUFFICES ASSUME NEW c \in Bots, NEW k \in jobs'[c]
               PROVE  /\ k.text = row'[k.row].text /\ k.mid = row'[k.row].mid
                      /\ doing[c].row # k.row
                      /\ \A i \in jobs'[c] : i.row = k.row => i = k
    BY DEF JobsAreLatest
  <2>1. CASE c = b
    <3>1. k.row \in T /\ k.text = row[k.row].text /\ k.mid = row[k.row].mid
      BY <1>1, <2>1
    <3>2. doing[c].row # k.row
      BY <1>3, <3>1 DEF Holds
    <3>3. \A i \in jobs'[c] : i.row = k.row => i = k
      BY <1>1, <2>1
    <3> QED BY <1>2, <3>1, <3>2, <3>3
  <2>2. CASE c # b
    <3>1. k \in jobs[c] /\ k.row \in Rows
      BY <1>1, <2>2, JobIsHeld
    <3> QED BY <1>1, <1>2, <2>2, <3>1 DEF Held, JobsAreLatest
  <2> QED BY <2>1, <2>2
<1> QED BY <1>5, <1>6 DEF Held

-----------------------------------------------------------------------------
(* What the channel shows.                                                 *)

\* Posting or patching a job leaves every other message as it was, and gives
\* the job's row its wording.
LEMMA WrittenShows ==
  ASSUME TypeOK, Held, Told, NEW b \in Bots, NEW j \in jobs[b], channel' = Written(j)
  PROVE  LET at == IF j.mid = 0 THEN Len(channel) + 1 ELSE j.mid IN
         /\ DOMAIN channel' = DOMAIN channel \cup {at}
         /\ channel'[at].row = j.row /\ channel'[at].text = j.text
         /\ \A m \in DOMAIN channel : /\ channel'[m].row = channel[m].row
                                      /\ m # at => channel'[m].text = channel[m].text
         /\ at \in DOMAIN channel => channel[at].row = j.row /\ row[j.row].mid = at
<1>0. channel \in Seq(Message)
  BY DEF TypeOK, Message
<1>1. CASE j.mid = 0
  BY <1>0, <1>1 DEF Written
<1>2. CASE j.mid # 0
  <2>1. row[j.row].mid = j.mid /\ j.mid \in DOMAIN channel /\ channel[j.mid].row = j.row
    BY <1>2, JobIsHeld DEF Held, JobsAreLatest, Told, IdsAreOwn
  <2>2. channel[j.mid] \in Message
    BY <1>0, <2>1
  <2>3. channel' = [channel EXCEPT ![j.mid] = [channel[j.mid] EXCEPT !.text = j.text]]
    BY <1>2 DEF Written
  <2>4. channel'[j.mid].text = j.text /\ channel'[j.mid].row = j.row
    BY <2>1, <2>2, <2>3 DEF Message
  <2> QED BY <1>0, <1>2, <2>1, <2>3, <2>4
<1> QED BY <1>1, <1>2

\* The part of the invariant that a step of Discord or of a run disturbs.
Shown == Told /\ NoneAhead /\ UnqueuedIsNew

\* A message written for a held row is the row's latest wording and no other
\* row's message.
LEMMA WrittenKeepsShown ==
  ASSUME TypeOK, Held, Shown, NEW b \in Bots, NEW j \in jobs[b], NEW ok \in BOOLEAN,
         channel' = Written(j),
         Answer(b, j, ok, IF j.mid = 0 THEN Len(channel) + 1 ELSE j.mid) \/ (~ok /\ Answer(b, j, ok, 0))
  PROVE  Shown'
<1> DEFINE at == IF j.mid = 0 THEN Len(channel) + 1 ELSE j.mid
<1>1. /\ row' = row /\ pc'[b] = "answered" /\ doing'[b].row = j.row /\ doing'[b].ok = ok
      /\ ok => doing'[b].mid = at
      /\ \A c \in Bots : c # b => doing'[c] = doing[c] /\ pc'[c] = pc[c]
  BY DEF Answer, TypeOK
<1>2. j.row \in Rows /\ j.text = row[j.row].text /\ Holds(b, j.row)
      /\ ~row[j.row].sent /\ row[j.row].queued /\ row[j.row].text \in 0..MaxEdits
  BY JobIsHeld DEF Held, JobsAreLatest, HeldIsFresh, TypeOK, OutboxRow
<1>3. /\ DOMAIN channel' = DOMAIN channel \cup {at}
      /\ channel'[at].row = j.row /\ channel'[at].text = j.text
      /\ \A m \in DOMAIN channel : /\ channel'[m].row = channel[m].row
                                   /\ m # at => channel'[m].text = channel[m].text
      /\ at \in DOMAIN channel => channel[at].row = j.row
  BY WrittenShows DEF Shown
<1> DEFINE now(m, q) == m \in DOMAIN channel' /\ channel'[m].row = q /\ channel'[m].text = row[q].text
<1> HIDE DEF at
<1>4. ASSUME NEW m, NEW q \in Rows, ShownAt(m, q), q # j.row PROVE now(m, q)
  BY <1>1, <1>3, <1>4 DEF ShownAt, Shows
<1>5. now(at, j.row)
  BY <1>1, <1>2, <1>3 DEF ShownAt, Shows
<1>6. IdsAreOwn'
  BY <1>1, <1>3 DEF Shown, Told, IdsAreOwn
<1>7. AnswersAreTrue'
  <2> SUFFICES ASSUME NEW c \in Bots, pc'[c] = "answered", doing'[c].ok
               PROVE  now(doing'[c].mid, doing'[c].row)
    BY <1>1 DEF AnswersAreTrue, ShownAt, Shows
  <2>1. CASE c = b
    BY <1>1, <1>5, <2>1
  <2>2. CASE c # b
    <3>1. ShownAt(doing[c].mid, doing[c].row)
      BY <1>1, <2>2 DEF Shown, Told, AnswersAreTrue
    <3>2. doing[c].row # j.row
      BY <1>2, <2>2 DEF Held, HeldIsFresh, Holds
    <3>3. doing[c].row \in Rows
      BY <3>1, ChannelType DEF ShownAt, Shows
    <3> QED BY <1>1, <1>4, <2>2, <3>1, <3>2, <3>3
  <2> QED BY <2>1, <2>2
<1>8. SentIsShown'
  <2> SUFFICES ASSUME NEW q \in Rows, row[q].sent PROVE now(row[q].mid, q)
    BY <1>1 DEF SentIsShown, Shows
  <2>1. ShownAt(row[q].mid, q) /\ q # j.row
    BY <1>2 DEF Shown, Told, SentIsShown, ShownAt
  <2> QED BY <1>1, <1>4, <2>1
<1>9. NoneAhead'
  <2> SUFFICES ASSUME NEW m \in DOMAIN channel'
               PROVE  /\ row[channel'[m].row].queued
                      /\ channel'[m].text <= row[channel'[m].row].text
    BY <1>1 DEF NoneAhead
  <2>1. CASE m = at
    BY <1>2, <1>3, <2>1
  <2>2. CASE m # at
    BY <1>3, <2>2 DEF Shown, NoneAhead
  <2> QED BY <2>1, <2>2
<1>10. UnqueuedIsNew'
  BY <1>1 DEF Shown, UnqueuedIsNew
<1> QED BY <1>6, <1>7, <1>8, <1>9, <1>10 DEF Shown, Told

\* A step that leaves the channel, the rows and the answers alone.
LEMMA QuietKeepsShown ==
  ASSUME TypeOK, Shown, UNCHANGED channel,
         \A q \in Rows : /\ row'[q].queued = row[q].queued /\ row'[q].text = row[q].text
                         /\ row'[q].sent = row[q].sent /\ row'[q].mid = row[q].mid
                         /\ ~row[q].queued => row'[q].failed = row[q].failed,
         \A b \in Bots : pc'[b] = "answered" /\ doing'[b].ok
                         => pc[b] = "answered" /\ doing[b].ok /\ doing'[b] = doing[b]
  PROVE  Shown'
<1>0. \A m \in DOMAIN channel : channel[m].row \in Rows
  BY ChannelType
<1>1. \A m, q : q \in Rows /\ ShownAt(m, q) => ShownAt(m, q)'
  BY DEF ShownAt, Shows
<1>2. IdsAreOwn'
  BY DEF Shown, Told, IdsAreOwn
<1>3. AnswersAreTrue'
  <2> SUFFICES ASSUME NEW c \in Bots, pc'[c] = "answered", doing'[c].ok
               PROVE  ShownAt(doing[c].mid, doing[c].row)'
    BY DEF AnswersAreTrue
  <2>1. ShownAt(doing[c].mid, doing[c].row) /\ doing'[c] = doing[c]
    BY DEF Shown, Told, AnswersAreTrue
  <2>2. doing[c].row \in Rows
    BY <1>0, <2>1 DEF ShownAt, Shows
  <2> QED BY <1>1, <2>1, <2>2
<1>4. SentIsShown'
  <2> SUFFICES ASSUME NEW q \in Rows, row[q].sent PROVE ShownAt(row[q].mid, q)'
    BY DEF SentIsShown, ShownAt
  <2> QED BY <1>1 DEF Shown, Told, SentIsShown, ShownAt
<1>5. NoneAhead'
  BY <1>0 DEF Shown, NoneAhead
<1>6. UnqueuedIsNew'
  BY DEF Shown, UnqueuedIsNew
<1> QED BY <1>2, <1>3, <1>4, <1>5, <1>6 DEF Shown, Told

-----------------------------------------------------------------------------
(* Every step keeps what is held held once, and what is told true.         *)

\* The console, a deletion in Discord and the ten minutes.
LEMMA TableStepKeeps ==
  ASSUME OutboxInv, MaxStalls = 0, NEW r \in Rows, Queue(r) \/ Edit(r) \/ Expire(r)
  PROVE  Held' /\ Shown' /\ stalls' = 0
<1>0. TypeOK /\ Held /\ Shown /\ stalls = 0 /\ row[r] \in OutboxRow
  BY DEF OutboxInv, Shown, TypeOK
<1>1. /\ \A b \in Bots : ~Holds(b, r)
      /\ stalls' = 0
  BY <1>0, NotHeld DEF Held, Queue, Edit, Expire, OutboxInv
<1>2. \A q \in Rows : q # r => row'[q] = row[q]
  BY <1>0 DEF Queue, Edit, Requeued, Expire, TypeOK
<1>3. UNCHANGED <<channel, pc, jobs, doing>>
  BY DEF Queue, Edit, Expire, rvars
<1>4. Held'
  BY <1>0, <1>1, <1>2, <1>3, TableKeepsHeld
<1>5. CASE Queue(r)
  <2>1. row'[r] = [row[r] EXCEPT !.queued = TRUE] /\ ~row[r].queued
    BY <1>0, <1>5 DEF Queue, TypeOK
  <2>2. IdsAreOwn' /\ SentIsShown' /\ UnqueuedIsNew'
    BY <1>0, <1>2, <1>3, <2>1 DEF Shown, Told, IdsAreOwn, SentIsShown, Shows, UnqueuedIsNew, OutboxRow
  <2>3. \A m \in DOMAIN channel : channel[m].row # r
    BY <1>0, <2>1 DEF Shown, NoneAhead
  <2>4. NoneAhead' /\ AnswersAreTrue'
    <3>1. NoneAhead'
      BY <1>0, <1>2, <1>3, <2>3, ChannelType DEF Shown, NoneAhead
    <3>2. AnswersAreTrue'
      <4> SUFFICES ASSUME NEW c \in Bots, pc[c] = "answered", doing[c].ok
                   PROVE  ShownAt(doing[c].mid, doing[c].row)'
        BY <1>3 DEF AnswersAreTrue
      <4>1. ShownAt(doing[c].mid, doing[c].row) /\ doing[c].row \in Rows /\ doing[c].row # r
        BY <1>0, <2>3, ChannelType DEF Shown, Told, AnswersAreTrue, ShownAt, Shows
      <4> QED BY <1>2, <1>3, <4>1 DEF ShownAt, Shows
    <3> QED BY <3>1, <3>2
  <2> QED BY <1>1, <1>4, <2>2, <2>4 DEF Shown, Told
<1>6. CASE Edit(r)
  <2>1. /\ row'[r].queued = row[r].queued /\ row'[r].text = row[r].text + 1
        /\ ~row'[r].sent /\ ~row'[r].failed /\ row'[r].mid = row[r].mid
    <3>1. row'[r] = [row[r] EXCEPT !.text = @ + 1, !.sent = FALSE, !.claim = "free",
                                   !.failed = FALSE, !.attempts = 0]
      BY <1>0, <1>6 DEF Edit, Requeued, TypeOK
    <3> QED BY <1>0, <3>1 DEF OutboxRow
  <2>2. IdsAreOwn' /\ SentIsShown' /\ UnqueuedIsNew'
    BY <1>0, <1>2, <1>3, <2>1 DEF Shown, Told, IdsAreOwn, SentIsShown, Shows, UnqueuedIsNew
  <2>3. NoneAhead'
    <3> SUFFICES ASSUME NEW m \in DOMAIN channel
                 PROVE  /\ row'[channel[m].row].queued
                        /\ channel[m].text <= row'[channel[m].row].text
      BY <1>3 DEF NoneAhead
    <3>1. row[channel[m].row].queued /\ channel[m].text <= row[channel[m].row].text
          /\ channel[m].row \in Rows /\ channel[m].text \in 0..MaxEdits /\ row[r].text \in 0..MaxEdits
      BY <1>0, ChannelType DEF Shown, NoneAhead, Message, OutboxRow
    <3>2. CASE channel[m].row = r
      BY <2>1, <3>1, <3>2
    <3>3. CASE channel[m].row # r
      BY <1>2, <3>1, <3>3
    <3> QED BY <3>2, <3>3
  <2>4. AnswersAreTrue'
    <3> SUFFICES ASSUME NEW c \in Bots, pc[c] = "answered", doing[c].ok
                 PROVE  ShownAt(doing[c].mid, doing[c].row)'
      BY <1>3 DEF AnswersAreTrue
    <3>1. ShownAt(doing[c].mid, doing[c].row) /\ doing[c].row \in Rows /\ doing[c].row # r
      BY <1>0, <1>1, ChannelType DEF Shown, Told, AnswersAreTrue, ShownAt, Shows, Holds
    <3> QED BY <1>2, <1>3, <3>1 DEF ShownAt, Shows
  <2> QED BY <1>1, <1>4, <2>2, <2>3, <2>4 DEF Shown, Told
<1>7. CASE Expire(r)
  <2>1. row'[r] = [row[r] EXCEPT !.claim = "stale"]
    BY <1>0, <1>7 DEF Expire, TypeOK
  <2>2. \A q \in Rows : /\ row'[q].queued = row[q].queued /\ row'[q].text = row[q].text
                        /\ row'[q].sent = row[q].sent /\ row'[q].mid = row[q].mid
                        /\ row'[q].failed = row[q].failed
    BY <1>0, <1>2, <2>1 DEF OutboxRow
  <2> QED BY <1>0, <1>1, <1>3, <1>4, <2>2, QuietKeepsShown
<1> QED BY <1>5, <1>6, <1>7

\* A message deleted in Discord still counts as said.
LEMMA RemoveKeeps ==
  ASSUME OutboxInv, NEW m \in DOMAIN channel, Remove(m)
  PROVE  Held' /\ Shown' /\ stalls' = 0
<1>1. /\ DOMAIN channel' = DOMAIN channel
      /\ \A k \in DOMAIN channel : channel'[k].row = channel[k].row /\ channel'[k].text = channel[k].text
  <2>1. \A k \in DOMAIN channel : channel'[k] = channel[k] \/ channel'[k] = [channel[k] EXCEPT !.gone = TRUE]
    BY DEF Remove
  <2>2. \A k \in DOMAIN channel : channel[k] \in Message
    BY ChannelType DEF OutboxInv
  <2> QED BY <2>1, <2>2 DEF Remove, Message
<1>2. UNCHANGED <<row, pc, jobs, doing, stalls>>
  BY DEF Remove, rvars
<1>3. Held'
  BY <1>2 DEF OutboxInv, Held, HeldIsFresh, JobsAreLatest, Holds
<1>4. Shown'
  BY <1>1, <1>2 DEF OutboxInv, Shown, Told, IdsAreOwn, AnswersAreTrue, SentIsShown, NoneAhead,
                    UnqueuedIsNew, ShownAt, Shows
<1> QED BY <1>2, <1>3, <1>4 DEF OutboxInv

\* A claim: what it does, with or without its answer arriving.
LEMMA ClaimKeeps ==
  ASSUME OutboxInv, NEW b \in Bots, NEW S \in SUBSET Rows, NEW T \in SUBSET S,
         \A r \in S : Claimable(r), row' = Claimed(S), Receive(b, T), UNCHANGED <<channel, doing>>
  PROVE  Held' /\ Shown'
<1>0. TypeOK /\ Held /\ Shown
  BY DEF OutboxInv, Shown
<1>1. Held'
  BY <1>0, ClaimKeepsHeld
<1>2. \A q \in Rows : /\ row'[q].queued = row[q].queued /\ row'[q].text = row[q].text
                      /\ row'[q].sent = row[q].sent /\ row'[q].mid = row[q].mid
                      /\ row'[q].failed = row[q].failed
  <2> TAKE q \in Rows
  <2>1. row[q] \in OutboxRow /\ row'[q] = IF q \in S THEN [row[q] EXCEPT !.claim = "fresh"] ELSE row[q]
    BY <1>0 DEF Claimed, TypeOK
  <2> QED BY <2>1 DEF OutboxRow
<1>3. \A c \in Bots : pc'[c] = "answered" => pc[c] = "answered"
  BY <1>0 DEF Receive, TypeOK
<1>4. Shown'
  BY <1>0, <1>2, <1>3, QuietKeepsShown
<1> QED BY <1>1, <1>4

\* A write-back that arrives settles a row that nobody else holds.
LEMMA RecordKeeps ==
  ASSUME OutboxInv, NEW b \in Bots, RecordSent(b) \/ RecordFailed(b)
  PROVE  Held' /\ Shown'
<1> DEFINE r == doing[b].row
<1>0. TypeOK /\ Held /\ Shown /\ NextJob(b) /\ r \in Rows /\ row[r] \in OutboxRow
  BY DEF OutboxInv, Shown, RecordSent, RecordFailed, Busy, TypeOK
<1>1. \A q \in Rows : q # r => row'[q] = row[q]
  BY <1>0 DEF RecordSent, RecordFailed, TypeOK
<1>2. Held'
  BY <1>0, <1>1, LetGoKeepsHeld
<1>3. ~row[r].sent /\ row[r].queued
  BY <1>0 DEF Held, HeldIsFresh, Holds
<1>4. /\ UNCHANGED channel
      /\ \A c \in Bots : pc'[c] = "answered" => c # b /\ pc[c] = "answered" /\ doing'[c] = doing[c]
  BY <1>0 DEF NextJob, TypeOK
<1>5. CASE RecordSent(b)
  <2>1. ShownAt(doing[b].mid, r)
    BY <1>0, <1>5 DEF RecordSent, Shown, Told, AnswersAreTrue
  <2>2. row'[r] = [row[r] EXCEPT !.sent = TRUE, !.mid = doing[b].mid]
    BY <1>0, <1>3, <1>5 DEF RecordSent, TypeOK
  <2>3. /\ row'[r].queued /\ row'[r].queued = row[r].queued /\ row'[r].text = row[r].text
        /\ row'[r].mid = doing[b].mid
    BY <1>0, <1>3, <2>2 DEF OutboxRow
  <2>4. IdsAreOwn' /\ SentIsShown' /\ UnqueuedIsNew'
    <3> HIDE DEF r
    <3> QED BY <1>0, <1>1, <1>4, <2>1, <2>3
            DEF Shown, Told, IdsAreOwn, SentIsShown, Shows, ShownAt, UnqueuedIsNew
  <2>5. \A q \in Rows : row'[q].queued = row[q].queued /\ row'[q].text = row[q].text
    BY <1>1, <1>3, <2>3
  <2>6. NoneAhead'
    BY <1>0, <1>4, <2>5, ChannelType DEF Shown, NoneAhead
  <2>7. AnswersAreTrue'
    <3> SUFFICES ASSUME NEW c \in Bots, pc'[c] = "answered", doing'[c].ok
                 PROVE  ShownAt(doing[c].mid, doing[c].row)'
      BY DEF AnswersAreTrue
    <3>1. ShownAt(doing[c].mid, doing[c].row) /\ doing'[c] = doing[c]
      BY <1>0, <1>4 DEF Shown, Told, AnswersAreTrue
    <3>2. doing[c].row \in Rows
      BY <1>0, <3>1, ChannelType DEF ShownAt, Shows
    <3> QED BY <1>4, <2>5, <3>1, <3>2 DEF ShownAt, Shows
  <2> QED BY <1>2, <2>4, <2>6, <2>7 DEF Shown, Told
<1>6. CASE RecordFailed(b)
  <2> DEFINE spent == doing[b].seen + 1
  <2>1. row'[r] = [row[r] EXCEPT !.attempts = spent, !.claim = "free",
                                 !.failed = @ \/ spent >= MaxAttempts]
    BY <1>0, <1>3, <1>6 DEF RecordFailed, TypeOK
  <2>2. /\ row'[r].queued = row[r].queued /\ row'[r].text = row[r].text
        /\ row'[r].sent = row[r].sent /\ row'[r].mid = row[r].mid
    BY <1>0, <2>1 DEF OutboxRow
  <2> HIDE DEF spent, r
  <2>3. Shown'
    BY <1>0, <1>1, <1>3, <1>4, <2>2, QuietKeepsShown
  <2> QED BY <1>2, <2>3
<1> QED BY <1>5, <1>6

\* What a run does when nothing goes wrong.
LEMMA WorkKeeps ==
  ASSUME OutboxInv, NEW b \in Bots, Work(b)
  PROVE  Held' /\ Shown' /\ stalls' = 0
<1>0. TypeOK /\ Held /\ Shown /\ stalls = 0
  BY DEF OutboxInv, Shown
<1>1. CASE Read(b)
  <2>1. Held'
    BY <1>0, <1>1 DEF Read, Held, HeldIsFresh, JobsAreLatest, Holds
  <2>2. \A c \in Bots : pc'[c] = "answered" => pc[c] = "answered"
    BY <1>0, <1>1 DEF Read, TypeOK
  <2>3. UNCHANGED <<row, channel, doing, stalls>>
    BY <1>1 DEF Read
  <2>4. Shown'
    BY <1>0, <2>2, <2>3, QuietKeepsShown
  <2> QED BY <1>0, <2>1, <2>3, <2>4
<1>2. CASE Claim(b)
  <2> DEFINE S == {r \in cands[b] : Claimable(r)}
  <2>1. S \in SUBSET Rows /\ \A r \in S : Claimable(r)
    BY <1>0 DEF TypeOK
  <2>2. row' = Claimed(S) /\ Receive(b, S) /\ UNCHANGED <<channel, doing, stalls>>
    BY <1>2 DEF Claim
  <2> HIDE DEF S
  <2> QED BY <1>0, <2>1, <2>2, ClaimKeeps
<1>3. ASSUME NEW j \in jobs[b], Accepted(b, j) PROVE Held' /\ Shown' /\ stalls' = 0
  <2> DEFINE at == IF j.mid = 0 THEN Len(channel) + 1 ELSE j.mid
  <2>1. channel' = Written(j) /\ Answer(b, j, TRUE, at) /\ stalls' = stalls
    BY <1>3 DEF Accepted, Answer
  <2>2. Held'
    BY <1>0, <2>1, AnswerKeepsHeld
  <2>3. Shown'
    BY <1>0, <2>1, WrittenKeepsShown
  <2> QED BY <1>0, <2>1, <2>2, <2>3
<1>4. ASSUME NEW j \in jobs[b], Refused(b, j) PROVE Held' /\ Shown' /\ stalls' = 0
  <2>1. UNCHANGED <<row, channel, stalls>> /\ Answer(b, j, FALSE, 0)
    BY <1>4 DEF Refused, Answer
  <2>2. Held'
    BY <1>0, <2>1, AnswerKeepsHeld
  <2>3. \A c \in Bots : pc'[c] = "answered" /\ doing'[c].ok
                        => pc[c] = "answered" /\ doing'[c] = doing[c]
    BY <1>0, <2>1 DEF Answer, TypeOK
  <2>4. Shown'
    BY <1>0, <2>1, <2>3, QuietKeepsShown
  <2> QED BY <1>0, <2>1, <2>2, <2>4
<1>5. CASE ReadAttempts(b)
  <2>1. /\ UNCHANGED <<row, channel, jobs, stalls>>
        /\ \A c \in Bots : doing'[c].row = doing[c].row
        /\ \A c \in Bots : pc'[c] = "answered" => pc[c] = "answered" /\ doing'[c] = doing[c]
    BY <1>0, <1>5 DEF ReadAttempts, TypeOK
  <2>2. Held'
    BY <1>0, <2>1 DEF Held, HeldIsFresh, JobsAreLatest, Holds
  <2>3. Shown'
    BY <1>0, <2>1, QuietKeepsShown
  <2> QED BY <1>0, <2>1, <2>2, <2>3
<1>6. CASE RecordSent(b) \/ RecordFailed(b)
  BY <1>0, <1>6, RecordKeeps DEF RecordSent, RecordFailed
<1> QED BY <1>1, <1>2, <1>3, <1>4, <1>5, <1>6 DEF Work

\* Lost calls and crashes.
LEMMA TroubleKeeps ==
  ASSUME OutboxInv, NEW b \in Bots, Trouble(b)
  PROVE  Held' /\ Shown' /\ stalls' = 0
<1>0. TypeOK /\ Held /\ Shown /\ stalls = 0
  BY DEF OutboxInv, Shown
<1>1. CASE ClaimLost(b)
  <2> DEFINE S == {r \in cands[b] : Claimable(r)}
  <2>1. S \in SUBSET Rows /\ \A r \in S : Claimable(r)
    BY <1>0 DEF TypeOK
  <2>2. row' = Claimed(S) /\ Receive(b, {}) /\ UNCHANGED <<channel, doing, stalls>>
    BY <1>1 DEF ClaimLost
  <2> HIDE DEF S
  <2> QED BY <1>0, <2>1, <2>2, ClaimKeeps
<1>2. ASSUME NEW j \in jobs[b], AnswerLost(b, j) PROVE Held' /\ Shown' /\ stalls' = 0
  <2>1. channel' = Written(j) /\ Answer(b, j, FALSE, 0) /\ stalls' = stalls
    BY <1>2 DEF AnswerLost, Answer
  <2>2. Held'
    BY <1>0, <2>1, AnswerKeepsHeld
  <2>3. Shown'
    BY <1>0, <2>1, WrittenKeepsShown
  <2> QED BY <1>0, <2>1, <2>2, <2>3
<1>3. CASE RecordLost(b)
  <2>1. NextJob(b) /\ UNCHANGED <<row, channel, stalls>>
    BY <1>3 DEF RecordLost, NextJob
  <2>2. Held'
    BY <1>0, <2>1, LetGoKeepsHeld
  <2>3. \A c \in Bots : pc'[c] = "answered" => pc[c] = "answered" /\ doing'[c] = doing[c]
    BY <1>0, <2>1 DEF NextJob, TypeOK
  <2>4. Shown'
    BY <1>0, <2>1, <2>3, QuietKeepsShown
  <2> QED BY <1>0, <2>1, <2>2, <2>4
<1>4. CASE Crash(b)
  <2>1. /\ UNCHANGED <<row, channel, stalls>>
        /\ jobs'[b] = {} /\ doing'[b].row = 0 /\ pc'[b] = "idle"
        /\ \A c \in Bots : c # b => jobs'[c] = jobs[c] /\ doing'[c] = doing[c] /\ pc'[c] = pc[c]
    BY <1>0, <1>4 DEF Crash, NoAnswer, TypeOK
  <2>2. \A c \in Bots, q \in Rows : Holds(c, q)' => Holds(c, q)
    <3> SUFFICES ASSUME NEW c \in Bots, NEW q \in Rows, Holds(c, q)' PROVE c # b
      BY <2>1 DEF Holds
    <3> QED BY <2>1 DEF Holds, Rows
  <2>3. HeldIsFresh'
    BY <1>0, <2>1, <2>2 DEF Held, HeldIsFresh
  <2>4. JobsAreLatest'
    BY <1>0, <2>1 DEF Held, JobsAreLatest
  <2>5. Shown'
    BY <1>0, <2>1, QuietKeepsShown
  <2> QED BY <1>0, <2>1, <2>3, <2>4, <2>5 DEF Held
<1> QED BY <1>1, <1>2, <1>3, <1>4 DEF Trouble

-----------------------------------------------------------------------------
(* The theorems.                                                           *)

\* Without stalls every step keeps the invariant.
LEMMA OutboxStep ==
  ASSUME MaxStalls = 0, OutboxInv, [Next]_vars
  PROVE  OutboxInv'
<1>1. (TypeOK /\ Busy)'
  BY NextType DEF OutboxInv
<1>2. Held' /\ Shown' /\ stalls' = 0
  <2>1. CASE UNCHANGED vars
    <3>1. UNCHANGED <<row, channel, pc, jobs, doing, stalls>>
      BY <2>1 DEF vars, rvars
    <3>2. Held'
      BY <3>1 DEF OutboxInv, Held, HeldIsFresh, JobsAreLatest, Holds
    <3>3. Shown'
      BY <3>1, QuietKeepsShown DEF OutboxInv, Shown
    <3> QED BY <3>1, <3>2, <3>3 DEF OutboxInv
  <2> QED BY <2>1, TableStepKeeps, RemoveKeeps, WorkKeeps, TroubleKeeps DEF Next
<1> QED BY <1>1, <1>2 DEF OutboxInv, Shown

\* An empty outbox has the invariant.
LEMMA OutboxStart == Init => OutboxInv
<1> SUFFICES ASSUME Init PROVE OutboxInv
  OBVIOUS
<1>1. TypeOK /\ Busy
  BY InitType
<1>2. /\ \A r \in Rows : row[r].mid = 0 /\ ~row[r].sent /\ ~row[r].failed
      /\ DOMAIN channel = {} /\ stalls = 0
      /\ \A b \in Bots : pc[b] = "idle" /\ jobs[b] = {} /\ doing[b].row = 0
  BY DEF Init, NoAnswer
<1>3. \A b \in Bots, r \in Rows : ~Holds(b, r)
  BY <1>2 DEF Holds, Rows
<1>4. Held
  BY <1>2, <1>3 DEF Held, HeldIsFresh, JobsAreLatest
<1>5. Told /\ NoneAhead /\ UnqueuedIsNew
  BY <1>2 DEF Told, IdsAreOwn, AnswersAreTrue, SentIsShown, NoneAhead, UnqueuedIsNew
<1> QED BY <1>1, <1>2, <1>4, <1>5 DEF OutboxInv

\* Without stalls the invariant holds for ever.
LEMMA OutboxInvariant ==
  ASSUME MaxStalls = 0
  PROVE  Spec => []OutboxInv
<1>1. OutboxInv /\ [Next]_vars => OutboxInv'
  BY OutboxStep
<1> QED BY <1>1, OutboxStart, PTL DEF Spec

\* As long as no claim runs out under the run that holds it, a message reported
\* as sent is in the channel in its latest wording, whatever crashes, loses
\* calls, overlaps or is corrected meanwhile.
THEOREM SentMessagesAreShown ==
  ASSUME MaxStalls = 0
  PROVE  Spec => []SentIsShown
<1>1. OutboxInv => SentIsShown
  BY DEF OutboxInv, Told
<1> QED BY <1>1, OutboxInvariant, PTL

-----------------------------------------------------------------------------
(* The outbox implements the promise made of each message.                 *)

\* A step that moves the promise of row r at most moves no other.
LEMMA OthersAreKept ==
  ASSUME NEW r \in Rows, \A q \in Rows : q # r => PromiseOf(q)' = PromiseOf(q)
  PROVE  [q \in Rows |-> PromiseOf(q)'] = [[q \in Rows |-> PromiseOf(q)] EXCEPT ![r] = PromiseOf(r)']
  OBVIOUS

\* The messages of a row that no step of another row touches show it as before.
LEMMA SamePromise ==
  ASSUME OutboxInv, NEW q \in Rows,
         /\ row'[q].queued = row[q].queued /\ row'[q].sent = row[q].sent
         /\ row'[q].failed = row[q].failed /\ row'[q].text = row[q].text,
         \A m \in DOMAIN channel' : channel'[m].row = q => m \in DOMAIN channel,
         \A m \in DOMAIN channel : /\ m \in DOMAIN channel' /\ channel'[m].row = channel[m].row
                                   /\ channel[m].row = q => channel'[m].text = channel[m].text
  PROVE  PromiseOf(q)' = PromiseOf(q)
<1>1. (\E m \in DOMAIN channel : Shows(m, q))' <=> \E m \in DOMAIN channel : Shows(m, q)
  BY DEF Shows
<1> QED BY <1>1 DEF PromiseOf

\* What a written job makes of the promises: its row is shown.
LEMMA WrittenPromise ==
  ASSUME OutboxInv, NEW b \in Bots, NEW j \in jobs[b], channel' = Written(j), UNCHANGED row
  PROVE  /\ j.row \in Rows /\ PromiseOf(j.row) \in {"pending", "shown"} /\ PromiseOf(j.row)' = "shown"
         /\ \A q \in Rows : q # j.row => PromiseOf(q)' = PromiseOf(q)
<1> DEFINE at == IF j.mid = 0 THEN Len(channel) + 1 ELSE j.mid
<1>1. /\ DOMAIN channel' = DOMAIN channel \cup {at}
      /\ channel'[at].row = j.row /\ channel'[at].text = j.text
      /\ \A m \in DOMAIN channel : /\ channel'[m].row = channel[m].row
                                   /\ m # at => channel'[m].text = channel[m].text
      /\ at \in DOMAIN channel => channel[at].row = j.row
  BY WrittenShows DEF OutboxInv
<1>2. j.row \in Rows /\ j.text = row[j.row].text
      /\ row[j.row].queued /\ ~row[j.row].sent /\ ~row[j.row].failed
  BY JobIsHeld DEF OutboxInv, Held, JobsAreLatest, HeldIsFresh
<1> HIDE DEF at
<1>3. PromiseOf(j.row) \in {"pending", "shown"}
  BY <1>2 DEF PromiseOf
<1>4. (\E m \in DOMAIN channel : Shows(m, j.row))'
  BY <1>1, <1>2 DEF Shows
<1>5. PromiseOf(j.row)' = "shown"
  BY <1>2, <1>4 DEF PromiseOf
<1>6. ASSUME NEW q \in Rows, q # j.row PROVE PromiseOf(q)' = PromiseOf(q)
  <2>1. \A m \in DOMAIN channel' : channel'[m].row = q => m \in DOMAIN channel
    BY <1>1, <1>6
  <2>2. \A m \in DOMAIN channel : /\ m \in DOMAIN channel' /\ channel'[m].row = channel[m].row
                                  /\ channel[m].row = q => channel'[m].text = channel[m].text
    BY <1>1, <1>6
  <2> QED BY <2>1, <2>2, SamePromise
<1> QED BY <1>2, <1>3, <1>5, <1>6

\* What a correction or a new row makes of the promises: its row is pending.
LEMMA TablePromise ==
  ASSUME OutboxInv, NEW r \in Rows, Queue(r) \/ Edit(r)
  PROVE  /\ PromiseOf(r)' = "pending"
         /\ Queue(r) => PromiseOf(r) = "none"
         /\ Edit(r) => PromiseOf(r) \in {"pending", "shown", "sent", "failed"}
         /\ \A q \in Rows : q # r => PromiseOf(q)' = PromiseOf(q)
<1>0. TypeOK /\ row[r] \in OutboxRow /\ NoneAhead
  BY DEF OutboxInv, TypeOK
<1>1. UNCHANGED channel /\ \A q \in Rows : q # r => row'[q] = row[q]
  BY <1>0 DEF Queue, Edit, Requeued, TypeOK
<1>2. \A q \in Rows : q # r => PromiseOf(q)' = PromiseOf(q)
  BY <1>1, SamePromise
<1>3. CASE Queue(r)
  <2>1. row'[r] = [row[r] EXCEPT !.queued = TRUE] /\ ~row[r].queued
    BY <1>0, <1>3 DEF Queue, TypeOK
  <2>2. row'[r].queued /\ ~row'[r].sent /\ ~row'[r].failed
    BY <1>0, <2>1 DEF OutboxInv, UnqueuedIsNew, OutboxRow
  <2>3. \A m \in DOMAIN channel : channel[m].row # r
    BY <1>0, <2>1 DEF NoneAhead
  <2>4. ~(\E m \in DOMAIN channel : Shows(m, r))'
    BY <1>1, <2>3 DEF Shows
  <2>5. ~Edit(r)
    BY <2>1, <2>3 DEF Edit, OutboxInv, Told, IdsAreOwn
  <2>6. PromiseOf(r) = "none" /\ PromiseOf(r)' = "pending"
    BY <2>1, <2>2, <2>4 DEF PromiseOf
  <2> QED BY <1>2, <2>5, <2>6
<1>4. CASE Edit(r)
  <2>1. row'[r] = [row[r] EXCEPT !.text = @ + 1, !.sent = FALSE, !.claim = "free",
                                 !.failed = FALSE, !.attempts = 0]
    BY <1>0, <1>4 DEF Edit, Requeued, TypeOK
  <2>2. row'[r].queued = row[r].queued /\ ~row'[r].sent /\ ~row'[r].failed
        /\ row'[r].text = row[r].text + 1
    BY <1>0, <2>1 DEF OutboxRow
  <2>3. row[r].queued
    BY <1>0, <1>4 DEF Edit, OutboxInv, Told, IdsAreOwn, NoneAhead
  <2>4. ASSUME NEW m \in DOMAIN channel PROVE ~Shows(m, r)'
    <3>1. channel[m].text \in 0..MaxEdits /\ row[r].text \in 0..MaxEdits
      BY <1>0, ChannelType DEF Message, OutboxRow
    <3>2. channel[m].row = r => channel[m].text <= row[r].text
      BY <1>0 DEF NoneAhead
    <3> QED BY <1>1, <2>2, <3>1, <3>2 DEF Shows
  <2>5. PromiseOf(r)' = "pending"
    BY <1>1, <2>2, <2>3, <2>4 DEF PromiseOf
  <2>6. ~Queue(r) /\ PromiseOf(r) \in {"pending", "shown", "sent", "failed"}
    BY <2>3 DEF Queue, PromiseOf
  <2> QED BY <1>2, <2>5, <2>6
<1> QED BY <1>3, <1>4

\* What a write-back makes of the promises: its row is sent, or given up.
LEMMA RecordPromise ==
  ASSUME OutboxInv, NEW b \in Bots, RecordSent(b) \/ RecordFailed(b),
         NEW r \in Rows, r = doing[b].row
  PROVE  /\ \A q \in Rows : q # r => PromiseOf(q)' = PromiseOf(q)
         /\ \/ PromiseOf(r) = "shown" /\ PromiseOf(r)' = "sent"
            \/ PromiseOf(r) \in {"pending", "shown"} /\ PromiseOf(r)' = "failed"
            \/ PromiseOf(r)' = PromiseOf(r)
<1>0. TypeOK /\ row[r] \in OutboxRow /\ UNCHANGED channel
  BY DEF OutboxInv, RecordSent, RecordFailed, Busy, TypeOK, NextJob
<1>1. \A q \in Rows : q # r => row'[q] = row[q]
  BY <1>0 DEF RecordSent, RecordFailed, TypeOK
<1>2. \A q \in Rows : q # r => PromiseOf(q)' = PromiseOf(q)
  BY <1>0, <1>1, SamePromise
<1>3. ~row[r].sent /\ row[r].queued /\ ~row[r].failed
  BY <1>0 DEF OutboxInv, Held, HeldIsFresh, Holds
<1>4. CASE RecordSent(b)
  <2>1. \E m \in DOMAIN channel : Shows(m, r)
    BY <1>4 DEF RecordSent, OutboxInv, Told, AnswersAreTrue, ShownAt
  <2>2. row'[r] = [row[r] EXCEPT !.sent = TRUE, !.mid = doing[b].mid]
    BY <1>0, <1>3, <1>4 DEF RecordSent, TypeOK
  <2>3. row'[r].queued /\ row'[r].sent
    BY <1>0, <1>3, <2>2 DEF OutboxRow
  <2>4. PromiseOf(r) = "shown" /\ PromiseOf(r)' = "sent"
    BY <1>3, <2>1, <2>3 DEF PromiseOf
  <2> QED BY <1>2, <2>4
<1>5. CASE RecordFailed(b)
  <2> DEFINE spent == doing[b].seen + 1
  <2>1. row'[r] = [row[r] EXCEPT !.attempts = spent, !.claim = "free",
                                 !.failed = @ \/ spent >= MaxAttempts]
    BY <1>0, <1>3, <1>5 DEF RecordFailed, TypeOK
  <2>2. row'[r].queued = row[r].queued /\ row'[r].text = row[r].text /\ row'[r].sent = row[r].sent
    BY <1>0, <2>1 DEF OutboxRow
  <2>3. PromiseOf(r) \in {"pending", "shown"}
    BY <1>3 DEF PromiseOf
  <2>4. PromiseOf(r)' = "failed" \/ PromiseOf(r)' = PromiseOf(r)
    <3>1. CASE row'[r].failed
      BY <1>3, <2>2, <3>1 DEF PromiseOf
    <3>2. CASE ~row'[r].failed
      BY <1>0, <1>3, <2>2, <3>2 DEF PromiseOf, Shows
    <3> QED BY <3>1, <3>2
  <2> QED BY <1>2, <2>3, <2>4
<1> QED BY <1>4, <1>5

\* Every other step of a run leaves every promise as it is.
LEMMA QuietPromise ==
  ASSUME OutboxInv, NEW q \in Rows,
         /\ row'[q].queued = row[q].queued /\ row'[q].sent = row[q].sent
         /\ row'[q].failed = row[q].failed /\ row'[q].text = row[q].text,
         UNCHANGED channel
  PROVE  PromiseOf(q)' = PromiseOf(q)
  BY SamePromise

\* What a run's step does to the promises.
LEMMA RunPromise ==
  ASSUME OutboxInv, NEW b \in Bots, Work(b) \/ Trouble(b)
  PROVE  \/ \A q \in Rows : PromiseOf(q)' = PromiseOf(q)
         \/ \E r \in Rows :
              /\ \A q \in Rows : q # r => PromiseOf(q)' = PromiseOf(q)
              /\ \/ PromiseOf(r) \in {"pending", "shown"} /\ PromiseOf(r)' = "shown"
                 \/ PromiseOf(r) = "shown" /\ PromiseOf(r)' = "sent"
                 \/ PromiseOf(r) \in {"pending", "shown"} /\ PromiseOf(r)' = "failed"
                 \/ PromiseOf(r)' = PromiseOf(r)
<1>0. TypeOK /\ Busy
  BY DEF OutboxInv
<1>1. ASSUME UNCHANGED <<row, channel>> PROVE \A q \in Rows : PromiseOf(q)' = PromiseOf(q)
  BY <1>1, QuietPromise
<1>2. ASSUME NEW S, row' = Claimed(S), UNCHANGED channel
      PROVE  \A q \in Rows : PromiseOf(q)' = PromiseOf(q)
  <2> TAKE q \in Rows
  <2>1. row[q] \in OutboxRow /\ row'[q] = IF q \in S THEN [row[q] EXCEPT !.claim = "fresh"] ELSE row[q]
    BY <1>0, <1>2 DEF Claimed, TypeOK
  <2>2. /\ row'[q].queued = row[q].queued /\ row'[q].sent = row[q].sent
        /\ row'[q].failed = row[q].failed /\ row'[q].text = row[q].text
    BY <2>1 DEF OutboxRow
  <2> QED BY <1>2, <2>2, QuietPromise
<1>3. CASE Read(b) \/ ReadAttempts(b) \/ RecordLost(b) \/ Crash(b)
  BY <1>1, <1>3 DEF Read, ReadAttempts, RecordLost, NextJob, Crash
<1>4. CASE Claim(b) \/ ClaimLost(b)
  BY <1>2, <1>4 DEF Claim, ClaimLost
<1>5. ASSUME NEW j \in jobs[b], Refused(b, j) PROVE \A q \in Rows : PromiseOf(q)' = PromiseOf(q)
  BY <1>1, <1>5 DEF Refused, Answer
<1>6. ASSUME NEW j \in jobs[b], Accepted(b, j) \/ AnswerLost(b, j)
      PROVE  /\ j.row \in Rows /\ PromiseOf(j.row) \in {"pending", "shown"} /\ PromiseOf(j.row)' = "shown"
             /\ \A q \in Rows : q # j.row => PromiseOf(q)' = PromiseOf(q)
  <2>1. channel' = Written(j) /\ UNCHANGED row
    BY <1>6 DEF Accepted, AnswerLost, Answer
  <2> QED BY <2>1, WrittenPromise
<1>7. ASSUME RecordSent(b) \/ RecordFailed(b)
      PROVE  \E r \in Rows :
               /\ \A q \in Rows : q # r => PromiseOf(q)' = PromiseOf(q)
               /\ \/ PromiseOf(r) = "shown" /\ PromiseOf(r)' = "sent"
                  \/ PromiseOf(r) \in {"pending", "shown"} /\ PromiseOf(r)' = "failed"
                  \/ PromiseOf(r)' = PromiseOf(r)
  <2>1. PICK r \in Rows : r = doing[b].row
    BY <1>0, <1>7 DEF RecordSent, RecordFailed, Busy
  <2> WITNESS r \in Rows
  <2> QED BY <1>7, <2>1, RecordPromise
<1> QED BY <1>3, <1>4, <1>5, <1>6, <1>7 DEF Work, Trouble

\* What a step does to the promises.
LEMMA StepPromise ==
  ASSUME OutboxInv, [Next]_vars
  PROVE  \/ \A q \in Rows : PromiseOf(q)' = PromiseOf(q)
         \/ \E r \in Rows :
              /\ \A q \in Rows : q # r => PromiseOf(q)' = PromiseOf(q)
              /\ \/ PromiseOf(r) = "none" /\ PromiseOf(r)' = "pending"
                 \/ PromiseOf(r) \in {"pending", "shown"} /\ PromiseOf(r)' = "shown"
                 \/ PromiseOf(r) = "shown" /\ PromiseOf(r)' = "sent"
                 \/ PromiseOf(r) \in {"pending", "shown"} /\ PromiseOf(r)' = "failed"
                 \/ PromiseOf(r) \in {"pending", "shown", "sent", "failed"} /\ PromiseOf(r)' = "pending"
                 \/ PromiseOf(r)' = PromiseOf(r)
<1>0. TypeOK
  BY DEF OutboxInv
<1>1. ASSUME NEW r \in Rows, Queue(r) \/ Edit(r)
      PROVE  /\ \A q \in Rows : q # r => PromiseOf(q)' = PromiseOf(q)
             /\ \/ PromiseOf(r) = "none" /\ PromiseOf(r)' = "pending"
                \/ PromiseOf(r) \in {"pending", "shown", "sent", "failed"} /\ PromiseOf(r)' = "pending"
  BY <1>1, TablePromise
<1>2. ASSUME NEW r \in Rows, Expire(r) PROVE \A q \in Rows : PromiseOf(q)' = PromiseOf(q)
  <2> TAKE q \in Rows
  <2>1. row[q] \in OutboxRow /\ row'[q] \in {row[q], [row[q] EXCEPT !.claim = "stale"]} /\ UNCHANGED channel
    BY <1>0, <1>2 DEF Expire, TypeOK
  <2>2. /\ row'[q].queued = row[q].queued /\ row'[q].sent = row[q].sent
        /\ row'[q].failed = row[q].failed /\ row'[q].text = row[q].text
    BY <2>1 DEF OutboxRow
  <2> QED BY <2>1, <2>2, QuietPromise
<1>3. ASSUME NEW m \in DOMAIN channel, Remove(m) PROVE \A q \in Rows : PromiseOf(q)' = PromiseOf(q)
  <2> TAKE q \in Rows
  <2>1. \A k \in DOMAIN channel : channel[k] \in Message
                                  /\ channel'[k] \in {channel[k], [channel[k] EXCEPT !.gone = TRUE]}
    BY <1>0, <1>3, ChannelType DEF Remove
  <2>2. /\ DOMAIN channel' = DOMAIN channel /\ UNCHANGED row
        /\ \A k \in DOMAIN channel : channel'[k].row = channel[k].row /\ channel'[k].text = channel[k].text
    BY <1>3, <2>1 DEF Remove, Message
  <2> QED BY <2>2, SamePromise
<1>4. ASSUME UNCHANGED vars PROVE \A q \in Rows : PromiseOf(q)' = PromiseOf(q)
  BY <1>4, QuietPromise DEF vars
<1>5. ASSUME NEW r \in Rows, Queue(r) \/ Edit(r) \/ Expire(r)
      PROVE  \/ \A q \in Rows : PromiseOf(q)' = PromiseOf(q)
             \/ /\ \A q \in Rows : q # r => PromiseOf(q)' = PromiseOf(q)
                /\ \/ PromiseOf(r) = "none" /\ PromiseOf(r)' = "pending"
                   \/ PromiseOf(r) \in {"pending", "shown", "sent", "failed"} /\ PromiseOf(r)' = "pending"
  BY <1>1, <1>2, <1>5
<1>6. CASE \E r \in Rows : Queue(r) \/ Edit(r) \/ Expire(r)
  <2>1. PICK r \in Rows : Queue(r) \/ Edit(r) \/ Expire(r)
    BY <1>6
  <2> QED BY <1>5, <2>1
<1>7. CASE \E b \in Bots : Work(b) \/ Trouble(b)
  <2>1. PICK b \in Bots : Work(b) \/ Trouble(b)
    BY <1>7
  <2> HIDE <1>7
  <2>2. CASE \A q \in Rows : PromiseOf(q)' = PromiseOf(q)
    BY <2>2
  <2>3. CASE ~\A q \in Rows : PromiseOf(q)' = PromiseOf(q)
    <3>1. PICK r \in Rows :
              /\ \A q \in Rows : q # r => PromiseOf(q)' = PromiseOf(q)
              /\ \/ PromiseOf(r) \in {"pending", "shown"} /\ PromiseOf(r)' = "shown"
                 \/ PromiseOf(r) = "shown" /\ PromiseOf(r)' = "sent"
                 \/ PromiseOf(r) \in {"pending", "shown"} /\ PromiseOf(r)' = "failed"
                 \/ PromiseOf(r)' = PromiseOf(r)
      BY <2>1, <2>3, RunPromise
    <3> QED BY <3>1
  <2> QED BY <2>2, <2>3
<1> QED BY <1>3, <1>4, <1>6, <1>7 DEF Next

\* Each step of the outbox is a step of the promise, or none.
LEMMA PromiseStep ==
  OutboxInv /\ [Next]_vars => [Promise!PromiseNext]_[r \in Rows |-> PromiseOf(r)]
<1> SUFFICES ASSUME OutboxInv, [Next]_vars
             PROVE  [Promise!PromiseNext]_[r \in Rows |-> PromiseOf(r)]
  OBVIOUS
<1> DEFINE old == [q \in Rows |-> PromiseOf(q)]
           new == [q \in Rows |-> PromiseOf(q)']
<1>1. CASE \A q \in Rows : PromiseOf(q)' = PromiseOf(q)
  BY <1>1
<1>2. CASE \E r \in Rows :
              /\ \A q \in Rows : q # r => PromiseOf(q)' = PromiseOf(q)
              /\ \/ PromiseOf(r) = "none" /\ PromiseOf(r)' = "pending"
                 \/ PromiseOf(r) \in {"pending", "shown"} /\ PromiseOf(r)' = "shown"
                 \/ PromiseOf(r) = "shown" /\ PromiseOf(r)' = "sent"
                 \/ PromiseOf(r) \in {"pending", "shown"} /\ PromiseOf(r)' = "failed"
                 \/ PromiseOf(r) \in {"pending", "shown", "sent", "failed"} /\ PromiseOf(r)' = "pending"
                 \/ PromiseOf(r)' = PromiseOf(r)
  <2>1. PICK r \in Rows :
              /\ \A q \in Rows : q # r => PromiseOf(q)' = PromiseOf(q)
              /\ \/ PromiseOf(r) = "none" /\ PromiseOf(r)' = "pending"
                 \/ PromiseOf(r) \in {"pending", "shown"} /\ PromiseOf(r)' = "shown"
                 \/ PromiseOf(r) = "shown" /\ PromiseOf(r)' = "sent"
                 \/ PromiseOf(r) \in {"pending", "shown"} /\ PromiseOf(r)' = "failed"
                 \/ PromiseOf(r) \in {"pending", "shown", "sent", "failed"} /\ PromiseOf(r)' = "pending"
                 \/ PromiseOf(r)' = PromiseOf(r)
    BY <1>2
  <2>2. new = [old EXCEPT ![r] = PromiseOf(r)'] /\ old[r] = PromiseOf(r)
    BY <2>1, OthersAreKept
  <2>3. r \in Promise!Messages
    BY DEF Promise!Messages, Rows
  <2> HIDE DEF old, new
  <2>4. \/ new = old
        \/ old[r] = "none" /\ new = [old EXCEPT ![r] = "pending"]
        \/ old[r] \in {"pending"} /\ new = [old EXCEPT ![r] = "shown"]
        \/ old[r] = "shown" /\ new = [old EXCEPT ![r] = "sent"]
        \/ old[r] \in {"pending", "shown"} /\ new = [old EXCEPT ![r] = "failed"]
        \/ old[r] \in {"pending", "shown", "sent", "failed"} /\ new = [old EXCEPT ![r] = "pending"]
    <3>1. new = [old EXCEPT ![r] = old[r]] => new = old
      BY DEF old, new
    <3> QED BY <2>1, <2>2, <3>1
  <2> USE DEF old, new
  <2> QED BY <2>3, <2>4
          DEF Promise!PromiseNext, Promise!Ask, Promise!Show, Promise!Close, Promise!GiveUp,
              Promise!Reword, Promise!Become
<1> QED BY <1>1, <1>2, StepPromise

\* As long as no claim runs out under the run that holds it, the outbox keeps the
\* promise MessagePromise makes of each message, step by step: a message is
\* reported as sent only after its latest wording was in the channel, and is
\* given up only out of the queue.  (That it does not stay in the queue for ever
\* is the runs' to show.)
THEOREM OutboxKeepsPromise ==
  ASSUME MaxStalls = 0
  PROVE  Spec => Promise!PromiseSafety
<1>1. Init => Promise!PromiseInit
  BY DEF Init, PromiseOf, Promise!PromiseInit, Promise!Messages, Rows
<1>2. Spec => []OutboxInv
  BY OutboxInvariant
<1> QED BY <1>1, <1>2, PromiseStep, PTL DEF Spec, Promise!PromiseSafety

-----------------------------------------------------------------------------
(* The club says nothing twice by itself, for any number of runs, rows,    *)
(* attempts, crashes, lost calls and claims that run out.  The argument    *)
(* counts the chances there are to post: a run that may still post a row   *)
(* that was never recorded as posted, and a row of that kind that is open  *)
(* to a claim.  Each row starts with one; a post uses one up, and only a   *)
(* fault or a stall makes one more.                                        *)

-----------------------------------------------------------------------------
(* The chances to post.                                                    *)

\* The row has never been recorded as posted: whoever claims it posts it.
Blank(r) == row[r].mid = 0

\* The run may still post the row, or give it back to be claimed again.
MayPost(b, r) ==
    \/ \E j \in jobs[b] : j.row = r /\ j.mid = 0
    \/ doing[b].row = r /\ ~doing[b].ok /\ Blank(r)

Tickets == {t \in Bots \X Rows : MayPost(t[1], t[2])}

\* The row can be claimed, or will be when its claim has run out on nobody.
OpenToClaim(r) == Blank(r) /\ (row[r].claim # "fresh" \/ \A b \in Bots : ~Holds(b, r))

OpenRows == {r \in Rows : OpenToClaim(r)}

ChancesPaid ==
    /\ IsFiniteSet(Tickets)
    /\ Len(channel) + Cardinality(Tickets) + Cardinality(OpenRows) <= NRows + faults + stalls

\* A run holds nothing between two runs, and one row at a time in its hands.
HandsInOrder ==
    \A b \in Bots :
        /\ pc[b] \in {"idle", "read"} => jobs[b] = {}
        /\ pc[b] \in {"idle", "read", "working"} => doing[b].row = 0
        /\ pc[b] = "failing" => ~doing[b].ok
        /\ \A j \in jobs[b] : j.row # doing[b].row /\ \A k \in jobs[b] : j.row = k.row => j = k

\* A row once recorded as posted stays so, and what is recorded was posted.
RecordsAreTrue ==
    /\ \A b \in Bots : doing[b].ok => doing[b].mid # 0 /\ doing[b].row \in Posted
    /\ \A b \in Bots : \A j \in jobs[b] : j.mid # 0 => ~Blank(j.row)
    /\ \A r \in Rows : row[r].sent => ~Blank(r)
    /\ \A r \in Rows : ~Blank(r) => r \in Posted

CopiesInv == TypeOK /\ Busy /\ HandsInOrder /\ RecordsAreTrue /\ ChancesPaid

-----------------------------------------------------------------------------
(* Counting.                                                               *)

\* What a finite set counts after some of it went and something else came.
LEMMA Exchanged ==
  ASSUME NEW A, IsFiniteSet(A), NEW X \in SUBSET A, NEW Y, IsFiniteSet(Y),
         NEW B, B \subseteq (A \ X) \cup Y
  PROVE  /\ IsFiniteSet(B) /\ IsFiniteSet(X)
         /\ Cardinality(B) + Cardinality(X) <= Cardinality(A) + Cardinality(Y)
<1>1. IsFiniteSet(X) /\ IsFiniteSet(A \ X)
  BY FS_Subset
<1>2. Cardinality(X) + Cardinality(A \ X) = Cardinality(A)
  <2>1. X \cup (A \ X) = A /\ X \cap (A \ X) = {}
    OBVIOUS
  <2>2. Cardinality(X \cup (A \ X)) = Cardinality(X) + Cardinality(A \ X) - Cardinality(X \cap (A \ X))
    BY <1>1, FS_Union
  <2>3. Cardinality(X \cap (A \ X)) = 0
    BY <2>1, FS_EmptySet
  <2>4. Cardinality(X) \in Nat /\ Cardinality(A \ X) \in Nat
    BY <1>1, FS_CardinalityType
  <2> QED BY <2>1, <2>2, <2>3, <2>4
<1>3. /\ IsFiniteSet((A \ X) \cup Y)
      /\ Cardinality((A \ X) \cup Y) <= Cardinality(A \ X) + Cardinality(Y)
  <2>1. /\ IsFiniteSet((A \ X) \cup Y) /\ IsFiniteSet((A \ X) \cap Y)
        /\ Cardinality((A \ X) \cup Y) =
             Cardinality(A \ X) + Cardinality(Y) - Cardinality((A \ X) \cap Y)
    BY <1>1, FS_Union, FS_Intersection
  <2>2. /\ Cardinality(A \ X) \in Nat /\ Cardinality(Y) \in Nat
        /\ Cardinality((A \ X) \cap Y) \in Nat
    BY <1>1, <2>1, FS_CardinalityType
  <2> QED BY <2>1, <2>2
<1>4. IsFiniteSet(B) /\ Cardinality(B) <= Cardinality((A \ X) \cup Y)
  BY <1>3, FS_Subset
<1>5. /\ Cardinality(A) \in Nat /\ Cardinality(X) \in Nat /\ Cardinality(A \ X) \in Nat
      /\ Cardinality(Y) \in Nat /\ Cardinality(B) \in Nat
      /\ Cardinality((A \ X) \cup Y) \in Nat
  BY <1>1, <1>3, <1>4, FS_CardinalityType
<1> QED BY <1>1, <1>2, <1>3, <1>4, <1>5

\* The tickets a run holds for a set of rows are as many as the rows.
TicketsOf(b, R) == {<<b, q>> : q \in R}

LEMMA AsManyTickets ==
  ASSUME NEW b, NEW R, IsFiniteSet(R)
  PROVE  IsFiniteSet(TicketsOf(b, R)) /\ Cardinality(TicketsOf(b, R)) = Cardinality(R)
<1> DEFINE f == [q \in R |-> <<b, q>>]
<1>1. f \in Bijection(R, TicketsOf(b, R))
  BY DEF TicketsOf, Bijection, Injection, Surjection, IsInjective
<1>2. ExistsBijection(R, TicketsOf(b, R))
  BY <1>1 DEF ExistsBijection
<1> QED BY <1>2, FS_Bijection

\* The rows are finitely many.
LEMMA RowsFinite == \A R \in SUBSET Rows : IsFiniteSet(R) /\ Cardinality(R) \in Nat
<1>1. IsFiniteSet(Rows)
  BY OutboxAssumption, FS_Interval DEF Rows
<1> QED BY <1>1, FS_Subset, FS_CardinalityType

\* A step in which run b gives up its tickets for X and takes tickets for Y, and the
\* rows Z are closed to claims and W opened: the books of chances and copies balance
\* when what is said and what is gained is paid for.
LEMMA ChancesMove ==
  ASSUME TypeOK, TypeOK', ChancesPaid, NEW b,
         NEW X \in SUBSET Rows, NEW Y \in SUBSET Rows, NEW Z \in SUBSET Rows, NEW W \in SUBSET Rows,
         \A q \in X : b \in Bots /\ MayPost(b, q),
         \A c \in Bots, q \in Rows : MayPost(c, q)' =>
             (MayPost(c, q) /\ ~(c = b /\ q \in X)) \/ (c = b /\ q \in Y),
         \A q \in Z : OpenToClaim(q),
         \A q \in Rows : OpenToClaim(q)' => (OpenToClaim(q) /\ q \notin Z) \/ q \in W,
         Len(channel') + Cardinality(Y) + Cardinality(W) + faults + stalls
            <= Len(channel) + Cardinality(X) + Cardinality(Z) + faults' + stalls'
  PROVE  ChancesPaid'
<1>0. /\ Len(channel) \in Nat /\ Len(channel') \in Nat /\ faults \in Nat /\ faults' \in Nat
      /\ stalls \in Nat /\ stalls' \in Nat /\ NRows \in Nat
  <2>1. channel \in Seq(Message) /\ channel' \in Seq(Message)
    BY DEF TypeOK, Message
  <2> QED BY <2>1, OutboxAssumption DEF TypeOK
<1>1. /\ IsFiniteSet(X) /\ IsFiniteSet(Y) /\ IsFiniteSet(Z) /\ IsFiniteSet(W)
      /\ Cardinality(X) \in Nat /\ Cardinality(Y) \in Nat
      /\ Cardinality(Z) \in Nat /\ Cardinality(W) \in Nat
  BY RowsFinite
<1>2. PICK T : T = Tickets'
  OBVIOUS
<1>3. PICK O : O = OpenRows'
  OBVIOUS
<1>4. TicketsOf(b, X) \subseteq Tickets
  BY DEF TicketsOf, Tickets
<1>5. T \subseteq (Tickets \ TicketsOf(b, X)) \cup TicketsOf(b, Y)
  <2> SUFFICES ASSUME NEW c \in Bots, NEW q \in Rows, MayPost(c, q)'
               PROVE  <<c, q>> \in (Tickets \ TicketsOf(b, X)) \cup TicketsOf(b, Y)
    BY <1>2 DEF Tickets
  <2> QED BY DEF Tickets, TicketsOf
<1>6. IsFiniteSet(Tickets)
  BY DEF ChancesPaid
<1>7. IsFiniteSet(T) /\ Cardinality(T) + Cardinality(X) <= Cardinality(Tickets) + Cardinality(Y)
  <2>1. /\ IsFiniteSet(TicketsOf(b, Y)) /\ Cardinality(TicketsOf(b, Y)) = Cardinality(Y)
        /\ Cardinality(TicketsOf(b, X)) = Cardinality(X)
    BY <1>1, AsManyTickets
  <2>2. /\ IsFiniteSet(T)
        /\ Cardinality(T) + Cardinality(TicketsOf(b, X))
             <= Cardinality(Tickets) + Cardinality(TicketsOf(b, Y))
    BY <1>4, <1>5, <1>6, <2>1, Exchanged
  <2> QED BY <2>1, <2>2
<1>8. Z \subseteq OpenRows /\ O \subseteq (OpenRows \ Z) \cup W
  BY <1>3 DEF OpenRows
<1>9. OpenRows \in SUBSET Rows /\ O \in SUBSET Rows
  BY <1>3 DEF OpenRows
<1>10. Cardinality(O) + Cardinality(Z) <= Cardinality(OpenRows) + Cardinality(W)
  BY <1>1, <1>8, <1>9, RowsFinite, Exchanged
<1>11. /\ Cardinality(T) \in Nat /\ Cardinality(Tickets) \in Nat
       /\ Cardinality(O) \in Nat /\ Cardinality(OpenRows) \in Nat
  BY <1>6, <1>7, <1>9, RowsFinite, FS_CardinalityType
<1>12. Len(channel) + Cardinality(Tickets) + Cardinality(OpenRows) <= NRows + faults + stalls
  BY DEF ChancesPaid
<1>13. Len(channel') + Cardinality(Y) + Cardinality(W) + faults + stalls
         <= Len(channel) + Cardinality(X) + Cardinality(Z) + faults' + stalls'
  OBVIOUS
<1>14. Len(channel') + Cardinality(T) + Cardinality(O) <= NRows + faults' + stalls'
  <2> DEFINE l0 == Len(channel)
             l1 == Len(channel')
             t0 == Cardinality(Tickets)
             o0 == Cardinality(OpenRows)
             t1 == Cardinality(T)
             o1 == Cardinality(O)
             x == Cardinality(X)
             y == Cardinality(Y)
             z == Cardinality(Z)
             w == Cardinality(W)
             f1 == faults'
             s1 == stalls'
  <2>1. /\ l0 \in Nat /\ l1 \in Nat /\ t0 \in Nat /\ t1 \in Nat /\ o0 \in Nat /\ o1 \in Nat
        /\ x \in Nat /\ y \in Nat /\ z \in Nat /\ w \in Nat /\ f1 \in Nat /\ s1 \in Nat
        /\ faults \in Nat /\ stalls \in Nat /\ NRows \in Nat
    BY <1>0, <1>1, <1>11
  <2>2. /\ t1 + x <= t0 + y /\ o1 + z <= o0 + w /\ l0 + t0 + o0 <= NRows + faults + stalls
        /\ l1 + y + w + faults + stalls <= l0 + x + z + f1 + s1
    BY <1>7, <1>10, <1>12, <1>13
  <2> HIDE DEF l0, l1, t0, o0, t1, o1, x, y, z, w, f1, s1
  <2>3. l1 + t1 + o1 <= NRows + f1 + s1
    BY ONLY <2>1, <2>2
  <2> QED BY <2>3 DEF l0, l1, t0, o0, t1, o1, x, y, z, w, f1, s1
<1>15. /\ IsFiniteSet(Tickets')
       /\ Len(channel') + Cardinality(Tickets') + Cardinality(OpenRows') <= NRows + faults' + stalls'
  BY <1>2, <1>3, <1>7, <1>14
<1> QED BY <1>15 DEF ChancesPaid

\* A row that was not posted still has its chance; so the copies are paid for.
LEMMA PaidMeansAccounted == CopiesInv => CopiesAccounted
<1> SUFFICES ASSUME CopiesInv PROVE CopiesAccounted
  OBVIOUS
<1>1. TypeOK /\ HandsInOrder /\ RecordsAreTrue /\ IsFiniteSet(Tickets)
  BY DEF CopiesInv, ChancesPaid
<1> DEFINE unposted == Rows \ Posted
           covered == {q \in unposted : \E b \in Bots : MayPost(b, q)}
<1>2. ASSUME NEW q \in unposted, q \notin OpenRows PROVE \E b \in Bots : MayPost(b, q)
  <2>1. Blank(q)
    BY <1>1 DEF RecordsAreTrue
  <2>2. PICK b \in Bots : Holds(b, q)
    BY <1>2, <2>1 DEF OpenRows, OpenToClaim
  <2>3. CASE doing[b].row = q
    BY <1>1, <2>1, <2>3 DEF RecordsAreTrue, MayPost
  <2>4. CASE \E j \in jobs[b] : j.row = q
    <3>1. PICK j \in jobs[b] : j.row = q
      BY <2>4
    <3>2. j.mid = 0
      BY <1>1, <2>1, <3>1 DEF RecordsAreTrue
    <3> QED BY <3>1, <3>2 DEF MayPost
  <2> QED BY <2>2, <2>3, <2>4 DEF Holds
<1>3. unposted \subseteq OpenRows \cup covered
  BY <1>2
<1>4. Cardinality(covered) <= Cardinality(Tickets)
  <2> DEFINE f == [q \in covered |-> <<CHOOSE b \in Bots : MayPost(b, q), q>>]
  <2>1. \A q \in covered : f[q] \in Tickets /\ f[q][2] = q
    BY DEF Tickets
  <2>2. f \in Injection(covered, Tickets)
    BY <2>1 DEF Injection, IsInjective
  <2> HIDE DEF covered, f
  <2> QED BY <1>1, <2>2, FS_Injection
<1>5. /\ Posted \in SUBSET Rows /\ OpenRows \in SUBSET Rows /\ covered \in SUBSET Rows
      /\ unposted \in SUBSET Rows /\ Rows \in SUBSET Rows
  BY DEF Posted, OpenRows
<1>6. NRows <= Cardinality(Posted) + Cardinality(unposted)
  <2>1. Cardinality(Rows) = NRows
    BY OutboxAssumption, FS_Interval DEF Rows
  <2>2. Rows \subseteq (unposted \ {}) \cup Posted
    BY <1>5
  <2> HIDE DEF unposted
  <2>3. Cardinality(Rows) + Cardinality({}) <= Cardinality(unposted) + Cardinality(Posted)
    BY <1>5, <2>2, RowsFinite, Exchanged
  <2> QED BY <1>5, <2>1, <2>3, RowsFinite, FS_EmptySet, OutboxAssumption
<1>7. Cardinality(unposted) <= Cardinality(OpenRows) + Cardinality(covered)
  <2>1. unposted \subseteq (OpenRows \ {}) \cup covered
    BY <1>3
  <2> HIDE DEF unposted, covered
  <2>2. Cardinality(unposted) + Cardinality({}) <= Cardinality(OpenRows) + Cardinality(covered)
    BY <1>5, <2>1, RowsFinite, Exchanged
  <2> QED BY <1>5, <2>2, RowsFinite, FS_EmptySet
<1>8. Len(channel) + Cardinality(Tickets) + Cardinality(OpenRows) <= NRows + faults + stalls
  BY DEF CopiesInv, ChancesPaid
<1>9. /\ Len(channel) \in Nat /\ faults \in Nat /\ stalls \in Nat /\ NRows \in Nat
      /\ Cardinality(Tickets) \in Nat
  <2>1. channel \in Seq(Message)
    BY <1>1 DEF TypeOK, Message
  <2> QED BY <1>1, <2>1, OutboxAssumption, FS_CardinalityType DEF TypeOK
<1>10. /\ Cardinality(Posted) \in Nat /\ Cardinality(OpenRows) \in Nat
       /\ Cardinality(covered) \in Nat /\ Cardinality(unposted) \in Nat
  BY <1>5, RowsFinite
<1> HIDE DEF unposted, covered
<1> QED BY <1>4, <1>6, <1>7, <1>8, <1>9, <1>10 DEF CopiesAccounted

-----------------------------------------------------------------------------
(* What a run holds is in order.                                           *)

LEMMA HandsStep ==
  ASSUME TypeOK, Busy, HandsInOrder, [Next]_vars PROVE HandsInOrder'
<1> USE DEF HandsInOrder
<1>1. ASSUME NEW b \in Bots, NEW j \in jobs[b], NEW ok, NEW mid, Answer(b, j, ok, mid)
      PROVE  HandsInOrder'
  BY <1>1 DEF Answer, TypeOK, Job
<1>2. ASSUME NEW b \in Bots, NextJob(b), pc[b] \in {"answered", "failing"} PROVE HandsInOrder'
  <2>1. \A j \in jobs[b] : j.row # 0
    BY DEF TypeOK, Job, Rows
  <2> QED BY <1>2, <2>1 DEF NextJob, TypeOK, NoAnswer
<1>3. ASSUME NEW b \in Bots, NEW S \in SUBSET Rows, Receive(b, S), doing' = doing, pc[b] = "read"
      PROVE  HandsInOrder'
  <2>1. \A r \in S : r # 0
    BY DEF Rows
  <2>2. doing[b].row = 0
    BY <1>3
  <2> QED BY <1>3, <2>1, <2>2 DEF Receive, TypeOK
<1>4. ASSUME NEW b \in Bots, Work(b) PROVE HandsInOrder'
  <2>1. CASE Read(b)
    BY <2>1 DEF Read, TypeOK
  <2>2. CASE ReadAttempts(b)
    BY <2>2 DEF ReadAttempts, TypeOK
  <2>3. CASE Claim(b)
    <3>1. {r \in cands[b] : Claimable(r)} \in SUBSET Rows
      BY DEF TypeOK
    <3> QED BY <1>3, <2>3, <3>1 DEF Claim
  <2> QED BY <1>1, <1>2, <1>4, <2>1, <2>2, <2>3 DEF Work, Accepted, Refused, RecordSent, RecordFailed
<1>5. ASSUME NEW b \in Bots, Trouble(b) PROVE HandsInOrder'
  <2>1. CASE Crash(b)
    BY <2>1 DEF Crash, TypeOK, NoAnswer
  <2> QED BY <1>1, <1>2, <1>3, <1>5, <2>1 DEF Trouble, ClaimLost, AnswerLost, RecordLost
<1>6. CASE UNCHANGED <<pc, doing, jobs>>
  BY <1>6
<1> QED BY <1>4, <1>5, <1>6 DEF Next, Queue, Edit, Expire, Remove, vars, rvars

-----------------------------------------------------------------------------
(* What is recorded was posted.                                            *)

\* Posting or patching takes no message away, and a new one is the job's row's.
LEMMA WrittenPosted ==
  ASSUME TypeOK, NEW j \in Job, channel' = Written(j)
  PROVE  /\ Posted \subseteq Posted'
         /\ j.mid = 0 => j.row \in Posted'
         /\ Len(channel') = IF j.mid = 0 THEN Len(channel) + 1 ELSE Len(channel)
<1>0. channel \in Seq(Message) /\ j.row \in Rows /\ j.text \in 0..MaxEdits
  BY DEF TypeOK, Message, Job
<1> DEFINE new == [row |-> j.row, text |-> j.text, gone |-> FALSE]
<1>1. new \in Message /\ new.row = j.row
  BY <1>0 DEF Message
<1>2. CASE j.mid = 0
  <2>1. channel' = Append(channel, new)
    BY <1>2 DEF Written
  <2> HIDE DEF new
  <2>2. /\ Len(channel') = Len(channel) + 1
        /\ \A m \in DOMAIN channel : m \in DOMAIN channel' /\ channel'[m] = channel[m]
        /\ Len(channel) + 1 \in DOMAIN channel' /\ channel'[Len(channel) + 1] = new
    BY <1>0, <1>1, <2>1
  <2> QED BY <1>0, <1>1, <1>2, <2>2 DEF Posted
<1>3. CASE j.mid # 0
  <2>1. channel' = [channel EXCEPT ![j.mid].text = j.text]
    BY <1>3 DEF Written
  <2>2. \A m \in DOMAIN channel : channel[m] \in Message
    BY <1>0
  <2>3. /\ Len(channel') = Len(channel)
        /\ \A m \in DOMAIN channel : m \in DOMAIN channel' /\ channel'[m].row = channel[m].row
    BY <1>0, <2>1, <2>2 DEF Message
  <2> QED BY <1>3, <2>3 DEF Posted
<1> QED BY <1>2, <1>3

\* No step takes a message away.
LEMMA PostedStays ==
  ASSUME TypeOK, [Next]_vars PROVE Posted \subseteq Posted'
<1>1. CASE UNCHANGED channel
  BY <1>1 DEF Posted
<1>2. ASSUME NEW b \in Bots, NEW j \in jobs[b], channel' = Written(j)
      PROVE  Posted \subseteq Posted'
  <2>1. j \in Job
    BY DEF TypeOK
  <2> QED BY <1>2, <2>1, WrittenPosted
<1>3. ASSUME NEW m \in DOMAIN channel, Remove(m) PROVE Posted \subseteq Posted'
  <2>1. \A n \in DOMAIN channel : channel[n] \in Message
    BY ChannelType
  <2>2. \A n \in DOMAIN channel : n \in DOMAIN channel' /\ channel'[n].row = channel[n].row
    BY <1>3, <2>1 DEF Remove, Message
  <2> QED BY <2>2 DEF Posted
<1>4. ASSUME NEW b \in Bots, Work(b) PROVE Posted \subseteq Posted'
  BY <1>1, <1>2, <1>4 DEF Work, Read, Claim, Accepted, Refused, RecordSent, RecordFailed, NextJob, ReadAttempts
<1>5. ASSUME NEW b \in Bots, Trouble(b) PROVE Posted \subseteq Posted'
  BY <1>1, <1>2, <1>5 DEF Trouble, ClaimLost, AnswerLost, RecordLost, NextJob, Crash
<1> QED BY <1>1, <1>3, <1>4, <1>5 DEF Next, Queue, Edit, Expire, vars

\* The row keeps its id, and is not reported as sent by this.
SameId(r) == row'[r].mid = row[r].mid /\ (row'[r].sent => row[r].sent)

\* A claim, the console and the ten minutes leave the ids alone.
LEMMA TableKeepsIds ==
  ASSUME TypeOK, NEW r \in Rows, Queue(r) \/ Edit(r) \/ Expire(r)
  PROVE  \A q \in Rows : SameId(q)
<1>1. \A q \in Rows : row[q] \in OutboxRow
  BY DEF TypeOK
<1>2. CASE Queue(r)
  BY <1>1, <1>2 DEF Queue, SameId, TypeOK, OutboxRow
<1>3. CASE Edit(r)
  BY <1>1, <1>3 DEF Edit, Requeued, SameId, TypeOK, OutboxRow
<1>4. CASE Expire(r)
  BY <1>1, <1>4 DEF Expire, SameId, TypeOK, OutboxRow
<1> QED BY <1>2, <1>3, <1>4

LEMMA ClaimKeepsIds ==
  ASSUME TypeOK, NEW S, row' = Claimed(S)
  PROVE  \A q \in Rows : SameId(q) /\ row'[q].claim = IF q \in S THEN "fresh" ELSE row[q].claim
<1>1. \A q \in Rows : row[q] \in OutboxRow
  BY DEF TypeOK
<1> QED BY <1>1 DEF Claimed, SameId, OutboxRow

LEMMA FailureKeepsIds ==
  ASSUME TypeOK, Busy, NEW b \in Bots, RecordFailed(b)
  PROVE  \A q \in Rows : SameId(q) /\ (q # doing[b].row => row'[q].claim = row[q].claim)
<1>1. \A q \in Rows : row[q] \in OutboxRow
  BY DEF TypeOK
<1>2. doing[b].row \in Rows
  BY DEF Busy, RecordFailed
<1> QED BY <1>1, <1>2 DEF RecordFailed, SameId, TypeOK, OutboxRow

\* A success gives the row an id, and closes it.
LEMMA SuccessGivesId ==
  ASSUME TypeOK, Busy, RecordsAreTrue, NEW b \in Bots, RecordSent(b)
  PROVE  /\ \A q \in Rows : q # doing[b].row => SameId(q) /\ row'[q].claim = row[q].claim
         /\ doing[b].row \in Rows \cap Posted /\ row'[doing[b].row].mid # 0
<1>1. \A q \in Rows : row[q] \in OutboxRow
  BY DEF TypeOK
<1>2. doing[b].row \in Rows /\ doing[b].row \in Posted /\ doing[b].mid # 0
  BY DEF Busy, RecordSent, RecordsAreTrue
<1>3. CASE row[doing[b].row].sent
  BY <1>2, <1>3 DEF RecordSent, SameId, RecordsAreTrue, Blank
<1>4. CASE ~row[doing[b].row].sent
  BY <1>1, <1>2, <1>4 DEF RecordSent, SameId, TypeOK, OutboxRow
<1> QED BY <1>2, <1>3, <1>4

\* So an id, once given, stays; it is given to a row that was posted; and what is
\* reported as sent has one.
LEMMA IdsStay ==
  ASSUME TypeOK, Busy, RecordsAreTrue, [Next]_vars, NEW q \in Rows
  PROVE  /\ row'[q].mid = 0 => Blank(q)
         /\ row'[q].mid # 0 => q \in Posted
         /\ row'[q].sent => row'[q].mid # 0
<1> DEFINE Goal == /\ row'[q].mid = 0 => Blank(q)
                   /\ row'[q].mid # 0 => q \in Posted
                   /\ row'[q].sent => row'[q].mid # 0
<1>1. ASSUME SameId(q) PROVE Goal
  BY <1>1 DEF SameId, RecordsAreTrue, Blank
<1>2. ASSUME UNCHANGED row PROVE Goal
  BY <1>1, <1>2 DEF SameId
<1>3. ASSUME NEW b \in Bots, RecordSent(b) PROVE Goal
  <2>1. CASE q = doing[b].row
    <3>1. q \in Posted /\ row'[q].mid # 0
      BY <1>3, <2>1, SuccessGivesId
    <3> QED BY <3>1
  <2>2. CASE q # doing[b].row
    <3>1. SameId(q)
      BY <1>3, <2>2, SuccessGivesId
    <3> QED BY <1>1, <3>1
  <2> QED BY <2>1, <2>2
<1>4. ASSUME NEW b \in Bots, Work(b) PROVE Goal
  <2>1. CASE Claim(b)
    <3>1. SameId(q)
      BY <2>1, ClaimKeepsIds DEF Claim
    <3> QED BY <1>1, <3>1
  <2>2. CASE RecordFailed(b)
    <3>1. SameId(q)
      BY <2>2, FailureKeepsIds
    <3> QED BY <1>1, <3>1
  <2> HIDE DEF Goal
  <2> QED BY <1>2, <1>3, <1>4, <2>1, <2>2 DEF Work, Read, Accepted, Refused, Answer, ReadAttempts
<1>5. ASSUME NEW b \in Bots, Trouble(b) PROVE Goal
  <2>1. CASE ClaimLost(b)
    <3>1. SameId(q)
      BY <2>1, ClaimKeepsIds DEF ClaimLost
    <3> QED BY <1>1, <3>1
  <2> HIDE DEF Goal
  <2> QED BY <1>2, <1>5, <2>1 DEF Trouble, AnswerLost, Answer, RecordLost, Crash
<1>6. ASSUME NEW r \in Rows, Queue(r) \/ Edit(r) \/ Expire(r) PROVE Goal
  <2>1. SameId(q)
    BY <1>6, TableKeepsIds
  <2> QED BY <1>1, <2>1
<1> HIDE DEF Goal
<1>7. Goal
  BY <1>2, <1>4, <1>5, <1>6 DEF Next, Remove, vars
<1> QED BY <1>7 DEF Goal

\* What the runs hold and the table shows is true in every step.
LEMMA RecordsStep ==
  ASSUME TypeOK, TypeOK', Busy, RecordsAreTrue, [Next]_vars
  PROVE  RecordsAreTrue'
<1>1. \A r \in Rows : row[r] \in OutboxRow /\ row'[r] \in OutboxRow
  BY DEF TypeOK
<1>2. \A r \in Rows : /\ row'[r].mid = 0 => Blank(r)
                      /\ row'[r].mid # 0 => r \in Posted
                      /\ row'[r].sent => row'[r].mid # 0
  BY IdsStay
<1>3. Posted \subseteq Posted'
  BY PostedStays
<1> DEFINE Answered == \A c \in Bots : doing'[c].ok => doing'[c].mid # 0 /\ doing'[c].row \in Posted'
           Taken == \A c \in Bots : \A j \in jobs'[c] : j.mid # 0 => ~Blank(j.row)
<1>4. ASSUME UNCHANGED doing PROVE Answered
  BY <1>3, <1>4 DEF RecordsAreTrue
<1>5. ASSUME UNCHANGED jobs PROVE Taken
  BY <1>5 DEF RecordsAreTrue
<1>6. ASSUME NEW b \in Bots, NEW j \in jobs[b], NEW ok, NEW mid, Answer(b, j, ok, mid)
      PROVE  Taken
  BY <1>6 DEF Answer, RecordsAreTrue, TypeOK
<1>7. ASSUME NEW b \in Bots, NEW j \in jobs[b], NEW ok, NEW mid, Answer(b, j, ok, mid),
             ok => mid # 0 /\ j.row \in Posted'
      PROVE  Answered
  BY <1>3, <1>7 DEF Answer, RecordsAreTrue, TypeOK
<1>8. ASSUME NEW b \in Bots, NextJob(b) PROVE Answered /\ Taken
  BY <1>3, <1>8 DEF NextJob, RecordsAreTrue, TypeOK, NoAnswer
<1>9. ASSUME NEW b \in Bots, NEW S \in SUBSET Rows, Receive(b, S) PROVE Taken
  BY <1>9 DEF Receive, RecordsAreTrue, TypeOK, Blank
<1>10. ASSUME NEW b \in Bots, NEW j \in jobs[b], Accepted(b, j) PROVE Answered
  <2>1. j \in Job /\ j.mid \in Nat /\ Len(channel) + 1 # 0
    <3>1. j \in Job /\ channel \in Seq(Message)
      BY DEF TypeOK, Message
    <3> QED BY <3>1 DEF Job
  <2>2. j.row \in Posted'
    <3>1. CASE j.mid = 0
      BY <1>10, <2>1, <3>1, WrittenPosted DEF Accepted
    <3>2. CASE j.mid # 0
      <4>1. ~Blank(j.row) /\ j.row \in Rows
        BY <2>1, <3>2 DEF RecordsAreTrue, Job
      <4> QED BY <1>3, <4>1 DEF RecordsAreTrue
    <3> QED BY <3>1, <3>2
  <2> HIDE DEF Answered
  <2> QED BY <1>7, <1>10, <2>1, <2>2 DEF Accepted
<1>11. ASSUME NEW b \in Bots, Work(b) PROVE Answered /\ Taken
  <2>1. CASE Claim(b)
    <3>1. {r \in cands[b] : Claimable(r)} \in SUBSET Rows
      BY DEF TypeOK
    <3> HIDE DEF Answered, Taken
    <3> QED BY <1>4, <1>9, <2>1, <3>1 DEF Claim
  <2>2. CASE ReadAttempts(b)
    <3>1. \A c \in Bots : /\ doing'[c].ok = doing[c].ok /\ doing'[c].mid = doing[c].mid
                          /\ doing'[c].row = doing[c].row
      BY <2>2 DEF ReadAttempts, TypeOK
    <3>2. Answered
      BY <1>3, <3>1 DEF RecordsAreTrue
    <3> HIDE DEF Answered, Taken
    <3> QED BY <1>5, <2>2, <3>2 DEF ReadAttempts
  <2> HIDE DEF Answered, Taken
  <2> QED BY <1>4, <1>5, <1>6, <1>7, <1>8, <1>10, <1>11, <2>1, <2>2
             DEF Work, Read, Accepted, Refused, RecordSent, RecordFailed
<1>12. ASSUME NEW b \in Bots, Trouble(b) PROVE Answered /\ Taken
  <2>1. CASE Crash(b)
    BY <1>3, <2>1 DEF Crash, RecordsAreTrue, TypeOK, NoAnswer
  <2>2. CASE ClaimLost(b)
    <3> HIDE DEF Answered, Taken
    <3> QED BY <1>4, <1>9, <2>2 DEF ClaimLost
  <2> HIDE DEF Answered, Taken
  <2> QED BY <1>6, <1>7, <1>8, <1>12, <2>1, <2>2 DEF Trouble, AnswerLost, RecordLost
<1> HIDE DEF Answered, Taken
<1>13. Answered /\ Taken
  BY <1>4, <1>5, <1>11, <1>12 DEF Next, Queue, Edit, Expire, Remove, vars, rvars
<1>14. \A c \in Bots : \A j \in jobs'[c] : j.mid # 0 => row'[j.row].mid # 0
  <2>1. \A c \in Bots : \A j \in jobs'[c] : j.row \in Rows
    BY DEF TypeOK, Job
  <2> QED BY <1>2, <1>13, <2>1 DEF Taken
<1>15. \A c \in Bots : doing'[c].ok => doing'[c].mid # 0 /\ doing'[c].row \in Posted'
  BY <1>13 DEF Answered
<1>16. \A r \in Rows : row'[r].mid # 0 => r \in Posted'
  BY <1>2, <1>3
<1> QED BY <1>2, <1>14, <1>15, <1>16 DEF RecordsAreTrue, Blank

-----------------------------------------------------------------------------
(* The chances, one action at a time.                                      *)

\* The step is run b's alone, and takes no id away.
AloneIn(b) ==
    /\ \A c \in Bots : c # b => doing'[c] = doing[c] /\ jobs'[c] = jobs[c]
    /\ \A q \in Rows : row'[q].mid = 0 => Blank(q)

\* The chances of the other runs stay what they are.
LEMMA RunMoves ==
  ASSUME TypeOK, TypeOK', ChancesPaid, NEW b \in Bots, AloneIn(b),
         NEW X \in SUBSET Rows, NEW Y \in SUBSET Rows, NEW Z \in SUBSET Rows, NEW W \in SUBSET Rows,
         \A q \in X : MayPost(b, q),
         \A q \in Rows : MayPost(b, q)' => (MayPost(b, q) /\ q \notin X) \/ q \in Y,
         \A q \in Z : OpenToClaim(q),
         \A q \in Rows : OpenToClaim(q)' => (OpenToClaim(q) /\ q \notin Z) \/ q \in W,
         Len(channel') + Cardinality(Y) + Cardinality(W) + faults + stalls
            <= Len(channel) + Cardinality(X) + Cardinality(Z) + faults' + stalls'
  PROVE  ChancesPaid'
<1>1. \A q \in X : b \in Bots /\ MayPost(b, q)
  OBVIOUS
<1>2. \A c \in Bots, q \in Rows : MayPost(c, q)' =>
             (MayPost(c, q) /\ ~(c = b /\ q \in X)) \/ (c = b /\ q \in Y)
  <2> SUFFICES ASSUME NEW c \in Bots, NEW q \in Rows, MayPost(c, q)'
               PROVE  (MayPost(c, q) /\ ~(c = b /\ q \in X)) \/ (c = b /\ q \in Y)
    OBVIOUS
  <2>1. CASE c # b
    BY <2>1 DEF AloneIn, MayPost, Blank
  <2>2. CASE c = b
    BY <2>2
  <2> QED BY <2>1, <2>2
<1> QED BY <1>1, <1>2, ChancesMove

\* A step that makes no chance, and says no more than it pays for.
LEMMA RunKeeps ==
  ASSUME TypeOK, TypeOK', ChancesPaid, NEW b \in Bots, AloneIn(b),
         \A q \in Rows : MayPost(b, q)' => MayPost(b, q),
         \A q \in Rows : OpenToClaim(q)' => OpenToClaim(q),
         Len(channel') + faults + stalls <= Len(channel) + faults' + stalls'
  PROVE  ChancesPaid'
<1>1. PICK N \in SUBSET Rows : N = {}
  OBVIOUS
<1>2. Cardinality(N) = 0
  BY <1>1, FS_EmptySet
<1>3. channel \in Seq(Message) /\ channel' \in Seq(Message)
  BY DEF TypeOK, Message
<1>4. /\ Len(channel) \in Nat /\ Len(channel') \in Nat /\ faults \in Nat /\ faults' \in Nat
      /\ stalls \in Nat /\ stalls' \in Nat
  BY <1>3 DEF TypeOK
<1>5. Len(channel') + Cardinality(N) + Cardinality(N) + faults + stalls
         <= Len(channel) + Cardinality(N) + Cardinality(N) + faults' + stalls'
  BY <1>2, <1>4
<1>6. /\ \A q \in N : MayPost(b, q) /\ OpenToClaim(q)
      /\ \A q \in Rows : q \notin N
  BY <1>1
<1> QED BY <1>5, <1>6, RunMoves

\* A row that is open after a step that left its claim alone, and in which nobody
\* let go of it, was open before.
LEMMA StaysOpen ==
  ASSUME NEW q \in Rows, OpenToClaim(q)', row'[q].mid = 0 => Blank(q),
         row'[q].claim = row[q].claim,
         \A c \in Bots : Holds(c, q) => Holds(c, q)'
  PROVE  OpenToClaim(q)
  BY DEF OpenToClaim, Blank

\* The rows a run claims: each that was never posted gives it a chance, and is closed.
LEMMA ClaimPays ==
  ASSUME CopiesInv, TypeOK', [Next]_vars, NEW b \in Bots, Claim(b) PROVE ChancesPaid'
<1>1. TypeOK /\ Busy /\ HandsInOrder /\ RecordsAreTrue /\ ChancesPaid
  BY DEF CopiesInv
<1>2. PICK S \in SUBSET Rows : S = {r \in cands[b] : Claimable(r)}
  BY <1>1 DEF TypeOK
<1>3. row' = Claimed(S) /\ Receive(b, S) /\ UNCHANGED <<channel, doing, faults, stalls>>
  BY <1>2 DEF Claim
<1>4. \A q \in Rows : SameId(q) /\ row'[q].claim = IF q \in S THEN "fresh" ELSE row[q].claim
  BY <1>1, <1>3, ClaimKeepsIds
<1>5. jobs[b] = {} /\ doing[b].row = 0
  BY <1>1 DEF HandsInOrder, Claim
<1>6. jobs'[b] = {[row |-> r, text |-> row[r].text, mid |-> row[r].mid] : r \in S}
  BY <1>1, <1>3 DEF Receive, TypeOK
<1>7. \A q \in S : row[q].claim # "fresh"
  BY <1>2 DEF Claimable
<1>8. AloneIn(b)
  BY <1>1, <1>3, <1>4 DEF AloneIn, Receive, TypeOK, SameId, Blank
<1>9. PICK B \in SUBSET Rows : B = {q \in S : Blank(q)}
  OBVIOUS
<1>10. PICK N \in SUBSET Rows : N = {}
  OBVIOUS
<1>11. \A q \in Rows : MayPost(b, q)' => q \in B
  <2> SUFFICES ASSUME NEW q \in Rows, MayPost(b, q)' PROVE q \in B
    OBVIOUS
  <2>1. doing'[b].row # q
    BY <1>3, <1>5 DEF Rows
  <2>2. PICK j \in jobs'[b] : j.row = q /\ j.mid = 0
    BY <2>1 DEF MayPost
  <2> QED BY <1>6, <1>9, <2>2 DEF Blank
<1>12. \A q \in B : OpenToClaim(q)
  BY <1>7, <1>9 DEF OpenToClaim
<1>13. \A q \in Rows : OpenToClaim(q)' => OpenToClaim(q) /\ q \notin B
  <2> SUFFICES ASSUME NEW q \in Rows, OpenToClaim(q)' PROVE OpenToClaim(q) /\ q \notin S
    BY <1>9
  <2>1. q \notin S
    <3> SUFFICES ASSUME q \in S PROVE FALSE
      OBVIOUS
    <3>1. row'[q].claim = "fresh"
      BY <1>4
    <3>2. \E j \in jobs'[b] : j.row = q
      <4>1. [row |-> q, text |-> row[q].text, mid |-> row[q].mid] \in jobs'[b]
        BY <1>6
      <4> QED BY <4>1
    <3>3. Holds(b, q)'
      BY <3>2 DEF Holds
    <3> QED BY <3>1, <3>3 DEF OpenToClaim
  <2>2. \A c \in Bots : Holds(c, q) => Holds(c, q)'
    BY <1>3, <1>5, <1>8 DEF AloneIn, Holds, Rows
  <2> QED BY <1>4, <2>1, <2>2, StaysOpen DEF SameId, Blank
<1>14. Cardinality(N) = 0 /\ Cardinality(B) \in Nat
  BY <1>10, FS_EmptySet, RowsFinite
<1>15. channel \in Seq(Message) /\ faults \in Nat /\ stalls \in Nat
  BY <1>1 DEF TypeOK, Message
<1>16. Len(channel') + Cardinality(B) + Cardinality(N) + faults + stalls
         <= Len(channel) + Cardinality(N) + Cardinality(B) + faults' + stalls'
  BY <1>3, <1>14, <1>15
<1>17. \A q \in N : MayPost(b, q)
  BY <1>10
<1> QED BY <1>1, <1>8, <1>11, <1>12, <1>13, <1>16, <1>17, RunMoves

\* A claim whose answer is lost leaves its rows closed, and no run that holds them,
LEMMA LostClaimPays ==
  ASSUME CopiesInv, TypeOK', [Next]_vars, NEW b \in Bots, ClaimLost(b) PROVE ChancesPaid'
<1>1. TypeOK /\ Busy /\ HandsInOrder /\ RecordsAreTrue /\ ChancesPaid
  BY DEF CopiesInv
<1>2. PICK S \in SUBSET Rows : S = {r \in cands[b] : Claimable(r)}
  BY <1>1 DEF TypeOK
<1>3. row' = Claimed(S) /\ Receive(b, {}) /\ Fault /\ UNCHANGED <<channel, doing, stalls>>
  BY <1>2 DEF ClaimLost
<1>4. \A q \in Rows : SameId(q) /\ row'[q].claim = IF q \in S THEN "fresh" ELSE row[q].claim
  BY <1>1, <1>3, ClaimKeepsIds
<1>5. jobs[b] = {} /\ doing[b].row = 0 /\ jobs'[b] = {}
  BY <1>1, <1>3 DEF HandsInOrder, ClaimLost, Receive, TypeOK
<1>6. \A q \in S : row[q].claim # "fresh"
  BY <1>2 DEF Claimable
<1>7. AloneIn(b)
  BY <1>1, <1>3, <1>4 DEF AloneIn, Receive, TypeOK, SameId, Blank
<1>8. \A q \in Rows : MayPost(b, q)' => MayPost(b, q)
  BY <1>3, <1>5 DEF MayPost, Rows
<1>9. \A q \in Rows : OpenToClaim(q)' => OpenToClaim(q)
  <2> SUFFICES ASSUME NEW q \in Rows, OpenToClaim(q)' PROVE OpenToClaim(q)
    OBVIOUS
  <2>1. CASE q \in S
    BY <1>4, <1>6, <2>1 DEF OpenToClaim, SameId, Blank
  <2>2. CASE q \notin S
    <3>1. \A c \in Bots : Holds(c, q) => Holds(c, q)'
      BY <1>3, <1>5, <1>7 DEF AloneIn, Holds, Rows
    <3> QED BY <1>4, <2>2, <3>1, StaysOpen DEF SameId, Blank
  <2> QED BY <2>1, <2>2
<1>10. Len(channel') + faults + stalls <= Len(channel) + faults' + stalls'
  <2>1. channel \in Seq(Message) /\ faults \in Nat /\ stalls \in Nat
    BY <1>1 DEF TypeOK, Message
  <2> QED BY <1>3, <2>1 DEF Fault
<1> QED BY <1>1, <1>7, <1>8, <1>9, <1>10, RunKeeps

\* Whatever Discord answers, the run that asked still holds the row.
LEMMA AnswerHolds ==
  ASSUME CopiesInv, [Next]_vars, NEW b \in Bots, NEW j \in jobs[b], NEW ok, NEW mid,
         Answer(b, j, ok, mid)
  PROVE  /\ AloneIn(b) /\ j \in Job
         /\ \A q \in Rows : OpenToClaim(q)' => OpenToClaim(q)
         /\ jobs'[b] = jobs[b] \ {j}
         /\ doing'[b].row = j.row /\ doing'[b].ok = ok /\ doing[b].row = 0
         /\ UNCHANGED <<row, stalls>>
<1>1. TypeOK /\ Busy /\ HandsInOrder /\ RecordsAreTrue
  BY DEF CopiesInv
<1>2. /\ jobs'[b] = jobs[b] \ {j} /\ UNCHANGED <<row, stalls>>
      /\ doing'[b].row = j.row /\ doing'[b].ok = ok /\ doing[b].row = 0 /\ j \in Job
  BY <1>1 DEF Answer, TypeOK, HandsInOrder
<1>3. AloneIn(b)
  BY <1>1 DEF AloneIn, Answer, TypeOK, Blank
<1>4. \A q \in Rows, c \in Bots : Holds(c, q) => Holds(c, q)'
  <2> SUFFICES ASSUME NEW q \in Rows, NEW c \in Bots, Holds(c, q) PROVE Holds(c, q)'
    OBVIOUS
  <2>1. CASE c # b
    BY <1>3, <2>1 DEF AloneIn, Holds
  <2>2. CASE c = b
    <3>1. PICK k \in jobs[b] : k.row = q
      BY <1>2, <2>2 DEF Holds, Rows
    <3>2. CASE k = j
      BY <1>2, <2>2, <3>1, <3>2 DEF Holds
    <3>3. CASE k # j
      BY <1>2, <2>2, <3>1, <3>3 DEF Holds
    <3> QED BY <3>2, <3>3
  <2> QED BY <2>1, <2>2
<1>5. \A q \in Rows : OpenToClaim(q)' => OpenToClaim(q)
  <2> SUFFICES ASSUME NEW q \in Rows, OpenToClaim(q)' PROVE OpenToClaim(q)
    OBVIOUS
  <2> QED BY <1>2, <1>4, StaysOpen DEF Blank
<1> QED BY <1>2, <1>3, <1>5

\* A post uses the run's chance up; a patch is no post.
LEMMA AcceptedPays ==
  ASSUME CopiesInv, TypeOK', [Next]_vars, NEW b \in Bots, NEW j \in jobs[b], Accepted(b, j)
  PROVE  ChancesPaid'
<1>1. TypeOK /\ Busy /\ HandsInOrder /\ RecordsAreTrue /\ ChancesPaid
  BY DEF CopiesInv
<1>2. /\ AloneIn(b) /\ j \in Job /\ UNCHANGED <<row, faults, stalls>>
      /\ \A q \in Rows : OpenToClaim(q)' => OpenToClaim(q)
      /\ jobs'[b] = jobs[b] \ {j} /\ doing'[b].ok = TRUE
  BY AnswerHolds DEF Accepted
<1>3. j.row \in Rows /\ Len(channel') = IF j.mid = 0 THEN Len(channel) + 1 ELSE Len(channel)
  BY <1>1, <1>2, WrittenPosted DEF Accepted, Job
<1>4. \A q \in Rows : MayPost(b, q)' => MayPost(b, q)
  BY <1>2 DEF MayPost
<1>5. /\ Len(channel) \in Nat /\ faults \in Nat /\ stalls \in Nat
  <2>1. channel \in Seq(Message)
    BY <1>1 DEF TypeOK, Message
  <2> QED BY <1>1, <2>1 DEF TypeOK
<1>6. CASE j.mid # 0
  <2>1. Len(channel') + faults + stalls <= Len(channel) + faults' + stalls'
    BY <1>2, <1>3, <1>5, <1>6
  <2> QED BY <1>1, <1>2, <1>4, <2>1, RunKeeps
<1>7. CASE j.mid = 0
  <2>1. PICK X \in SUBSET Rows : X = {j.row}
    BY <1>3
  <2>2. PICK N \in SUBSET Rows : N = {}
    OBVIOUS
  <2>3. Cardinality(X) = 1 /\ Cardinality(N) = 0
    BY <2>1, <2>2, FS_Singleton, FS_EmptySet
  <2>4. \A q \in X : MayPost(b, q)
    BY <1>7, <2>1 DEF MayPost
  <2>5. \A q \in Rows : MayPost(b, q)' => MayPost(b, q) /\ q \notin X
    <3> SUFFICES ASSUME NEW q \in Rows, MayPost(b, q)' PROVE q # j.row
      BY <1>4, <2>1
    <3>1. PICK k \in jobs'[b] : k.row = q
      BY <1>2 DEF MayPost
    <3> QED BY <1>1, <1>2, <3>1 DEF HandsInOrder
  <2>6. Len(channel') + Cardinality(N) + Cardinality(N) + faults + stalls
           <= Len(channel) + Cardinality(X) + Cardinality(N) + faults' + stalls'
    BY <1>2, <1>3, <1>5, <1>7, <2>3
  <2>7. /\ \A q \in N : OpenToClaim(q)
        /\ \A q \in Rows : q \notin N
    BY <2>2
  <2> QED BY <1>1, <1>2, <2>4, <2>5, <2>6, <2>7, RunMoves
<1> QED BY <1>6, <1>7

\* A refusal keeps the run's chance for its write-back; so does a lost answer, whose
\* post is the fault's.
LEMMA UnansweredPays ==
  ASSUME CopiesInv, TypeOK', [Next]_vars, NEW b \in Bots, NEW j \in jobs[b],
         Refused(b, j) \/ AnswerLost(b, j)
  PROVE  ChancesPaid'
<1>1. TypeOK /\ Busy /\ HandsInOrder /\ RecordsAreTrue /\ ChancesPaid
  BY DEF CopiesInv
<1>2. /\ AloneIn(b) /\ j \in Job /\ UNCHANGED <<row, stalls>>
      /\ \A q \in Rows : OpenToClaim(q)' => OpenToClaim(q)
      /\ jobs'[b] = jobs[b] \ {j} /\ doing'[b].row = j.row
  BY AnswerHolds DEF Refused, AnswerLost
<1>3. j.row \in Rows
  BY <1>2 DEF Job
<1>4. \A q \in Rows : MayPost(b, q)' => MayPost(b, q)
  <2> SUFFICES ASSUME NEW q \in Rows, MayPost(b, q)' PROVE MayPost(b, q)
    OBVIOUS
  <2>1. CASE \E k \in jobs'[b] : k.row = q /\ k.mid = 0
    BY <1>2, <2>1 DEF MayPost
  <2>2. CASE j.row = q /\ Blank(q)
    <3>1. j.mid = 0
      BY <1>1, <2>2 DEF RecordsAreTrue
    <3> QED BY <2>2, <3>1 DEF MayPost
  <2> QED BY <1>2, <2>1, <2>2 DEF MayPost, Blank
<1>5. Len(channel') + faults + stalls <= Len(channel) + faults' + stalls'
  <2>1. channel \in Seq(Message) /\ faults \in Nat /\ stalls \in Nat
    BY <1>1 DEF TypeOK, Message
  <2>2. CASE Refused(b, j)
    BY <1>2, <2>1, <2>2 DEF Refused
  <2>3. CASE AnswerLost(b, j)
    <3>1. Len(channel') = Len(channel) \/ Len(channel') = Len(channel) + 1
      BY <1>1, <1>2, <2>3, WrittenPosted DEF AnswerLost
    <3> QED BY <1>2, <2>1, <2>3, <3>1 DEF AnswerLost, Fault
  <2> QED BY <2>2, <2>3
<1> QED BY <1>1, <1>2, <1>4, <1>5, RunKeeps

\* After a write-back, arrived or lost, the run holds what it held, without that row.
LEMMA LetGo ==
  ASSUME CopiesInv, [Next]_vars, NEW b \in Bots, NextJob(b), pc[b] \in {"answered", "failing"}
  PROVE  /\ AloneIn(b) /\ UNCHANGED channel /\ doing[b].row \in Rows
         /\ \A q \in Rows : MayPost(b, q)' => MayPost(b, q) /\ q # doing[b].row
         /\ \A q \in Rows, c \in Bots : q # doing[b].row => (Holds(c, q) => Holds(c, q)')
<1>1. TypeOK /\ Busy /\ HandsInOrder /\ RecordsAreTrue
  BY DEF CopiesInv
<1>2. jobs' = jobs /\ UNCHANGED channel /\ doing'[b].row = 0 /\ doing[b].row \in Rows
  BY <1>1 DEF NextJob, TypeOK, NoAnswer, Busy
<1>3. \A q \in Rows : row'[q].mid = 0 => Blank(q)
  BY <1>1, IdsStay
<1>4. AloneIn(b)
  BY <1>1, <1>3 DEF AloneIn, NextJob, TypeOK
<1>5. ASSUME NEW q \in Rows, MayPost(b, q)' PROVE MayPost(b, q) /\ q # doing[b].row
  <2>1. PICK j \in jobs[b] : j.row = q /\ j.mid = 0
    BY <1>2, <1>5 DEF MayPost, Rows
  <2> QED BY <1>1, <2>1 DEF MayPost, HandsInOrder
<1>6. ASSUME NEW q \in Rows, NEW c \in Bots, q # doing[b].row, Holds(c, q) PROVE Holds(c, q)'
  BY <1>2, <1>4, <1>6 DEF Holds, AloneIn
<1> QED BY <1>2, <1>4, <1>5, <1>6

\* The row that a success closes is not open, and no other is opened.
LEMMA SuccessPays ==
  ASSUME CopiesInv, TypeOK', [Next]_vars, NEW b \in Bots, RecordSent(b) PROVE ChancesPaid'
<1>1. TypeOK /\ Busy /\ HandsInOrder /\ RecordsAreTrue /\ ChancesPaid
  BY DEF CopiesInv
<1>2. /\ AloneIn(b) /\ UNCHANGED <<channel, faults, stalls>>
      /\ \A q \in Rows : MayPost(b, q)' => MayPost(b, q)
      /\ \A q \in Rows, c \in Bots : q # doing[b].row => (Holds(c, q) => Holds(c, q)')
  BY LetGo DEF RecordSent
<1>3. /\ \A q \in Rows : q # doing[b].row => row'[q].claim = row[q].claim
      /\ row'[doing[b].row].mid # 0
  BY <1>1, SuccessGivesId
<1>4. \A q \in Rows : OpenToClaim(q)' => OpenToClaim(q)
  <2> SUFFICES ASSUME NEW q \in Rows, OpenToClaim(q)' PROVE OpenToClaim(q)
    OBVIOUS
  <2>1. q # doing[b].row
    BY <1>3 DEF OpenToClaim, Blank
  <2> QED BY <1>2, <1>3, <2>1, StaysOpen DEF AloneIn
<1>5. Len(channel') + faults + stalls <= Len(channel) + faults' + stalls'
  <2>1. channel \in Seq(Message) /\ faults \in Nat /\ stalls \in Nat
    BY <1>1 DEF TypeOK, Message
  <2> QED BY <1>2, <2>1
<1> QED BY <1>1, <1>2, <1>4, <1>5, RunKeeps

\* The row a failure frees was the run's to post, or was posted before.
LEMMA FailurePays ==
  ASSUME CopiesInv, TypeOK', [Next]_vars, NEW b \in Bots, RecordFailed(b) PROVE ChancesPaid'
<1>1. TypeOK /\ Busy /\ HandsInOrder /\ RecordsAreTrue /\ ChancesPaid
  BY DEF CopiesInv
<1>2. /\ AloneIn(b) /\ UNCHANGED <<channel, faults, stalls>> /\ doing[b].row \in Rows
      /\ \A q \in Rows : MayPost(b, q)' => MayPost(b, q) /\ q # doing[b].row
      /\ \A q \in Rows, c \in Bots : q # doing[b].row => (Holds(c, q) => Holds(c, q)')
  BY LetGo DEF RecordFailed
<1>3. \A q \in Rows : SameId(q) /\ (q # doing[b].row => row'[q].claim = row[q].claim)
  BY <1>1, FailureKeepsIds
<1>4. PICK X \in SUBSET Rows : X = {q \in {doing[b].row} : Blank(q)}
  BY <1>2
<1>5. PICK N \in SUBSET Rows : N = {}
  OBVIOUS
<1>6. \A q \in X : MayPost(b, q)
  BY <1>1, <1>4 DEF MayPost, HandsInOrder, RecordFailed
<1>7. \A q \in Rows : MayPost(b, q)' => MayPost(b, q) /\ q \notin X
  BY <1>2, <1>4
<1>8. \A q \in Rows : OpenToClaim(q)' => OpenToClaim(q) \/ q \in X
  <2> SUFFICES ASSUME NEW q \in Rows, OpenToClaim(q)', q \notin X PROVE OpenToClaim(q)
    OBVIOUS
  <2>1. Blank(q)
    BY <1>3 DEF SameId, OpenToClaim, Blank
  <2>2. q # doing[b].row
    BY <1>4, <2>1
  <2> QED BY <1>2, <1>3, <2>1, <2>2, StaysOpen
<1>9. Len(channel') + Cardinality(N) + Cardinality(X) + faults + stalls
         <= Len(channel) + Cardinality(X) + Cardinality(N) + faults' + stalls'
  <2>1. channel \in Seq(Message) /\ faults \in Nat /\ stalls \in Nat
    BY <1>1 DEF TypeOK, Message
  <2>2. Cardinality(X) \in Nat /\ Cardinality(N) \in Nat
    BY RowsFinite
  <2> QED BY <1>2, <2>1, <2>2
<1>10. \A q \in N : OpenToClaim(q)
  BY <1>5
<1>11. \A q \in Rows : q \notin N
  BY <1>5
<1> QED BY <1>1, <1>2, <1>6, <1>7, <1>8, <1>9, <1>10, <1>11, RunMoves

\* What a run loses, with its write-back or with itself, is the fault's to pay for:
\* one row, and those it could have posted.
LEMMA LossPays ==
  ASSUME CopiesInv, TypeOK', [Next]_vars, NEW b \in Bots, AloneIn(b), UNCHANGED <<channel, stalls>>,
         faults' = faults + 1, NEW X \in SUBSET Rows, NEW r,
         \A q \in X : MayPost(b, q),
         \A q \in Rows : MayPost(b, q)' => MayPost(b, q) /\ q \notin X,
         \A q \in Rows : OpenToClaim(q)' => OpenToClaim(q) \/ q \in X \/ q = r
  PROVE  ChancesPaid'
<1>1. TypeOK /\ ChancesPaid
  BY DEF CopiesInv
<1>2. PICK W \in SUBSET Rows : W = (X \cup {r}) \cap Rows
  OBVIOUS
<1>3. PICK N \in SUBSET Rows : N = {}
  OBVIOUS
<1>4. Cardinality(W) \in Nat /\ Cardinality(X) \in Nat /\ Cardinality(N) = 0
  BY <1>3, RowsFinite, FS_EmptySet
<1>5. Cardinality(W) <= Cardinality(X) + 1
  <2>1. W \subseteq (X \ N) \cup {r} /\ N \in SUBSET X
    BY <1>2, <1>3
  <2>2. IsFiniteSet(X) /\ IsFiniteSet({r}) /\ Cardinality({r}) = 1
    BY RowsFinite, FS_Singleton
  <2>3. Cardinality(W) + Cardinality(N) <= Cardinality(X) + Cardinality({r})
    BY <2>1, <2>2, Exchanged
  <2> QED BY <1>4, <2>2, <2>3
<1>6. Len(channel') + Cardinality(N) + Cardinality(W) + faults + stalls
         <= Len(channel) + Cardinality(X) + Cardinality(N) + faults' + stalls'
  <2>1. channel \in Seq(Message) /\ faults \in Nat /\ stalls \in Nat
    BY <1>1 DEF TypeOK, Message
  <2>2. Len(channel) \in Nat
    BY <2>1
  <2> QED BY <1>4, <1>5, <2>1, <2>2
<1>7. \A q \in Rows : OpenToClaim(q)' => (OpenToClaim(q) /\ q \notin N) \/ q \in W
  BY <1>2, <1>3
<1>8. \A q \in N : OpenToClaim(q)
  BY <1>3
<1> QED BY <1>1, <1>6, <1>7, <1>8, RunMoves

LEMMA RecordLostPays ==
  ASSUME CopiesInv, TypeOK', [Next]_vars, NEW b \in Bots, RecordLost(b) PROVE ChancesPaid'
<1>1. TypeOK /\ UNCHANGED <<row, channel, stalls>> /\ faults' = faults + 1
  BY DEF CopiesInv, RecordLost, NextJob, Fault
<1>2. /\ AloneIn(b)
      /\ \A q \in Rows : MayPost(b, q)' => MayPost(b, q)
      /\ \A q \in Rows, c \in Bots : q # doing[b].row => (Holds(c, q) => Holds(c, q)')
  BY LetGo DEF RecordLost
<1>3. PICK N \in SUBSET Rows : N = {}
  OBVIOUS
<1>4. \A q \in Rows : OpenToClaim(q)' => OpenToClaim(q) \/ q \in N \/ q = doing[b].row
  <2> SUFFICES ASSUME NEW q \in Rows, OpenToClaim(q)', q # doing[b].row PROVE OpenToClaim(q)
    OBVIOUS
  <2> QED BY <1>1, <1>2, StaysOpen DEF AloneIn
<1>5. /\ \A q \in N : MayPost(b, q)
      /\ \A q \in Rows : MayPost(b, q)' => MayPost(b, q) /\ q \notin N
  BY <1>2, <1>3
<1> QED BY <1>1, <1>2, <1>4, <1>5, LossPays

LEMMA CrashPays ==
  ASSUME CopiesInv, TypeOK', [Next]_vars, NEW b \in Bots, Crash(b) PROVE ChancesPaid'
<1>1. TypeOK /\ RecordsAreTrue /\ UNCHANGED <<row, channel, stalls>> /\ faults' = faults + 1
  BY DEF CopiesInv, Crash, Fault
<1>2. jobs'[b] = {} /\ doing'[b].row = 0
  BY <1>1 DEF Crash, TypeOK, NoAnswer
<1>3. AloneIn(b)
  BY <1>1 DEF AloneIn, Crash, TypeOK, Blank
<1>4. PICK X \in SUBSET Rows : X = {q \in Rows : MayPost(b, q)}
  OBVIOUS
<1>5. \A q \in Rows : ~MayPost(b, q)'
  BY <1>2 DEF MayPost, Rows
<1>6. \A q \in Rows : OpenToClaim(q)' => OpenToClaim(q) \/ q \in X \/ q = doing[b].row
  <2> SUFFICES ASSUME NEW q \in Rows, OpenToClaim(q)', q \notin X, q # doing[b].row
               PROVE  OpenToClaim(q)
    OBVIOUS
  <2>1. ~Holds(b, q)
    <3> SUFFICES ASSUME NEW j \in jobs[b], j.row = q PROVE FALSE
      BY DEF Holds
    <3>1. j.mid = 0
      BY <1>1 DEF RecordsAreTrue, OpenToClaim, Blank
    <3> QED BY <1>4, <3>1 DEF MayPost
  <2>2. \A c \in Bots : Holds(c, q) => Holds(c, q)'
    BY <1>3, <2>1 DEF AloneIn, Holds
  <2> QED BY <1>1, <2>2, StaysOpen DEF Blank
<1>7. \A q \in X : MayPost(b, q)
  BY <1>4
<1> QED BY <1>1, <1>3, <1>5, <1>6, <1>7, LossPays

\* A run that only reads makes no chance.
LEMMA ReadingPays ==
  ASSUME CopiesInv, TypeOK', [Next]_vars, NEW b \in Bots, Read(b) \/ ReadAttempts(b)
  PROVE  ChancesPaid'
<1>1. TypeOK /\ ChancesPaid
  BY DEF CopiesInv
<1>2. /\ UNCHANGED <<row, channel, jobs, faults, stalls>>
      /\ \A c \in Bots : doing'[c].row = doing[c].row /\ doing'[c].ok = doing[c].ok
      /\ \A c \in Bots : c # b => doing'[c] = doing[c]
  <2>1. CASE Read(b)
    BY <2>1 DEF Read
  <2>2. CASE ReadAttempts(b)
    <3>1. UNCHANGED <<row, channel, jobs, faults, stalls>>
      BY <2>2 DEF ReadAttempts
    <3>2. PICK n : doing' = [doing EXCEPT ![b].seen = n]
      BY <2>2 DEF ReadAttempts
    <3> QED BY <1>1, <3>1, <3>2 DEF TypeOK
  <2> QED BY <2>1, <2>2
<1>3. AloneIn(b)
  BY <1>2 DEF AloneIn, Blank
<1>4. \A q \in Rows : MayPost(b, q)' => MayPost(b, q)
  BY <1>2 DEF MayPost, Blank
<1>5. \A q \in Rows : OpenToClaim(q)' => OpenToClaim(q)
  BY <1>2 DEF OpenToClaim, Blank, Holds
<1>6. Len(channel') + faults + stalls <= Len(channel) + faults' + stalls'
  <2>1. channel \in Seq(Message) /\ faults \in Nat /\ stalls \in Nat
    BY <1>1 DEF TypeOK, Message
  <2> QED BY <1>2, <2>1
<1> QED BY <1>1, <1>3, <1>4, <1>5, <1>6, RunKeeps

\* A step of nobody's run that opens at most the row r, and pays for it.
LEMMA TablePays ==
  ASSUME CopiesInv, TypeOK', [Next]_vars, UNCHANGED <<jobs, doing, faults>>,
         Len(channel') = Len(channel), NEW r \in Rows,
         stalls' = stalls \/ stalls' = stalls + 1,
         \A q \in Rows : OpenToClaim(q)' => OpenToClaim(q) \/ (q = r /\ stalls' # stalls)
  PROVE  ChancesPaid'
<1>1. TypeOK /\ Busy /\ RecordsAreTrue /\ ChancesPaid
  BY DEF CopiesInv
<1>2. PICK N \in SUBSET Rows : N = {}
  OBVIOUS
<1>3. PICK W \in SUBSET Rows : W = IF stalls' = stalls THEN {} ELSE {r}
  OBVIOUS
<1>4. Cardinality(N) = 0 /\ Cardinality(W) = IF stalls' = stalls THEN 0 ELSE 1
  BY <1>2, <1>3, FS_EmptySet, FS_Singleton
<1>5. \A c \in Bots, q \in Rows : MayPost(c, q)' => MayPost(c, q)
  <2>1. \A q \in Rows : row'[q].mid = 0 => Blank(q)
    BY <1>1, IdsStay
  <2> QED BY <2>1 DEF MayPost, Blank
<1>6. \A q \in Rows : OpenToClaim(q)' => (OpenToClaim(q) /\ q \notin N) \/ q \in W
  BY <1>1, <1>2, <1>3 DEF TypeOK
<1>7. \A q \in Rows : q \notin N
  BY <1>2
<1>8. Len(channel') + Cardinality(N) + Cardinality(W) + faults + stalls
         <= Len(channel) + Cardinality(N) + Cardinality(N) + faults' + stalls'
  <2>1. channel \in Seq(Message) /\ faults \in Nat /\ stalls \in Nat
    BY <1>1 DEF TypeOK, Message
  <2>2. Len(channel) \in Nat
    BY <2>1
  <2> QED BY <1>4, <2>1, <2>2
<1>9. \A q \in N : 0 \in Bots /\ MayPost(0, q)
  BY <1>2
<1>10. \A q \in N : OpenToClaim(q)
  BY <1>2
<1>11. \A c \in Bots, q \in Rows : MayPost(c, q)' =>
             (MayPost(c, q) /\ ~(c = 0 /\ q \in N)) \/ (c = 0 /\ q \in N)
  BY <1>5, <1>7
<1> QED BY <1>1, <1>6, <1>8, <1>9, <1>10, <1>11, ChancesMove

\* The console: a row that is queued was open already, a row that is corrected was
\* posted; and only a claim that runs out under a run opens one.
LEMMA ConsolePays ==
  ASSUME CopiesInv, TypeOK', [Next]_vars, NEW r \in Rows, Queue(r) \/ Edit(r) \/ Expire(r)
  PROVE  ChancesPaid'
<1>1. TypeOK
  BY DEF CopiesInv
<1>2. UNCHANGED <<jobs, doing, faults>> /\ Len(channel') = Len(channel)
  BY DEF Queue, Edit, Expire, rvars
<1>3. \A q \in Rows : SameId(q) /\ row[q] \in OutboxRow
  BY <1>1, TableKeepsIds DEF TypeOK
<1>4. \A q \in Rows, c \in Bots : Holds(c, q)' <=> Holds(c, q)
  BY <1>2 DEF Holds
<1>5. ASSUME NEW q \in Rows, OpenToClaim(q)', row'[q].claim = row[q].claim
      PROVE  OpenToClaim(q)
  BY <1>3, <1>4, <1>5, StaysOpen DEF SameId, Blank
<1>6. CASE Queue(r)
  <2>1. \A q \in Rows : row'[q].claim = row[q].claim
    BY <1>1, <1>3, <1>6 DEF Queue, TypeOK, OutboxRow
  <2>2. stalls' = stalls
    BY <1>6 DEF Queue
  <2> QED BY <1>2, <1>5, <2>1, <2>2, TablePays
<1>7. CASE Edit(r)
  <2>1. \A q \in Rows : q # r => row'[q].claim = row[q].claim
    BY <1>1, <1>7 DEF Edit, Requeued, TypeOK
  <2>2. ~OpenToClaim(r)'
    BY <1>3, <1>7 DEF Edit, OpenToClaim, SameId, Blank
  <2>3. stalls' = stalls
    BY <1>7 DEF Edit
  <2> QED BY <1>2, <1>5, <2>1, <2>2, <2>3, TablePays
<1>8. CASE Expire(r)
  <2>1. \A q \in Rows : q # r => row'[q].claim = row[q].claim
    BY <1>1, <1>8 DEF Expire, TypeOK
  <2>2. CASE \E c \in Bots : Holds(c, r)
    <3>1. stalls' = stalls + 1
      BY <1>8, <2>2 DEF Expire
    <3> QED BY <1>2, <1>5, <2>1, <3>1, TablePays
  <2>3. CASE \A c \in Bots : ~Holds(c, r)
    <3>1. stalls' = stalls
      BY <1>8, <2>3 DEF Expire
    <3>2. OpenToClaim(r)' => OpenToClaim(r)
      BY <1>3, <2>3 DEF OpenToClaim, SameId, Blank
    <3> QED BY <1>2, <1>5, <2>1, <3>1, <3>2, TablePays
  <2> QED BY <2>2, <2>3
<1> QED BY <1>6, <1>7, <1>8

\* A deletion in Discord leaves the number of messages said, and the table.
LEMMA RemovalPays ==
  ASSUME CopiesInv, TypeOK', [Next]_vars, NEW m \in DOMAIN channel, Remove(m) PROVE ChancesPaid'
<1>1. TypeOK
  BY DEF CopiesInv
<1>2. UNCHANGED <<row, jobs, doing, faults, stalls>>
  BY DEF Remove, rvars
<1>3. channel \in Seq(Message)
  BY <1>1 DEF TypeOK, Message
<1>4. Len(channel') = Len(channel)
  BY <1>3 DEF Remove
<1>5. channel[m].row \in Rows
  BY <1>1, ChannelType
<1>6. \A q \in Rows : OpenToClaim(q)' => OpenToClaim(q)
  BY <1>2 DEF OpenToClaim, Blank, Holds
<1> QED BY <1>2, <1>4, <1>5, <1>6, TablePays

\* Every step pays for the chances it makes.
LEMMA CopiesStep == CopiesInv /\ [Next]_vars => CopiesInv'
<1> SUFFICES ASSUME CopiesInv, [Next]_vars PROVE CopiesInv'
  OBVIOUS
<1>1. TypeOK /\ Busy /\ HandsInOrder /\ RecordsAreTrue /\ ChancesPaid
  BY DEF CopiesInv
<1>2. TypeOK' /\ Busy'
  BY <1>1, NextType
<1>3. HandsInOrder' /\ RecordsAreTrue'
  BY <1>1, <1>2, HandsStep, RecordsStep
<1>4. ChancesPaid'
  <2>1. ASSUME NEW b \in Bots, Work(b) PROVE ChancesPaid'
    BY <1>2, <2>1, ReadingPays, ClaimPays, AcceptedPays, UnansweredPays, SuccessPays, FailurePays
       DEF Work
  <2>2. ASSUME NEW b \in Bots, Trouble(b) PROVE ChancesPaid'
    BY <1>2, <2>2, LostClaimPays, UnansweredPays, RecordLostPays, CrashPays DEF Trouble
  <2>3. CASE UNCHANGED vars
    BY <1>1, <2>3 DEF vars, rvars, ChancesPaid, Tickets, OpenRows, MayPost, OpenToClaim, Blank, Holds
  <2> QED BY <1>2, <2>1, <2>2, <2>3, ConsolePays, RemovalPays DEF Next
<1> QED BY <1>2, <1>3, <1>4 DEF CopiesInv

\* In the beginning every row has its one chance.
LEMMA CopiesStart == Init => CopiesInv
<1> SUFFICES ASSUME Init PROVE CopiesInv
  OBVIOUS
<1>1. TypeOK /\ Busy
  BY InitType
<1>2. \A b \in Bots : jobs[b] = {} /\ doing[b] = NoAnswer /\ pc[b] = "idle"
  BY DEF Init
<1>3. \A r \in Rows : Blank(r) /\ row[r].claim = "free" /\ ~row[r].sent
  BY DEF Init, Blank
<1>4. HandsInOrder /\ RecordsAreTrue
  BY <1>2, <1>3 DEF HandsInOrder, RecordsAreTrue, NoAnswer
<1>5. Tickets = {}
  BY <1>2 DEF Tickets, MayPost, NoAnswer, Rows
<1>6. OpenRows = Rows
  BY <1>3 DEF OpenRows, OpenToClaim
<1>7. Cardinality(Rows) = NRows
  BY OutboxAssumption, FS_Interval DEF Rows
<1>8. IsFiniteSet(Tickets) /\ Cardinality(Tickets) = 0
  BY <1>5, FS_EmptySet
<1>9. ChancesPaid
  <2>1. Len(channel) = 0 /\ faults = 0 /\ stalls = 0
    BY DEF Init
  <2> QED BY <1>6, <1>7, <1>8, <2>1, OutboxAssumption DEF ChancesPaid
<1> QED BY <1>1, <1>4, <1>9 DEF CopiesInv

\* Whatever the runs do, every copy after the first of a row is paid for by a crash,
\* a lost call, or a claim that ran out under the run that held it.
THEOREM NothingSaidTwice == Spec => []CopiesAccounted
<1>1. Spec => []CopiesInv
  BY CopiesStart, CopiesStep, PTL DEF Spec
<1> QED BY <1>1, PaidMeansAccounted, PTL
=============================================================================
