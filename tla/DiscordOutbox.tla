----------------------------- MODULE DiscordOutbox -----------------------------
(***************************************************************************)
(* The console speaks in Discord: it queues a row in discord_outbox, a run *)
(* of the bot claims the oldest rows for ten minutes, posts each of them   *)
(* (or patches the message a corrected row already became) and writes back *)
(* what Discord did with it.                                               *)
(*                                                                         *)
(* A member of Bots is one run of runOutbox: the five-minute tick, a nudge *)
(* from the console and other replicas of the bot all run it at once.      *)
(* Each request of a run to the website or to Discord is a step.           *)
(***************************************************************************)
EXTENDS Integers, Sequences, FiniteSets

CONSTANTS
    Bots,           \* runs of runOutbox that may overlap
    NRows,          \* rows of discord_outbox, numbered by created_at
    MaxAttempts,    \* MAX_ATTEMPTS
    MaxPerTick,     \* MAX_PER_TICK
    EditRows,       \* bound: the rows that are corrected
    MaxEdits,       \* bound: corrections of one row
    MaxFaults,      \* bound: crashes and lost calls
    MaxStalls       \* bound: claims that run out under a run that still holds them

ASSUME OutboxAssumption ==
    /\ NRows \in Nat /\ MaxAttempts \in Nat \ {0} /\ MaxPerTick \in Nat \ {0}
    /\ MaxEdits \in Nat /\ MaxFaults \in Nat /\ MaxStalls \in Nat

VARIABLES
    row,        \* discord_outbox
    channel,    \* the messages in Discord; a message's id is its index
    pc,         \* where each run is
    cands,      \* the ids its candidate read returned
    jobs,       \* the rows its claim returned and it has not worked on yet
    doing,      \* the row it works on, and what Discord answered
    faults,     \* crashes and lost calls so far (only to bound and count them)
    stalls      \* claims outlived by their run so far (likewise)

rvars == <<cands, jobs, doing>>
vars == <<row, channel, pc, rvars, faults, stalls>>

Rows == 1..NRows

\* text: which wording, 0 the first; mid: discord_message_id, 0 for NULL.
OutboxRow == [queued: BOOLEAN, text: 0..MaxEdits, claim: {"free", "fresh", "stale"},
              attempts: Nat, sent: BOOLEAN, failed: BOOLEAN, mid: Nat]
Job == [row: Rows, text: 0..MaxEdits, mid: Nat]

NoAnswer == [row |-> 0, ok |-> FALSE, mid |-> 0, seen |-> 0]

TypeOK ==
    /\ row \in [Rows -> OutboxRow]
    /\ channel \in Seq([row: Rows, text: 0..MaxEdits, gone: BOOLEAN])
    /\ pc \in [Bots -> {"idle", "read", "working", "answered", "failing"}]
    /\ cands \in [Bots -> SUBSET Rows]
    /\ jobs \in [Bots -> SUBSET Job]
    /\ doing \in [Bots -> [row: Rows \cup {0}, ok: BOOLEAN, mid: Nat, seen: Nat]]
    /\ faults \in Nat /\ stalls \in Nat

Init ==
    /\ row = [r \in Rows |-> [queued |-> FALSE, text |-> 0, claim |-> "free", attempts |-> 0,
                              sent |-> FALSE, failed |-> FALSE, mid |-> 0]]
    /\ channel = << >>
    /\ pc = [b \in Bots |-> "idle"]
    /\ cands = [b \in Bots |-> {}]
    /\ jobs = [b \in Bots |-> {}]
    /\ doing = [b \in Bots |-> NoAnswer]
    /\ faults = 0 /\ stalls = 0

-----------------------------------------------------------------------------
(* The console.                                                            *)

\* queueDiscordMessage
Queue(r) ==
    /\ ~row[r].queued
    /\ \A q \in Rows : q < r => row[q].queued
    /\ row' = [row EXCEPT ![r].queued = TRUE]
    /\ UNCHANGED <<channel, pc, rvars, faults, stalls>>

\* Mutant: the attempt budget is not given back.
RequeuedKeepsBudget(r) ==
    [row EXCEPT ![r] = [row[r] EXCEPT !.text = @ + 1, !.sent = FALSE, !.claim = "free",
                                      !.failed = FALSE]]

\* What an edit writes.
Requeued(r) ==
    [row EXCEPT ![r] = [row[r] EXCEPT !.text = @ + 1, !.sent = FALSE, !.claim = "free",
                                      !.failed = FALSE, !.attempts = 0]]

\* Mutant: no fence against a run that holds the row.
EditUnfenced(r) ==
    /\ row[r].mid # 0
    /\ r \in EditRows /\ row[r].text < MaxEdits
    /\ row' = Requeued(r)
    /\ UNCHANGED <<channel, pc, rvars, faults, stalls>>

\* editDiscordMessage: refused while a claim that is neither settled nor stale
\* stands on the row.
Edit(r) ==
    /\ row[r].mid # 0
    /\ r \in EditRows /\ row[r].text < MaxEdits
    /\ row[r].claim # "fresh" \/ row[r].sent \/ row[r].failed
    /\ row' = Requeued(r)
    /\ UNCHANGED <<channel, pc, rvars, faults, stalls>>

\* Somebody deletes a message in Discord.
Remove(m) ==
    /\ ~channel[m].gone
    /\ channel' = [channel EXCEPT ![m].gone = TRUE]
    /\ UNCHANGED <<row, pc, rvars, faults, stalls>>

-----------------------------------------------------------------------------
(* The claim: GET api/discord/outbox.                                      *)

Claimable(r) ==
    /\ row[r].queued /\ ~row[r].sent /\ ~row[r].failed
    /\ row[r].attempts < MaxAttempts
    /\ row[r].claim # "fresh"

\* The MaxPerTick oldest.
Oldest(S) == {r \in S : Cardinality({q \in S : q < r}) < MaxPerTick}

Fault == faults < MaxFaults /\ faults' = faults + 1

Read(b) ==
    LET found == Oldest({r \in Rows : Claimable(r)}) IN
    /\ pc[b] = "idle"
    /\ found # {}
    /\ cands' = [cands EXCEPT ![b] = found]
    /\ pc' = [pc EXCEPT ![b] = "read"]
    /\ UNCHANGED <<row, channel, jobs, doing, faults, stalls>>

Claimed(S) == [r \in Rows |-> IF r \in S THEN [row[r] EXCEPT !.claim = "fresh"] ELSE row[r]]

\* The run received the rows S.
Receive(b, S) ==
    /\ jobs' = [jobs EXCEPT ![b] = {[row |-> r, text |-> row[r].text, mid |-> row[r].mid] : r \in S}]
    /\ pc' = [pc EXCEPT ![b] = IF S = {} THEN "idle" ELSE "working"]
    /\ cands' = [cands EXCEPT ![b] = {}]

\* Mutant: the UPDATE claims whatever the read returned.
ClaimCandidates(b) ==
    /\ pc[b] = "read"
    /\ row' = Claimed(cands[b])
    /\ Receive(b, cands[b])
    /\ UNCHANGED <<channel, doing, faults, stalls>>

\* Every condition is restated: what another run took meanwhile is not claimed.
Claim(b) ==
    LET S == {r \in cands[b] : Claimable(r)} IN
    /\ pc[b] = "read"
    /\ row' = Claimed(S)
    /\ Receive(b, S)
    /\ UNCHANGED <<channel, doing, faults, stalls>>

\* The claim committed and its answer was lost.
ClaimLost(b) ==
    LET S == {r \in cands[b] : Claimable(r)} IN
    /\ pc[b] = "read"
    /\ Fault
    /\ row' = Claimed(S)
    /\ Receive(b, {})
    /\ UNCHANGED <<channel, doing, stalls>>

-----------------------------------------------------------------------------
(* Discord.                                                                *)

\* Discord answered the call for job j; ok only with the id of a message.
Answer(b, j, ok, mid) ==
    /\ pc[b] = "working"
    /\ j \in jobs[b]
    /\ jobs' = [jobs EXCEPT ![b] = @ \ {j}]
    /\ doing' = [doing EXCEPT ![b] = [row |-> j.row, ok |-> ok, mid |-> mid, seen |-> 0]]
    /\ pc' = [pc EXCEPT ![b] = "answered"]
    /\ UNCHANGED <<row, cands, stalls>>

\* A job of a row that was never posted is posted, any other one is a patch of
\* the message it became.  A removed message cannot be patched.
Written(j) ==
    IF j.mid = 0
    THEN Append(channel, [row |-> j.row, text |-> j.text, gone |-> FALSE])
    ELSE [channel EXCEPT ![j.mid].text = j.text]
Writable(j) == j.mid # 0 => ~channel[j.mid].gone

Accepted(b, j) ==
    /\ Writable(j)
    /\ channel' = Written(j)
    /\ Answer(b, j, TRUE, IF j.mid = 0 THEN Len(channel) + 1 ELSE j.mid)
    /\ UNCHANGED faults

Refused(b, j) ==
    /\ UNCHANGED <<channel, faults>>
    /\ Answer(b, j, FALSE, 0)

\* 'unknown' or 'failed', and it was written all the same.
AnswerLost(b, j) ==
    /\ Writable(j)
    /\ Fault
    /\ channel' = Written(j)
    /\ Answer(b, j, FALSE, 0)

-----------------------------------------------------------------------------
(* The write-back: POST api/discord/outbox.                                *)

NextJob(b) ==
    /\ pc' = [pc EXCEPT ![b] = IF jobs[b] = {} THEN "idle" ELSE "working"]
    /\ doing' = [doing EXCEPT ![b] = NoAnswer]
    /\ UNCHANGED <<channel, cands, jobs>>

\* A success closes the row if it is unsent, and leaves claimed_at standing.
RecordSent(b) ==
    LET r == doing[b].row IN
    /\ pc[b] = "answered" /\ doing[b].ok
    /\ row' = IF row[r].sent THEN row
              ELSE [row EXCEPT ![r] = [@ EXCEPT !.sent = TRUE, !.mid = doing[b].mid]]
    /\ NextJob(b)
    /\ UNCHANGED <<faults, stalls>>

\* A failure reads the attempts, and then writes one more.
ReadAttempts(b) ==
    /\ pc[b] = "answered" /\ ~doing[b].ok
    /\ doing' = [doing EXCEPT ![b].seen = row[doing[b].row].attempts]
    /\ pc' = [pc EXCEPT ![b] = "failing"]
    /\ UNCHANGED <<row, channel, cands, jobs, faults, stalls>>

\* Mutants: the budget is counted down; a row out of attempts is not marked.
RecordCountsDown(b) ==
    LET r == doing[b].row IN
    /\ pc[b] = "failing"
    /\ row' = IF row[r].sent THEN row
              ELSE [row EXCEPT ![r] = [@ EXCEPT !.attempts = doing[b].seen - 1, !.claim = "free"]]
    /\ NextJob(b)
    /\ UNCHANGED <<faults, stalls>>

RecordUnmarked(b) ==
    LET r == doing[b].row IN
    /\ pc[b] = "failing"
    /\ row' = IF row[r].sent THEN row
              ELSE [row EXCEPT ![r] = [@ EXCEPT !.attempts = doing[b].seen + 1, !.claim = "free"]]
    /\ NextJob(b)
    /\ UNCHANGED <<faults, stalls>>

RecordFailed(b) ==
    LET r == doing[b].row
        spent == doing[b].seen + 1
    IN
    /\ pc[b] = "failing"
    /\ row' = IF row[r].sent THEN row
              ELSE [row EXCEPT ![r] = [row[r] EXCEPT !.attempts = spent, !.claim = "free",
                                                     !.failed = @ \/ spent >= MaxAttempts]]
    /\ NextJob(b)
    /\ UNCHANGED <<faults, stalls>>

\* The write-back never arrives.
RecordLost(b) ==
    /\ pc[b] \in {"answered", "failing"}
    /\ Fault
    /\ NextJob(b)
    /\ UNCHANGED <<row, stalls>>

-----------------------------------------------------------------------------
\* A run dies with what it holds; its claims stay until they run out.
Crash(b) ==
    /\ pc[b] # "idle"
    /\ Fault
    /\ pc' = [pc EXCEPT ![b] = "idle"]
    /\ cands' = [cands EXCEPT ![b] = {}]
    /\ jobs' = [jobs EXCEPT ![b] = {}]
    /\ doing' = [doing EXCEPT ![b] = NoAnswer]
    /\ UNCHANGED <<row, channel, stalls>>

Holds(b, r) == doing[b].row = r \/ \E j \in jobs[b] : j.row = r

\* Ten minutes pass over a claim; when a run still holds it, that is a stall.
Expire(r) ==
    /\ row[r].claim = "fresh"
    /\ row' = [row EXCEPT ![r].claim = "stale"]
    /\ IF \E b \in Bots : Holds(b, r)
       THEN stalls < MaxStalls /\ stalls' = stalls + 1
       ELSE UNCHANGED stalls
    /\ UNCHANGED <<channel, pc, rvars, faults>>

-----------------------------------------------------------------------------
\* What a run does when nothing goes wrong.
Work(b) ==
    \/ Read(b) \/ Claim(b)
    \/ \E j \in jobs[b] : Accepted(b, j) \/ Refused(b, j)
    \/ RecordSent(b) \/ ReadAttempts(b) \/ RecordFailed(b)

Trouble(b) ==
    \/ ClaimLost(b)
    \/ \E j \in jobs[b] : AnswerLost(b, j)
    \/ RecordLost(b) \/ Crash(b)

Next ==
    \/ \E r \in Rows : Queue(r) \/ Edit(r) \/ Expire(r)
    \/ \E m \in DOMAIN channel : Remove(m)
    \/ \E b \in Bots : Work(b) \/ Trouble(b)

\* pg_cron runs the bot again every five minutes, a run that is not in trouble
\* goes on, and time passes.
Fairness ==
    /\ \A b \in Bots : WF_vars(Work(b))
    /\ \A r \in Rows : WF_vars(Expire(r))

Spec == Init /\ [][Next]_vars
FairSpec == Spec /\ Fairness
=============================================================================
