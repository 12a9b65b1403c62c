---------------------------- MODULE OutboxProperties ----------------------------
(***************************************************************************)
(* What makes the outbox correct.                                          *)
(***************************************************************************)
EXTENDS DiscordOutbox

Shows(m, r) == channel[m].row = r /\ channel[m].text = row[r].text

\* A message reported as sent is in the channel in its latest wording, at the
\* id the row carries: no write-back of an older post or patch closes a row that
\* was corrected meanwhile.  (The race fence of editDiscordMessage against the
\* write-back of api/discord/outbox.)  It holds while no claim runs out under the
\* run that holds it.  When one does, "then have `sent_at` written over it by the
\* tick that was already mid-post, stranding the correction"
\* (discord-message.ts:735-737) is what happens, although the fence is there to
\* exclude it.
SentIsShown ==
    \A r \in Rows : row[r].sent => row[r].mid \in DOMAIN channel /\ Shows(row[r].mid, r)

\* The club says nothing twice by itself: every copy after the first of a row
\* is paid for by a crash, a lost call, or a claim that ran out under the run
\* that held it.  In particular overlapping runs alone never post twice.
Posted == {r \in Rows : \E m \in DOMAIN channel : channel[m].row = r}
CopiesAccounted == Len(channel) <= Cardinality(Posted) + faults + stalls

\* The outbox implements MessagePromise: the status an exec reads of a message
\* never says more than the channel shows, and no message stays in the queue for
\* ever, also when an older one keeps failing, when runs die or calls are lost.
PromiseOf(r) ==
    IF ~row[r].queued THEN "none"
    ELSE IF row[r].sent THEN "sent"
    ELSE IF row[r].failed THEN "failed"
    ELSE IF \E m \in DOMAIN channel : Shows(m, r) THEN "shown" ELSE "pending"

Promise == INSTANCE MessagePromise WITH promise <- [r \in Rows |-> PromiseOf(r)]

KeepsPromise == Promise!PromiseSpec
=============================================================================
