# Formal models of the badminton club app

TLA+ models of the parts of the Sfu Badminton Club app whose correctness depends
on the order in which members, execs, cron jobs and the Discord bot act, with
TLC runs on small instances and TLAPS proofs for every instance.

## 1. The system

The app is a monorepo over one Postgres database (Supabase). The rules live in
SQL functions under `supabase/migrations`; a function may be redefined many
times, and the models follow the *last* definition.

| Part | State | Operations | Interacts with | Hard because |
|---|---|---|---|---|
| Challenges (`create_challenge_for`, `respond_to_challenge`, `cancelChallenge`, console) | `challenges`, `challenge_participants` | create, answer, cancel, expire, force-expire, create as exec | matches and walkovers complete it | answers, cancels and the expiry cron race; the console updates by id only |
| Matches (`submit_match_result_for`, `apply_match_result`, `void_club_match`, `convert_club_match_to_casual`, `adminCreateMatch`) | `matches`, `match_participants`, `match_games` | submit, confirm, boost, void, convert, enter directly | ratings, seasons, challenges, disputes | results wait across rollovers; direct entry is several requests |
| Disputes (`dispute_match_result`, `resolve_dispute_*`) | `disputes` | raise, accept, edit, void, convert | matches, ratings | a disputed match may already have been rated |
| Walkovers (`report_walkover_atomic`, `apply_walkover_result`, `reject_walkover_atomic`) | `walkovers` | report, grant, refuse | challenges, matches | two sides and several execs answer at once |
| Ratings and seasons (`apply_rating_delta`, `reverse_match_result`, `activate_season`) | `ratings`, `season_final_ratings`, `seasons` | post a delta, reverse it, archive, reset | every match function | clamping, rounding, closed seasons |
| Discord outbox (`outbox.ts`, `api/discord/outbox`, `discord-message.ts`) | `discord_outbox`, the channel | queue, edit, claim, post, record | bot replicas, Discord | lease, crash between post and record, late write-backs |
| Tournament field and waitlist (`enter_tournament_event`, `join_event_waitlist`, `fill_event_from_waitlist`, pairing functions, `participants.ts`) | `tournament_events`, `_participants`, `_pairs`, `_event_waitlist` | enter, join and leave the queue, withdraw, add, pair, unpair, swap, remove, check in, promote, change settings | the draw reads the field; a freed place calls the promoter | places and caps counted over several tables and events; the promoter is called after the change committed |
| Tournament results (`results.ts`, `_internal.ts`) | `tournament_matches`, entries' status | enter, forfeit, void, restore, correct, undo, seat by hand, call to court, withdraw from the draw | ratings; a result moves entries into later matches | ten requests without a transaction, several desks at once, corrections under later rounds |
| Tournament ratings (`apply_`/`reverse_tournament_match_rating`) | `elo_snapshot`, `elo_change`, `ratings` | apply, reverse | every result | rated once, for the result on the row, in the order of rounds |
| Tournament draw, pools, finishing | `tournament_matches`, `final_position` | generate, publish, seed pools, finalize | field, results | generation is many requests |
| Sessions, reminders, check-in; club events | `sessions`, `club_events` | sign up, check in, remind | bot loops | claims with a lease |
| Tokens (passkey challenges, Discord links) | one-row tokens | issue, consume | web login, bot | must be single use |
| Fees and receipts, finance, players and merge, permissions, announcements, notifications, data API, purges, legal, pages | their own tables | mostly single-row edits | | |

`PROJECT.json` lists every part with its sources and status, and under `hazards`
each place in the code where a wrong order, a crash, a lost call or a boundary
could hurt, with the property that watches it.

What makes each part correct, in a sentence: a challenge has one outcome and
nothing over is reopened; a result is rated exactly by what its row records;
every season's ratings are its opening ratings plus its standing matches; a
dispute is on the queue while its match is disputed; a queued Discord message
reaches the channel, once if nothing crashes; an event never exceeds its limit, a
member never their cap, and the waitlist is served in order without a place
standing free; a tournament match is rated exactly while it shows the result it
was rated for, and no entry stands in a later round without the result that sent
it there; a token is used once.

## 2. Modules

| Module | Models |
|---|---|
| `Club` | the players |
| `Challenges` | the challenge table and the participants' answers |
| `SeasonRatings` | live ratings, the archive of closed seasons, the rollover |
| `Ladder` | extends both with matches, disputes and walkovers; the next-state relation of the whole |
| `ChallengeOutcome` | abstract specification: what the club promises of one challenge |
| `LadderProperties` | the properties, the inductive invariant, the refinement mapping |
| `LadderProofs` | the theorems about the life of a challenge and its matches |
| `Sums`, `BooksProofs` | lemmas about sums over a finite set, and the theorems about the books of a season |
| `MCLadder` | the instances for TLC |
| `DiscordOutbox` | the queue of messages the console speaks through, the runs of the bot that drain it, and the Discord channel |
| `MessagePromise` | abstract specification: what the console promises of each message |
| `OutboxProperties` | its properties and the refinement mapping |
| `OutboxProofs` | the theorems about it |
| `MCOutbox` | the instances for TLC |
| `EventField` | the field of a tournament's events, their waitlists, and the app's calls to the promoter |
| `EventFieldProperties`, `EventFieldProofs`, `MCEventField` | its properties, theorems and instances |
| `BracketResults` | a bracket being played: each desk's operation as the list of requests it has still to make |
| `BracketProperties`, `BracketProofs`, `MCBracket` | its properties, the theorems about desks that play at once, and the instances |
| `DeskProofs` | the type theorem for any desks, and the theorems about one desk with all its operations |
| `PathProofs` | the theorems about one desk across the matches of a knockout: slots, winners and swings |

### The ladder

How the state corresponds to the code:

* `cstatus`, `creator`, `crated`, `conf`: `challenges.status`, `created_by`,
  `rated_flag` and `challenge_participants.confirmation_status`. A *slot* is a
  challenge that may be created; its teams are constants, so TLC decides when
  and in which order, not between whom.
* `match`, `delta`: the `matches` row and `match_participants.rating_delta`. The
  unique index on `challenge_id` is why a challenge slot indexes its match;
  `DirectMatches` are the ones the console enters. A delta of 0 stands for NULL.
* `walkover`, `dispute`: the latest row of each challenge or match. A new one is
  only inserted when the latest is settled.
* `live`, `archive`, `active`: the rating column, `season_final_ratings`,
  `seasons.active_flag`.
* `entering`: which `adminCreateMatch` requests are between two of their calls.
* `opening`, `books`: history, written and never read by a guard. `raised`,
  `openings`: counters that only bound the state space.

Atomicity. An RPC is a Postgres function that locks the row it decides on, so it
is one step; a PostgREST UPDATE with a filter is one statement, so one step. The
exception is `adminCreateMatch`, four requests without a transaction:
`DirectInsert`, then `DirectFinish`, `DirectDiscard` or `DirectLost`, with
everybody else's steps between.

Abstractions, each an over-approximation unless it says otherwise:

* One discipline. Singles and doubles ratings are separate columns no statement
  mixes.
* Elo. `calculate_elo_update` is any gain for the winner and any loss for the
  loser from the set `Points`; clamping, boosting and rounding are modelled as
  the code does them. The mean of the soft reset is any number of the range.
* Who may act: participants, creators and submitters are checked as in the code;
  a capability check is "some exec". `Admins` are the execs who are players too.
* Eligibility, repeat and session caps, the notice period of a withdrawal
  (`kind`), and the time at which a challenge is overdue are free inputs.
* A direct match is seen with its participants from the first request on.
* `adminCreateChallenge` writes the challenge and its participants in two
  requests; the model has them in one (an under-approximation, recorded as a
  hazard).
* Notifications, audit rows, head-to-head and point counters are left out: no
  guard of these functions reads them.

### The outbox

* `row`: `discord_outbox`. A wording is a number (`text`, one more per
  correction). A claim is `free`, `fresh` or `stale`: the code compares
  `claimed_at` with now minus ten minutes, and `Expire` is that window passing.
* `channel`: the messages in Discord, in the order they were posted; an index is
  a message id. Modelled from how the bot uses Discord: a call is answered, is
  refused, or is carried out with its answer lost; a message may be deleted by
  hand, after which a patch of it answers "gone".
* `pc`, `cands`, `jobs`, `doing`: one run of `runOutbox`. The cron tick, a nudge
  from the console and another replica all start one, and nothing excludes
  overlap, so `Bots` is a set of concurrent runs. Each request is a step: the
  candidate read, the claiming UPDATE, each Discord call, the write-back, and in
  a failing write-back the read of `attempts` and the write.
* The rows of one claim are worked on in any order, since `UPDATE ... RETURNING`
  promises none.
* `faults` counts crashes and lost calls, `stalls` the claims that ran out under
  a run that still held the row. Both are bounded, and properties speak of them.
* Buttons, mentions and the audit entry are data or logging. The retry without
  buttons is part of the call it retries. One guild.

### The event field

* `entry`, `pair`: the status of a member's `tournament_participants` row or of a
  `tournament_pairs` row; `"none"` is no row. A pair row is unique on the ordered
  pair, as in the table. `waiting` is the set of `waiting` waitlist rows.
* `joining`, `ahead`: `joined_at` is the start of the join's transaction, and the
  join then waits for the event's key. So a member takes a place in line in
  `JoinBegins` and is served or refused in `Join` or `JoinRefused`, with
  anything in between. `ahead[e][p]` is who began before p; those who leave the
  line are taken out of it.
* `asking`, `filling`: the app calls the promoter after its own change has
  committed: one request reads the settings, one fills. Each may be lost
  (`LoseCall`; the error is logged and swallowed).
* `Enter`, `Join`, `Withdraw`, `AddParticipants`, `PairUp`, `Unpair`, `Swap`,
  `RemoveLoose`, `SetEntryStatus`, `BulkCheckIn`, `SetWaitlist`: one database
  function each, in one step, since each holds the event's advisory key and the
  rows it decides on. `Fill` is the promoter's loop: it stops at the first row
  for which the event is full, and enters or skips each row before that.
* `missed` is history: a fill was refused or lost since the last one that ran.
* Windows, membership, category, waiver and rating checks only refuse, so they
  are steps not taken. External teams, guests, CSV import and the two pool
  statuses are left out. `suspended` stands for a suspended or closed
  tournament, `barred` for suspended and inactive members.

### The bracket

* `row`: status, the two sides, winner, loser, and who won and lost when the
  match was rated (`elo_snapshot`). `standing` is whether an entry is in,
  absent, or out; `swing` its `elo_change` with a win counting 1, so that a
  rating that is applied or reversed twice, or for the wrong entries, shows.
* `todo[d]`: a desk's operation is a list of requests, computed when the match is
  read (`was`, what was read, travels with it). A step runs the first request. A
  conditional update that matches no row, and a guard that refuses, drop the
  rest (`CompareAndSwap`, `Guard`); reading where an entry goes puts the writes
  in front of the rest (`Route`); a settled or forfeited match puts a whole
  result there (`Settle`, `Forfeit`), as `recordWalkover` calls itself through
  `advanceWinner`.
* `Fault`: a request fails, or its answer is lost. The operation ends, except
  where the code goes on: a failed rating is followed by the restore
  (`undoDecidedResult`), and the errors named in `Unchecked` are not looked at.
* `settleAdvancedMatch` and `forfeitOpenMatchesForEntry` read the match and the
  entries' statuses in two requests; here they are one read.
* Scores and shapes of matches, head starts, notes, audit rows, courts, byes
  (filled by the draw, refused by every operation) and the recomputation of pool
  standings are left out.
* `Enter`, `Edit`: the server action is the boundary (`results.ts:183-184`), and
  these two look at the status of a match and not at its sides. So a result may
  name an empty side, from a dialog that has gone stale or by a correction typed
  over a forfeit: nobody is recorded as winner or loser, the match is not rated,
  and `Enter` routes nobody into the next slot while `Edit` leaves that slot as it
  is. `setMatchLive`, `enterWalkover` and `recordDoubleNoShow` do check the sides
  they need. `begun` is the history of the operations, by their names in `Ops`; a
  correction that gives a match with an empty side to its other side is called
  `"reaward"` there, since some promises last only until the first of them
  (`Regular`).

## 3. What is checked

| Run | Instance | Properties | Shows |
|---|---|---|---|
| `MCLadderSeasons` | 2 players, 1 challenge, 2 seasons, 1 dispute | `BooksBalance`, `ArchiveOnlyCorrected` | the books of every season balance through results, boosts, forfeits, voids and conversions on both sides of a rollover; archives change only to take off a voided match |
| `MCLadderChallenge` | 1 doubles challenge, 2 disputes, 4 players of whom one is an exec | `TypeOK`, `NoBuriedResult`, `ForfeitAnswered`, `DisputedIsQueued`, `UnconfirmedMovesNoRating`, `PlayedByAgreement`, `LadderInv`, `OverStaysOver`, `VoidStands`, `OneOutcomePerChallenge` | the life of one challenge under every interleaving: concurrent acceptances, a refusal, a forfeit with a partner unanswered, results, disputes, voids |
| `MCLadderDirect` | 2 direct matches between the same players, 1 dispute each, half-step boosts | `BooksBalance`, `LadderInv` | clamping, rounding, interrupted entries, and the inductive invariant on matches without a challenge |
| `MCOutboxRelay` | 2 messages, 1 per tick, 2 runs, 2 attempts, 2 corrections of the older message, 1 fault | `TypeOK`, `SentIsShown`, `KeepsPromise` | what is reported as sent is what members read; the outbox implements `MessagePromise` with its liveness, so an older message that keeps failing keeps no younger one out, and a correction of a message that was given up has its whole budget again and settles |
| `MCOutboxStalls` | 2 messages, 2 per tick, 3 runs, 1 fault, 1 stall | `CopiesAccounted` | a run works on a row another one holds only after a stall: every extra copy is paid for by a fault or a stall |
| `MCFieldDoubles` | 1 doubles event of 1 or 2 places, 3 members, batches of 2, 2 pair rows | `TypeOK`, `InOnce`, `FreePlaceIsOffered`, `PlacesWithinLimit`, `NobodyOvertakes`, `OutStaysOut` | every way into a place keeps the limit and the line; nobody is in twice; every operation that frees a place calls the promoter |
| `MCFieldSingles` | 1 singles event, 2 members, 1 change of a setting, 2 calls under way, 1 lost | `FreePlaceIsOffered`, `WaitersCanBeServed`, `FreePlaceIsHandedOut` | the same under changes of limit, lock, waitlist and suspensions; a free place is in the end handed out |
| `MCFieldTwoEvents` | a singles and a doubles event, 2 members, a cap of 1 | `WithinEntryCap` | the cap holds across events |
| `MCBracketDesk` | quarter-final, semi-final, final and third-place match, 1 desk, any 4 operations except seating by hand, 1 fault | `TypeOK`, `DecidedIsRated`, `SwingAddsUp`, `WinnerPlayed`, `ReadyIsKnown`, `SlotsFollowResults`, `RatedInOrder` | after any sequence of results, also for an empty side, corrections and erasures, the ratings are those of the results and were made in order, a decided match keeps its two sides, and, until a match is given to its empty side, nobody stays in a later round without the result that sent them; the swings add up also when an operation stopped half-way |
| `MCBracketDesks` | a semi-final and the final, 2 desks, 3 operations (results, forfeits, seats, calls to court), 1 fault | `RatedIsResult`, `ResultStands` | desks at work at once, and lost answers: a rating that counts is that of the result on the row, which does not change under it |

`CHECK_DEADLOCK FALSE` in these: when every slot is used up and the seasons are
over, every message has settled, or the desks have begun all their operations,
nobody has to act.

Bounds of the ladder. `MaxDisputes` and `MaxOpenings` cap how often a match is disputed and a
season activated; one dispute suffices for a second resolution to be possible,
two for a dispute of a resolved match; two activations are one rollover, or a
season reopened. The rating range `Lo..Hi` is a few points wide and `Points` at
least the distance to a bound, so that clamping happens at once (in
`MCLadderDirect` the winner gains 2 and the loser, one above the floor, loses 1). One challenge,
or two direct matches, suffice because a function reads one match and its
challenge. The exception is the cap on active challenges (`ActiveOf`): no run has
a second challenge, so none reaches the cap, and no property is about it.

`BooksBalance` speaks of seasons whose `books` are `clean`. They stop being so
when the code posts irregularly: a result is applied to another season than its
row names, a match that already carries a delta is applied or voided out of
`disputed`, a casual re-confirmation leaves the delta of a voided match on the
row, or a season is opened a second time. Those are not excuses: the runs below
are about them.

Bounds of the outbox. Two rows show a batch (`MCOutboxStalls`) and the order of
the queue (`MCOutboxRelay`, one place per tick); every other race is on one row.
Three runs are the longest chain one stall can start: the stalled run, the one
that took its row, and the one that takes it when the stalled run reports a
failure and so releases a claim that is not its own. Two attempts exhaust the
budget. A message that was once sent is given up at the earliest after its first
correction, so a correction of it is the second (`EditRows`, `MaxEdits`); the
other row is there for the order of the queue and is not corrected.
Runs are interchangeable, so `MCOutboxStalls`, which has no temporal property,
is checked up to their symmetry.

Bounds of the event field. Three members are one in, one in line and one who
might overtake, and an odd number without a partner. One or two places make every
operation meet a full event; `LimitValues` with 0 is an event without a limit.
`MaxPairRows` keeps two pair rows of an event, enough for a pair that is replaced
or swapped. Two calls under way (`MaxCalls`) is one that read old settings next
to a newer one; an operation that would start a further call waits for one.
`MaxChanges` 1 suffices for each setting to change under every other operation,
and keeps the lock from being taken and released: the consequence of that is
named below. Members are interchangeable, and the two runs without liveness use it.

Bounds of the bracket. A quarter-final that feeds a semi-final, which feeds the
final and the third-place match, is the shortest chain in which a match that is
only half filled feeds two others; the other side of each is filled from outside.
Four operations are two results, the match they lead to, and an operation on an
earlier one; undoing and deciding again takes as many. Once a request has failed,
three operations are followed (`MaxFaultyOps`): a result, a correction that fails
on the way, and its repetition or erasure. All but `TypeOK` and `SwingAddsUp` speak
of operations in which nothing failed: a failed read of the next match is taken for
an undecided one (`routeEntry`), and a failed clearing leaves an entry behind.
In `MCBracketDesks` three operations of two desks are two
that overlap and one that decided the match before. Its operations are those a
desk uses while play goes on; erasing operations and withdrawals that race with
them do break its promises, see below. What `MCBracketDesk` says of the state
between operations needs no other desk to be meaningful: it is
checked for the sequences that one officer, or several one after the other, can
bring about.

### What the repository says and the code does not do

| Run | Property | What happens |
|---|---|---|
| `MCLadderRatedTwice` | `NeverRatedTwice` | confirm, dispute, accept rates a match twice, and a later void takes off only the second delta |
| `MCBracketExit` | `ResultStands` | a withdrawal while another desk is advancing an entry stamps a walkover over the final's rated result |

Each quotes, in `PROJECT.json` under `findings`, the line that promises
otherwise. The models have the following steps too, without a run of their own:

* A result confirmed after the rollover and then voided is taken off an archive
  that never held it, and stays on the live ratings (00249:53 against
  00249:17-18); `books` marks such a season.
* A refused walkover reopens its challenge without counting, and puts its creator
  over the cap on open challenges (00184:183).
* Accepting a disputed unrated match rates it (00178:134 against
  `actions/matches.ts:646-648`).
* A reversal is not clamped, so a void can leave the rating range (00249:65).
* The last request of an unrated `adminCreateMatch` updates by id alone
  (`actions/matches.ts:658-661`) and overwrites a void or a dispute that landed
  since the insert. `VoidStands` therefore speaks of challenge matches only.
* A run whose claim ran out posts the old wording again and marks a later
  correction as sent (`discord-message.ts:767` against 734-738). `SentIsShown` is
  therefore checked and proved for runs that keep their claims (`MaxStalls = 0`).
* The draw is locked, an entry withdraws, the fill is refused, the draw is
  unlocked: nobody offers the place (`brackets.ts:2062`). And a fill under way
  when the desk turns automatic promotion off still promotes, since it asks only
  whether the waitlist is on (`_internal.ts:2545-2561`).
* A void or an undo that lands between a result's write and its rating leaves a
  voided or an open match with a rating that counts (`results.ts:904`, 1821).
* An advancement whose target was read before another desk seated, voided or
  decided it writes into that match; a correction's writes into the slots it
  feeds have no condition at all (`results.ts:1647-1649`). A refused advancement
  leaves the result standing and the slot empty.
* A forfeit with one side empty that is corrected to that side leaves the match
  without a winner and the present entry as its loser: that entry stays in the next
  slot, since nobody is not written there (`results.ts:1646`), and enters the
  third-place match as well; undoing the result clears only the latter. 1636-1642
  say of these writes that they make "a flipped winner actually reach the next
  round". `Regular` excepts what follows from it.
* A result entered for an empty side routes nobody (`results.ts:580`). Where the
  next slot had been filled by hand it is emptied under a match that stays ready,
  though "'ready' and 'live' both assert both sides are known"
  (`results.ts:58-60`): `ReadyIsKnown` is checked and proved without seating by hand.
* Setting a slot by hand asks only about the other side of the same match, so an
  entry can sit in two matches of a round (`results.ts:1269`); a restored match
  may hold an entry that has withdrawn since.

### Fairness

None is assumed of the ladder: nobody has to answer, confirm or resolve
anything, and nothing but the expiry cron acts on a timer. Its properties are
safety properties.

The outbox has weak fairness of each run's ordinary steps (`Work`: pg_cron calls
the bot every five minutes, 00170:94-112, and a run that is not in trouble goes
on) and of `Expire` (time passes). Crashes, lost calls and stalls are never
fair; their number is bounded, which says that a message settles once trouble
stops. Discord may refuse for ever: the attempt budget is what settles the row
then.

The event field has weak fairness of the two requests of a waitlist call and of
deciding a join. The first two because the app runs `fillFromWaitlistAfterFree`
to its end unless it fails, and a failure is `LoseCall`, which is never fair;
the third because a transaction that waits for an advisory key gets it. Nothing
makes members or the desk act. `FreePlaceIsHandedOut` excepts what the code gives
up on: calls that were lost or refused.

None is assumed of the bracket: every one of its properties is a safety property.

## 4. What is proved

All theorems hold for any members, teams, events, seasons, runs, desks, brackets
and bounds, from the assumptions named in the modules (`ClubAssumption`,
`TeamAssumption`, `RatingAssumption`, `LadderAssumption`, `OutboxAssumption`,
`EventFieldAssumption`, `BracketAssumption`), which TLC evaluates on each run.

**The ladder** (`LadderProofs`):

* `Invariant`: `Spec => []LadderInv`, and from it `TypeCorrect`,
  `ResultsAreNeverBuried`, `ForfeitsAreAnswered`, `PlayNeedsAgreement`,
  `DisputesStayQueued`, `UnconfirmedIsUnrated`;
* `OverIsOver` and `VoidsStand`, action properties from the same invariant;
* `LadderKeepsPromise`: the refinement of `ChallengeOutcome`.

None of the five invariants is inductive alone. That no result is submitted while
a walkover waits follows from the status of the challenge, so `HeldByClaim` ties
a pending walkover to that status; that a disputed match stays queued needs
`QueuedHasMatch` where a discarded direct entry takes its disputes along; that
play needs agreement needs `OpenUnplayed` and `OpenUnrefused`, what an open
challenge still lacks. The eight functions that act on an existing match are
proved to be steps of one relation, `Moved`, and the invariant is proved once for
that relation.

**The books** (`BooksProofs`): `BooksAlwaysBalance` and `ClosedSeasonsStand`, for
any number of matches, from `BooksInvariant`, which adds to `LadderInv` that the
recorded matches are finitely many, that each lies in a season that was opened,
and that an entry still being made holds no rating change. A function of the
club changes one match, so what is needed of sums is that they change by the
change of one summand (`SumMove`). `SumFunctionOnSet` is a fold, and induction
over finite sets is out of the prover's reach, so `Sums` argues by a smallest
counterexample: if some set broke the law, so would one of least cardinality.
Per player each posting then moves the season's ratings and the match's share
of them by the same amount (`BookMove`); the rollover copies the ratings and
opens the next season with what it leaves live.

**The outbox** (`OutboxProofs`): `OutboxTypeCorrect`, and under `MaxStalls = 0`
`SentMessagesAreShown` and `OutboxKeepsPromise`, the safety part of the
refinement of `MessagePromise`. The condition is the code's own: the lease is
there to outlast a run, and the race that follows when it does not is among the
divergences above. `OutboxInv` says what a run may rely on while it holds a row:
the row's claim is fresh, it is the only run with that row, and the wording and
message id it was handed are still those of the row (`Held`); what Discord
answered it is true of the channel, so that what a write-back records has
happened (`Told`). An edit keeps it because its fence admits no row with a fresh
claim that is not settled; the expiry of a claim because without stalls it only
meets claims of runs that have died.

`NothingSaidTwice` has no such condition: every message beyond one per row is
paid for by a fault or a stall. Its invariant counts chances to post
(`ChancesPaid`): the pairs of a run and a row it may still post without a message
id, and the rows without one that a claim can reach. Messages and chances
together never exceed the rows, the faults and the stalls. A claim turns an open
row into a run's chance, a post turns a chance into a message, a failed post
gives the chance back, and only a crash, a lost call or the expiry of a claim
that is still held makes a new one.

**The event field** (`EventFieldProofs`): `FieldTypeCorrect`, `EveryoneInOnce`,
`OutIsFinal`, `EntryCapHolds`, `WaitersAreServed`, `WaitlistIsALine`,
`QueueIsRespected`. The actions are first shown to be instances of a few moves:
what they do to the two tables (a member enters, leaves, changes status, and so
on) and what they do to the line (one joins at its end, some leave, nothing).
Each property is then proved once per move. `QueueIsRespected` rests on the line
being a total order in which a set that leaves is closed towards the front: the
promoter's loop reaches a row only after all rows ahead of it. `EntryCapHolds`
needs `EveryoneInOnce`: a pairing's allowance for members it takes out of the
pool is right only because nobody is counted twice.

Two more count draw places. `NoPlaceBeyondLimit`: entry,
addition, pairing, swap and promotion each compute the places taken in their own
way, two members without a partner making one; the proof compares each
computation with the places afterwards, by the parity of the pool, and
for the promoter's loop by the last row it promoted, for which there was room.
`FreePlacesAreOffered` has the invariant `OfferedIn`: a place is free for the
first who waits only while a call is under way that will find it, or one was lost
or refused. A fill keeps it because it stops only at a row for which the event is
full.

**The bracket** (`BracketProofs`): `RatedMatchesShowTheirResult` and
`RatedResultsStand`, for any number of desks that enter results, forfeit, seat
and call (`Ops \subseteq PlayOps`, the operations of `MCBracketDesks`). The
condition is again the code's own: with a withdrawal among them the second is
false (`MCBracketExit`). `PlayInv` says what lies between two requests of an
operation: only its first request touches a result (`Shaped`); a desk that has
written a result and not yet rated it has the match to itself (`Alone`), and the
match still shows that result (`Shows`). A write keeps this because its condition
admits only a match that was open, which nobody can hold; the rating and the
restore because they meet the holder's own match; every other request because it
leaves the result, and the status of a decided match, alone (`Fixed`). Both
theorems follow from two lemmas, one for steps on a result of one's own and one
for the rest.

**One desk** (`DeskProofs`): `RowsKeepTheirShape`, the types of rows, swings and
requests, for any desks, operations and faults. Then, for one desk with every
operation and no failed request (`Desks = {d}`, `MaxFaults = 0`; what
`MCBracketDesk` checks, for any bracket and any number of operations):
`OneDeskRatesTheDecided` and `OneDeskRatesInOrder`.
The condition says what the promises are worth: with a second desk among the
corrections they fail in the ways listed above. The invariant `OneInv` is about
the list of requests a desk has still to make:

* the list is a plan: its requests stand in a fixed order of kinds, a result that
  is written will be looked at for its rating, and a rating is only taken back
  for an erasure or a correction (`Planned`);
* what was read when a request was made still fits the rows it is about
  (`Fits`), since only the desk's own earlier requests ran in between;
* a decided match that is not rated is in hand: it is about to be rated, erased
  or corrected (`InHand`);
* a rating that counts is that of the result, and an open match has no winner and
  no loser (`Tidy`).

A request is proved to take such a list to such a list, once per kind; an
operation to begin with one. An empty list then leaves nothing in hand, which is
the theorem. That ratings are in order is a matter of two matches: while one is being rated
no other is in hand, so every decided match that feeds it has its rating.

**The paths of a knockout** (`PathProofs`): for one desk and no failed request,
`OneDeskWinnersPlayed`, `OneDeskSwingsAddUp`, `OneDeskSlotsFollowResults` and
`OneDeskCallsKnownEntries`, for any number of operations. They relate a
match to those it feeds, so they need two conditions more. The desk sets no slot
by hand (`"seat" \notin Ops`, as in the runs): with that operation a promise like
`WinnerPlayed` is false, for an entry can be seated where its results route it
opposite itself. And
the draw is a knockout, `Knockout(reach)`: each slot is fed by one result at most
and the draw leaves it empty, and there are sets `reach` of entries, one for each
side of a match, that hold who is seated there, pass from a match to the slots it
feeds, and are disjoint for the two sides of a match. The code draws winners along
a tree and losers of the semi-finals to the two sides of the third-place match
(brackets.ts:1048-1056, 1413-1426), where the sides of a match are reached from
disjoint parts of the draw. TLC evaluates `DrawnAsKnockout` for each bracket.
A result entered for an empty side, and a correction to one, are among the
operations of all four; the last two properties speak of the time before the first
such correction. `SwingAddsUp` is checked with a fault and proved without one.

The invariant `PathInv`, on top of `OneInv`:

* everybody is within reach of the side they sit on (`Within`), so the two sides
  of a match are never the same entry, nor are its winner and loser;
* who stands in a slot that is fed was sent there by the result as it stands,
  but for the moment in which a correction writes the slots anew (`Followed`);
* a request that brings an entry, or nobody, to a slot has its result written, or
  about to be, and not about to be taken back (`Sent`), and the match of that slot
  is undecided or will still be looked at (`Passed`), so that a decided match keeps its players;
* an erasure finds the slots of its match empty or has the requests ahead that
  empty them (`Emptying`); a correction has those that write them
  (`Rewriting`).

`Sent`, `Followed`, `Emptying` and `Rewriting` are lost with the first correction to
an empty side. So `PathInv` has the set of operations as a parameter, and
`OnPaths`, the invariant of the theorems, is `PathInv` for all operations together
with `PathInv` without `"reaward"` as long as none has begun.

As in `DeskProofs`, a request is proved to keep this once per kind, and an
operation to begin with it. `Emptying` is where the order of the code matters: a void and an
undo clear the slots before they take the result away, so that at no moment an
entry sits in a later round without a result that sent it. `CallsKnown`, that a
match which is ready or live has both its sides, is kept on top of that: nobody is
only ever written into a slot whose own result sends nobody there, and by
`Followed` such a slot is empty already, so its match is not ready. Swings are compared
with cardinalities of sets of matches: a rating adds one match to them, a
reversal takes one out.

Only model-checked: the liveness of the outbox and the field (TLAPS has no rules
for fairness and ENABLED that its provers can use). Of the safety properties of the
passing runs each has its theorem. No module declares a RECURSIVE operator.

## 5. Not modelled

Listed with the reason in `PROJECT.json`. In short: presentation, notifications
and the read-only data API keep no state that matters to correctness;
permissions are a check in front of each action; player merge and purges change
the set of players, which is constant here; bot role sync reconciles with an
external service. Of the tournaments, generating and publishing a draw, pools and
staged events, courts and schedules, and the finishing of an event are left out:
each is a component of the size of those modelled. Tokens, session reminders, fee
submissions and the reliability counter of the expiry cron are single conditional
statements or repeat the lease of the outbox and the key of the event field.

## 6. Where to go on

1. Publishing a draw: `generateBracket` request by request against entries that
   leave, a second desk, and the event going live; then pools and finishing.
2. Proofs: what several desks still promise of the slots once corrections and
   withdrawals are among their operations, for which the promises above are false
   and weaker ones have to be found; `SwingAddsUp` with failed requests.
3. One-time tokens, reminder claims, fee submissions, the rest of the expiry cron.
