----------------------------- MODULE MessagePromise -----------------------------
(***************************************************************************)
(* What the console promises of each message it queues: it is reported as  *)
(* sent only when its latest wording is in the channel, and it does not    *)
(* stay pending for ever - it is sent or it is given up with a reason on   *)
(* screen.  DiscordOutbox implements this specification.                   *)
(***************************************************************************)
EXTENDS Integers

CONSTANT NRows

VARIABLE promise

Messages == 1..NRows

PromiseInit == promise = [r \in Messages |-> "none"]

Become(r, from, to) ==
    /\ promise[r] \in from
    /\ promise' = [promise EXCEPT ![r] = to]

Ask(r)    == Become(r, {"none"}, "pending")
Show(r)   == Become(r, {"pending"}, "shown")
Close(r)  == Become(r, {"shown"}, "sent")
GiveUp(r) == Become(r, {"pending", "shown"}, "failed")
Reword(r) == Become(r, {"pending", "shown", "sent", "failed"}, "pending")

PromiseNext == \E r \in Messages : Ask(r) \/ Show(r) \/ Close(r) \/ GiveUp(r) \/ Reword(r)

PromiseSafety == PromiseInit /\ [][PromiseNext]_promise

PromiseSpec ==
    /\ PromiseSafety
    /\ \A r \in Messages : WF_promise(Close(r) \/ GiveUp(r))
=============================================================================
