-------------------------------- MODULE MCOutbox --------------------------------
(***************************************************************************)
(* Instances of the outbox for TLC.                                        *)
(***************************************************************************)
EXTENDS OutboxProperties, TLC

CONSTANTS b1, b2, b3

BotSymmetry == Permutations(Bots)
=============================================================================
