------------------------------- MODULE MCLadder -------------------------------
(***************************************************************************)
(* Instances of the ladder for TLC.  The teams are functions of the slots  *)
(* a configuration lists, so they are defined here and named in the .cfg.  *)
(***************************************************************************)
EXTENDS LadderProperties, TLC

CONSTANTS p1, p2, p3, p4, c1, c2, d1, d2, s1, s2

\* Singles: every slot is p1 against p2.
SinglesA == [m \in Matches |-> {p1}]
SinglesB == [m \in Matches |-> {p2}]
SinglesChallenger == [c \in Challenges |-> p1]

\* Doubles: p1 and p3 against p2 and p4.
DoublesA == [m \in Matches |-> {p1, p3}]
DoublesB == [m \in Matches |-> {p2, p4}]

\* The challenge is p1 against p2, the admin enters p2 against p1.
SwappedA == [m \in Matches |-> IF m \in Challenges THEN {p1} ELSE {p2}]
SwappedB == [m \in Matches |-> IF m \in Challenges THEN {p2} ELSE {p1}]
=============================================================================
