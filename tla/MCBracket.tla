-------------------------------- MODULE MCBracket -------------------------------
(***************************************************************************)
(* Instances of the bracket for TLC.                                       *)
(***************************************************************************)
EXTENDS BracketProperties, TLC

CONSTANTS d1, d2, q, s1, f, t, e1, e2, e3, e4, e5

(* A semi-final and the final, whose other side is filled.                 *)
ShortRounds == <<s1, f>>
ShortWinnerTo == [m \in {s1, f} |-> IF m = s1 THEN <<f, "a">> ELSE NoSlot]
ShortLoserTo == [m \in {s1, f} |-> NoSlot]
Side(a, b) == [s \in Sides |-> IF s = "a" THEN a ELSE b]
ShortSeats == [m \in {s1, f} |-> IF m = s1 THEN Side(e1, e2) ELSE Side(None, e3)]

(* A quarter-final, the semi-final it leads to, where e3 waits, and the    *)
(* final and third-place match, for which the other semi-final is played.  *)
LongRounds == <<q, s1, f, t>>
LongMatches == {q, s1, f, t}
LongWinnerTo == [m \in LongMatches |->
    CASE m = q -> <<s1, "a">> [] m = s1 -> <<f, "a">> [] OTHER -> NoSlot]
LongLoserTo == [m \in LongMatches |-> IF m = s1 THEN <<t, "a">> ELSE NoSlot]
LongSeats == [m \in LongMatches |->
    CASE m = q -> Side(e1, e2) [] m = s1 -> Side(None, e3)
      [] m = f -> Side(None, e4) [] m = t -> Side(None, e5)]

(* Each is a knockout: the entries that can reach each side.               *)
Reach == [m \in Matches |->
    CASE m = q  -> Side({e1}, {e2})
      [] m = s1 -> IF q \in Matches THEN Side({e1, e2}, {e3}) ELSE Side({e1}, {e2})
      [] m = f  -> IF q \in Matches THEN Side({e1, e2, e3}, {e4}) ELSE Side({e1, e2}, {e3})
      [] m = t  -> Side({e1, e2, e3}, {e5})]
ASSUME DrawnAsKnockout == Knockout(Reach)

(* Bound: once a request has failed, at most this many operations have     *)
(* begun, that of the failure among them.                                  *)
MaxFaultyOps == 3
FaultsEarly == faults > 0 => Len(begun) <= MaxFaultyOps

Symmetry == Permutations(Desks)
=============================================================================
