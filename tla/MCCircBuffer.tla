--------------------------- MODULE MCCircBuffer ---------------------------
(* A small instance of CircBuffer for TLC.  An item of one reader is neither *)
(* a multiple nor a divisor of the writer's; the other reads single bytes.  *)
EXTENDS CircBuffer, TLC

CONSTANTS r1, r2

TwoReaders == {r1, r2}
TwoSizes == [r \in Readers |-> IF r = r1 THEN 3 ELSE 1]

(* Nothing is claimed, but the types, of what follows a wrong count. *)
UntilMisled == ~misled
=============================================================================
