------------------------------ MODULE MCSmBuffer ------------------------------
(* Small instances of SmBuffer for TLC. *)
EXTENDS SmBuffer, TLC
CONSTANTS r1, r2
TwoReaders == {r1, r2}
UnitSizes == [r \in Readers |-> 1]
=============================================================================
