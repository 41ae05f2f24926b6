------------------------------- MODULE MCTags -------------------------------
(* Small instances of Tags for TLC. *)
EXTENDS Tags, TLC
CONSTANTS s1, s2
TwoSinks == {s1, s2}
OneSink == {s1}
(* Nothing is said of what follows the disturbance of a walk. *)
UntilDisturbed == ~disturbed
Rates == [s \in Sinks |-> IF s = s1 THEN 1 ELSE 2]
=============================================================================
