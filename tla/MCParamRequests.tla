--------------------------- MODULE MCParamRequests ---------------------------
(* Small instances of ParamRequests for TLC. *)
EXTENDS ParamRequests, TLC
CONSTANTS c1, c2, block, v0, v1
OneClient == {c1}
TwoClients == {c1, c2}
TwoValues == {v0, v1}
SetGetAndSet == [c \in Clients |-> IF c = c1 THEN {"set", "get"} ELSE {"set"}]
Once == [c \in Clients |-> 1]
TwiceAndOnce == [c \in Clients |-> IF c = c1 THEN 2 ELSE 1]
=============================================================================
