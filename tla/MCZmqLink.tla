------------------------------ MODULE MCZmqLink ------------------------------
(* Small instances of ZmqLink for TLC. *)
EXTENDS ZmqLink
FirstAndLast == {0, Items - 1}
EveryPattern == {"PUSH", "REQ", "NET"}
=============================================================================
