------------------------ MODULE MCDistributedRuntime ------------------------
(* Hosts for TLC. *)
EXTENDS DistributedRuntime
CONSTANTS h1, h2, h3, none
TwoRemotes == <<h2, h3>>
OneRemote == <<h2>>
AllConnected == Hosts \X Hosts
=============================================================================
