------------------------------ MODULE MCRestServer ------------------------------
(***************************************************************************)
(* Instances of RestServer for TLC.  More sessions than the applications   *)
(* and their queues can hold, as with the five of the program and a client *)
(* at a time, are never exhausted; the other runs have fewer.              *)
(***************************************************************************)
EXTENDS RestServer, TLC

Peers == Permutations(Clients) \cup Permutations(Apps)

NoCases == {}
AllCases == {"hangup", "unreadable", "unsupported", "status", "encode"}
HangUps == {"hangup"}

=============================================================================
