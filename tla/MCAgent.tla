------------------------------- MODULE MCAgent -------------------------------
(***************************************************************************)
(* Instances of the agent's start, of its own application, of the          *)
(* south-bound redirector and of the plug-in over a database for TLC.  The *)
(* four are checked one at a time: part, chosen at the start, says which   *)
(* one runs.                                                               *)
(***************************************************************************)
EXTENDS AgentStartup, Heartbeat, Redirector, OvsdbBst

VARIABLE part

agentVars == <<startVars, hbVars, redVars, ovVars, part>>

----------------------------------------------------------------------------
(* The plug-ins: one of a vendor, which is there before any call, one with *)
(* too many chips, and the two of the repository, of which the last finds  *)
(* no place.                                                               *)
VendorPlugin == [features |-> <<Feature("bst", {AllChips}), Feature("pt", {"td2"})>>, asics |-> 1]
TooManyChips == [features |-> <<Feature("bst", {AllChips})>>, asics |-> 2]
MCRegistrations == <<VendorPlugin, TooManyChips, BrcmPlugin, OvsdbPlugin>>

(* Every function is called by one thread, while another asks for a name. *)
MCMayCall == [t1 |-> DOMAIN Apis, t2 |-> {"name_get"}]
MCChipOf == [u \in 0..1 |-> IF u = 0 THEN "td2" ELSE "th"]

(* A chip smaller than the tables; rows of two ports and of a queue; files *)
(* that name the socket, and one whose two lines are comments.             *)
MCScale == [ports |-> 2, pgs |-> 2, sps |-> 2, ucqs |-> 2, mcqs |-> 2, groups |-> 2, cpus |-> 2, rqes |-> 2]
MCLargest == [ports |-> 3, pgs |-> 2, sps |-> 2, isps |-> 3, ucqs |-> 3, mcqs |-> 2, groups |-> 2, cpus |-> 2, rqes |-> 2]
MCWatched == <<<<"PRI_GROUP_HEADROOM", 2, 1>>, <<"UCAST", 0, 0>>, <<"PRI_GROUP_HEADROOM", 1, 1>>>>
MCConfigFiles == {<<"comment", "socket">>, <<"comment", "comment", "socket">>}

----------------------------------------------------------------------------
(* When another part runs, the main thread has nothing left to start. *)
MCInit ==
  /\ part \in {"startup", "heartbeat", "redirector", "ovsdb"} /\ HbInit /\ RedInit
  /\ OvStarts(IF part = "ovsdb" THEN "starting" ELSE "ended")
  /\ StartsWith(IF part = "startup" THEN InitPh2 ELSE [at |-> AllStarted, step |-> 1])

StartupRuns == part = "startup" /\ StartupNext /\ UNCHANGED <<hbVars, redVars, ovVars, part>>
HeartbeatRuns == part = "heartbeat" /\ HbNext /\ UNCHANGED <<startVars, redVars, ovVars, part>>
RedirectorRuns == part = "redirector" /\ RedNext /\ UNCHANGED <<startVars, hbVars, ovVars, part>>
OvsdbRuns == part = "ovsdb" /\ OvNext /\ UNCHANGED <<startVars, hbVars, redVars, part>>
MCNext == StartupRuns \/ HeartbeatRuns \/ RedirectorRuns \/ OvsdbRuns

(* The fairness of the part that runs; in the initial state of the others  *)
(* nothing that fairness is about is enabled.                              *)
MCSpec == MCInit /\ [][MCNext]_agentVars /\ StartupFairness /\ RedFairness /\ OvFairness

----------------------------------------------------------------------------
(* Types, and every table and queue within its size, of the part that     *)
(* runs; the others stay as they are.                                      *)
AgentTypeOK ==
  CASE part = "startup" -> StartupTypeOK
    [] part = "heartbeat" -> HbTypeOK
    [] part = "redirector" -> RedTypeOK
    [] OTHER -> OvTypeOK

(* Whatever fails while the agent starts, a thread that runs has its       *)
(* memory, one slot of the module manager and its queue, with nothing of   *)
(* an earlier run in it; but for a queue that msgget refused, where the    *)
(* code starts the thread all the same.                                    *)
StartupSafe == part = "startup" => OwnRunOnly /\ ThreadsProvided /\ EachRegisteredOnce

(* The heartbeat is the one that was configured, each that goes on and     *)
(* that nothing can stop is owed to a deletion that failed, and every      *)
(* session that is in use has its reason.                                  *)
HeartbeatRight == part = "heartbeat" => LostOnlyUndeleted /\ BeatsAsConfigured /\ SessionsAccounted

(* A call goes to the plug-in that serves it best; and what the plug-in    *)
(* over the database sets and tells belongs to the statistic it was asked  *)
(* for.                                                                    *)
PluginsRight ==
  /\ part = "redirector" => BestMatch
  /\ part = "ovsdb" => CacheFromDatabase /\ SetWhereAsked

(* Threads that start come to serve, what waits for them is taken, and a   *)
(* call through the redirector ends with its locks given back; what the    *)
(* database tells is taken while the connection lasts.                     *)
AgentProgress == ThreadsStart /\ RequestsTaken /\ CallsEnd /\ NotificationsTaken
=============================================================================
