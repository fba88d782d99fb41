----------------------------- MODULE MCPacketApps -----------------------------
(***************************************************************************)
(* Instances of the packet multiplexer, of packet trace and of black hole  *)
(* detection for TLC.  The three are checked one at a time: part, chosen   *)
(* at the start, says which one runs; the others keep their initial state. *)
(***************************************************************************)
EXTENDS PacketMux, PacketTrace, BlackHole

VARIABLE part

appsVars == <<muxVars, ptVars, bhdVars, part>>

MCInit ==
  /\ part \in {"mux", "pt", "bhd"}
  /\ PktMuxInit /\ PtInit /\ BhdInit
  /\ part # "pt" => careful
  /\ trouble = "units" <=> chip = "td2"
  /\ part # "bhd" => trouble = "none" /\ chip = "th"

MuxRuns == part = "mux" /\ PktMuxNext /\ UNCHANGED <<ptVars, bhdVars, part>>
PtRuns == part = "pt" /\ PtNext /\ UNCHANGED <<muxVars, bhdVars, part>>
BhdRuns == part = "bhd" /\ BhdNext /\ UNCHANGED <<muxVars, ptVars, part>>
MCNext == MuxRuns \/ PtRuns \/ BhdRuns

(* The fairness of the part that runs; in the initial state of the others  *)
(* nothing that fairness is about is enabled.                              *)
MCSpec == MCInit /\ [][MCNext]_appsVars /\ PktMuxFairness /\ PtFairness /\ BhdFairness

----------------------------------------------------------------------------
(* Types, queues within their size, tables within theirs.                  *)
AppsTypeOK == PktMuxTypeOK /\ PtTypeOK /\ BhdTypeOK

(* A timer runs for what is reported periodically and for nothing else: of *)
(* packet trace for a profile of its slot, of black hole detection for a   *)
(* unit that samples, whichever calls failed on the way.                   *)
TimersServe == TimersServeProfiles /\ TimerWhileSampling

(* Whichever call into the switch failed, and for packet trace whatever    *)
(* clients ask: the requests of the plugin's table have their rules in the *)
(* switch, and with one unit in use the packets of a black hole sampled by *)
(* the agent arrive.  Only where no call fails, and of packet trace only   *)
(* with careful clients, has the switch nothing besides.  With several     *)
(* units in use nothing is claimed of black holes.                         *)
SwitchInStep == RulesReachRequests /\ SwitchMatchesConfig

(* Both applications implement SampledReports: no more packets and no more *)
(* reports than the limit of their period.                                 *)
ReportsWithinLimits == PacketsLimited /\ ReportsLimited

(* The switch's receive thread is never kept for ever, a profile is        *)
(* reported while it is believed active, and a unit that samples gets a    *)
(* new window.                                                             *)
PacketProgress == ReceiverReleased /\ ProfilesReported /\ SamplingResumes
=============================================================================
