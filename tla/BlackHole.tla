----------------------------- MODULE BlackHole -----------------------------
(***************************************************************************)
(* The black hole detection application (apps/bhd).  Each unit has at most *)
(* one black hole; with agent sampling a timer opens a sampling period now *)
(* and then, and the first packets of a period that the switch copied to   *)
(* the CPU are reported.  All units share one hook of the packet           *)
(* multiplexer and one record of the plugin (BhdPolicy).                   *)
(***************************************************************************)
EXTENDS BhdPolicy, Sequences

CONSTANTS Units, Unit1,   \* the units of the switch, and one of them
          Chips,          \* "th", "td2", "qumran"
          SampleCount,    \* packets reported per period
          BhdQueue,       \* messages the application's queue holds
          BhdHalfQueue,   \* SYSTEM_MSGQ_MAX_MSG/2
          BhdFaults       \* calls that may fail: BhdPolicy's, "timer", "pcap", "encode"

ASSUME BlackHoleAssumption ==
  Unit1 \in Units /\ SampleCount \in Nat /\ BhdQueue \in Nat \ {0} /\ BhdHalfQueue \in Nat

VARIABLES trouble,     \* "none", several units in use, or calls that fail
          chip,        \* the switch's chip
          bhd_config,  \* per unit: enable, black_hole_configured, the method
          bhd_oper,    \* per unit: start_sampling, current_sample_count
          bhd_timer,   \* per unit: bhd_timer.in_use
          bhd_running, \* per unit: its system timers
          bhd_hook,    \* whether the application has its hook in the multiplexer
          bhd_queue,   \* the application's message queue
          bhd_client,  \* the request a client waits for
          reports,     \* per unit: event reports sent in this period
          policy,      \* what the plugin remembers
          bhd_hw       \* the groups and mirrors in the switch

bhdVars == <<trouble, chip, bhd_config, bhd_oper, bhd_timer, bhd_running, bhd_hook, bhd_queue, bhd_client, reports, policy, bhd_hw>>

SamplingMethods == {"agent", "sflow"}
NotConfigured(enable) == [enable |-> enable, configured |-> FALSE, method |-> "none"]
NoClient == [msg |-> "idle", unit |-> Unit1, arg |-> "none"]
UnitsAsked == IF trouble = "units" THEN Units ELSE {Unit1}
BhdInputs == IF trouble = "faults" THEN BhdFaults \cup {"none"} ELSE {"none"}

(* sbplugin_common_bhd_asic_sampling_cap_get *)
SamplingCapabilities == IF chip = "th" THEN SamplingMethods ELSE {"agent"}

BhdInit ==
  /\ trouble \in {"none", "units", "faults"}
  /\ chip \in Chips
  /\ bhd_config = [u \in Units |-> NotConfigured(FALSE)]
  /\ bhd_oper = [u \in Units |-> [start_sampling |-> FALSE, current_sample_count |-> 0]]
  /\ bhd_timer = [u \in Units |-> FALSE]
  /\ bhd_running = [u \in Units |-> 0]
  /\ bhd_hook = FALSE
  /\ bhd_queue = << >>
  /\ bhd_client = NoClient
  /\ reports = [u \in Units |-> 0]
  /\ policy = NoPolicy
  /\ bhd_hw = {}

----------------------------------------------------------------------------
(* Requests of clients, one at a time; packets and timers post unawaited.  *)
(* bhd_send_request loses what finds the queue full.                       *)
BhdSendRequest(m) == Len(bhd_queue) < BhdQueue /\ bhd_queue' = Append(bhd_queue, m)

BhdAsk(m) ==
  /\ bhd_client = NoClient
  /\ BhdSendRequest(m)
  /\ bhd_client' = m
  /\ UNCHANGED <<trouble, chip, bhd_config, bhd_oper, bhd_timer, bhd_running, bhd_hook, reports, policy, bhd_hw>>

(* A bug to tell apart: a timer posts although there is no room. *)
PeriodicSamplingCbUnbounded(u) ==
  /\ bhd_running[u] > 0
  /\ Len(bhd_queue) <= BhdQueue
  /\ bhd_queue' = Append(bhd_queue, [msg |-> "period", unit |-> u, arg |-> "none"])
  /\ UNCHANGED <<trouble, chip, bhd_config, bhd_oper, bhd_timer, bhd_running, bhd_hook, bhd_client, reports, policy, bhd_hw>>

(* bhd_periodic_sampling_cb: the context of a forgotten timer is cleared,  *)
(* and msgsnd refuses a message of type 0.                                 *)
PeriodicSamplingCb(u) ==
  /\ bhd_running[u] > 0 /\ bhd_timer[u]
  /\ BhdSendRequest([msg |-> "period", unit |-> u, arg |-> "none"])
  /\ UNCHANGED <<trouble, chip, bhd_config, bhd_oper, bhd_timer, bhd_running, bhd_hook, bhd_client, reports, policy, bhd_hw>>

(* A packet that an agent-sampling rule copied to the CPU: recognised by   *)
(* the plugin when its port is among those remembered, handed over while   *)
(* the hook is there, refused when the queue is more than half full.       *)
BhdPktMuxCb(u) ==
  /\ \E h \in bhd_hw : h.stage = "ingress" /\ h.asic = u /\ h.method = "agent"
  /\ policy.ports
  /\ bhd_hook
  /\ Len(bhd_queue) <= BhdHalfQueue
  /\ BhdSendRequest([msg |-> "event", unit |-> u, arg |-> "none"])
  /\ UNCHANGED <<trouble, chip, bhd_config, bhd_oper, bhd_timer, bhd_running, bhd_hook, bhd_client, reports, policy, bhd_hw>>

----------------------------------------------------------------------------
(* The application's thread. *)
BhdServing(msg) == bhd_queue # << >> /\ Head(bhd_queue).msg = msg /\ bhd_queue' = Tail(bhd_queue)
M == Head(bhd_queue)
Answered == bhd_client' = NoClient
Enabled(u) == bhd_config[u].enable
Configured(u) == bhd_config[u].configured

(* bhd_periodic_sampling_timer_add and _delete *)
TimerDeleted(u) ==
  /\ bhd_running' = [bhd_running EXCEPT ![u] = IF bhd_timer[u] THEN @ - 1 ELSE @]
  /\ bhd_timer' = [bhd_timer EXCEPT ![u] = FALSE]
TimerAdded(u) ==
  /\ bhd_running' = [bhd_running EXCEPT ![u] = @ + 1]
  /\ bhd_timer' = [bhd_timer EXCEPT ![u] = TRUE]
TimerUntouched == UNCHANGED <<bhd_timer, bhd_running>>

OpenWindow(u) ==
  /\ bhd_oper' = [bhd_oper EXCEPT ![u] = [start_sampling |-> TRUE, current_sample_count |-> 0]]
  /\ reports' = [reports EXCEPT ![u] = 0]

(* bhd_feature_set: disabling takes the hook and the timer away, asks the  *)
(* plugin to cancel whatever it knows, and forgets the black hole.         *)
BhdFeatureUnchanged ==
  /\ BhdServing("feature")
  /\ Enabled(M.unit) = M.arg
  /\ Answered
  /\ UNCHANGED <<trouble, chip, bhd_config, bhd_oper, bhd_timer, bhd_running, bhd_hook, reports, policy, bhd_hw>>

BhdFeatureEnable ==
  /\ BhdServing("feature") /\ M.arg /\ ~Enabled(M.unit)
  /\ bhd_config' = [bhd_config EXCEPT ![M.unit].enable = TRUE]
  /\ Answered
  /\ UNCHANGED <<trouble, chip, bhd_oper, bhd_timer, bhd_running, bhd_hook, reports, policy, bhd_hw>>

BhdFeatureDisable(fault) ==
  LET cancelled == CancelBlackHole(policy, bhd_hw, M.unit, fault)
  IN /\ BhdServing("feature") /\ ~M.arg /\ Enabled(M.unit)
     /\ bhd_hook' = FALSE
     /\ TimerDeleted(M.unit)
     /\ policy' = cancelled.policy /\ bhd_hw' = cancelled.hw
     /\ bhd_config' = [bhd_config EXCEPT ![M.unit] = NotConfigured(FALSE)]
     /\ OpenWindow(M.unit)
     /\ Answered
     /\ UNCHANGED <<trouble, chip>>

(* bhd_configure_black_hole: refused, failed in the plugin, configured for *)
(* sFlow, or for the agent, which needs its timer and the hook.            *)
ConfigureRefused ==
  /\ BhdServing("configure")
  /\ ~Enabled(M.unit) \/ Configured(M.unit) \/ M.arg \notin SamplingCapabilities
  /\ Answered
  /\ UNCHANGED <<trouble, chip, bhd_config, bhd_oper, bhd_timer, bhd_running, bhd_hook, reports, policy, bhd_hw>>

PlatformConfigure(u, method, fault) ==
  IF chip = "qumran" THEN ConfigBlackHoleDnx(policy, bhd_hw, u, fault)
  ELSE ConfigBlackHole(bhd_hw, u, method, fault)

MayConfigure ==
  BhdServing("configure") /\ Enabled(M.unit) /\ ~Configured(M.unit) /\ M.arg \in SamplingCapabilities

ConfigureFails(fault) ==
  LET made == PlatformConfigure(M.unit, M.arg, fault)
  IN /\ MayConfigure /\ made.rv = "failure"
     /\ policy' = made.policy /\ bhd_hw' = made.hw
     /\ Answered
     /\ UNCHANGED <<trouble, chip, bhd_config, bhd_oper, bhd_timer, bhd_running, bhd_hook, reports>>

ConfigureSflow(fault) ==
  LET made == PlatformConfigure(M.unit, M.arg, fault)
  IN /\ MayConfigure /\ M.arg = "sflow" /\ made.rv = "success"
     /\ policy' = made.policy /\ bhd_hw' = made.hw
     /\ bhd_config' = [bhd_config EXCEPT ![M.unit] = [enable |-> TRUE, configured |-> TRUE, method |-> "sflow"]]
     /\ Answered
     /\ UNCHANGED <<trouble, chip, bhd_oper, bhd_timer, bhd_running, bhd_hook, reports>>

(* Without the timer, or with the hook refused because another unit has    *)
(* it, the black hole is removed again; bh_config keeps the method.        *)
(* A bug to tell apart: the timer runs on when the hook is refused. *)
ConfigureUndoneHalf(fault) ==
  LET made == PlatformConfigure(M.unit, "agent", fault)
      undone == CancelBlackHole(made.policy, made.hw, M.unit, fault)
  IN /\ MayConfigure /\ M.arg = "agent" /\ made.rv = "success"
     /\ fault = "timer" \/ bhd_hook
     /\ policy' = undone.policy /\ bhd_hw' = undone.hw
     /\ bhd_config' = [bhd_config EXCEPT ![M.unit].method = "agent"]
     /\ IF fault = "timer" THEN TimerUntouched ELSE TimerAdded(M.unit)
     /\ Answered
     /\ UNCHANGED <<trouble, chip, bhd_oper, bhd_hook, reports>>

ConfigureUndone(fault) ==
  LET made == PlatformConfigure(M.unit, "agent", fault)
      undone == CancelBlackHole(made.policy, made.hw, M.unit, fault)
  IN /\ MayConfigure /\ M.arg = "agent" /\ made.rv = "success"
     /\ fault = "timer" \/ bhd_hook
     /\ policy' = undone.policy /\ bhd_hw' = undone.hw
     /\ bhd_config' = [bhd_config EXCEPT ![M.unit].method = "agent"]
     /\ TimerUntouched
     /\ Answered
     /\ UNCHANGED <<trouble, chip, bhd_oper, bhd_hook, reports>>

ConfigureAgent(fault) ==
  LET made == PlatformConfigure(M.unit, "agent", fault)
  IN /\ MayConfigure /\ M.arg = "agent" /\ made.rv = "success"
     /\ fault # "timer" /\ ~bhd_hook
     /\ policy' = made.policy /\ bhd_hw' = made.hw
     /\ bhd_config' = [bhd_config EXCEPT ![M.unit] = [enable |-> TRUE, configured |-> TRUE, method |-> "agent"]]
     /\ TimerAdded(M.unit)
     /\ bhd_hook' = TRUE
     /\ OpenWindow(M.unit)
     /\ Answered
     /\ UNCHANGED <<trouble, chip>>

(* The get requests are answered from what is configured and change        *)
(* nothing the other requests depend on.                                   *)
BhdAnswerGet(what) ==
  /\ BhdServing("get") /\ M.arg = what
  /\ Answered
  /\ UNCHANGED <<trouble, chip, bhd_config, bhd_oper, bhd_timer, bhd_running, bhd_hook, reports, policy, bhd_hw>>
BhdFeatureGet == BhdAnswerGet("feature")
GetBlackHole == BhdAnswerGet("black_hole")
SflowSampleStatusGet == BhdAnswerGet("sflow")

(* bhd_cancel_black_hole: what the plugin could not cancel stays.          *)
CancelRefused(fault) ==
  LET cancelled == CancelBlackHole(policy, bhd_hw, M.unit, fault)
      tried == Enabled(M.unit) /\ Configured(M.unit)
  IN /\ BhdServing("cancel")
     /\ tried => cancelled.rv = "failure"
     /\ policy' = IF tried THEN cancelled.policy ELSE policy
     /\ bhd_hw' = IF tried THEN cancelled.hw ELSE bhd_hw
     /\ Answered
     /\ UNCHANGED <<trouble, chip, bhd_config, bhd_oper, bhd_timer, bhd_running, bhd_hook, reports>>

Cancel(fault) ==
  LET cancelled == CancelBlackHole(policy, bhd_hw, M.unit, fault)
  IN /\ BhdServing("cancel") /\ Enabled(M.unit) /\ Configured(M.unit)
     /\ cancelled.rv = "success"
     /\ policy' = cancelled.policy /\ bhd_hw' = cancelled.hw
     /\ bhd_hook' = FALSE
     /\ TimerDeleted(M.unit)
     /\ bhd_config' = [bhd_config EXCEPT ![M.unit] = NotConfigured(TRUE)]
     /\ Answered
     /\ UNCHANGED <<trouble, chip, bhd_oper, reports>>

(* bhd_start_time_period; nobody checks that the black hole is still there. *)
PeriodStart ==
  /\ BhdServing("period")
  /\ OpenWindow(M.unit)
  /\ UNCHANGED <<trouble, chip, bhd_config, bhd_timer, bhd_running, bhd_hook, bhd_client, policy, bhd_hw>>

(* A bug to tell apart: the bound of a period is off by one. *)
WindowOpenTooLong(u) ==
  bhd_oper[u].start_sampling /\ bhd_oper[u].current_sample_count <= SampleCount

(* bhd_process_black_hole_event and the report: counted once the packet is *)
(* converted, also when the report cannot be encoded.                      *)
WindowOpen(u) ==
  bhd_oper[u].start_sampling /\ bhd_oper[u].current_sample_count < SampleCount

Sampling(u) == Enabled(u) /\ Configured(u) /\ bhd_config[u].method = "agent"

EventReported(fault) ==
  /\ BhdServing("event")
  /\ Sampling(M.unit) /\ WindowOpen(M.unit) /\ fault # "pcap"
  /\ bhd_oper' = [bhd_oper EXCEPT ![M.unit].current_sample_count = @ + 1]
  /\ reports' = IF fault = "encode" THEN reports ELSE [reports EXCEPT ![M.unit] = @ + 1]
  /\ UNCHANGED <<trouble, chip, bhd_config, bhd_timer, bhd_running, bhd_hook, bhd_client, policy, bhd_hw>>

EventDropped(fault) ==
  /\ BhdServing("event")
  /\ ~Sampling(M.unit) \/ ~WindowOpen(M.unit) \/ fault = "pcap"
  /\ UNCHANGED <<trouble, chip, bhd_config, bhd_oper, bhd_timer, bhd_running, bhd_hook, bhd_client, reports, policy, bhd_hw>>

BhdAppMain(fault) ==
  \/ BhdFeatureUnchanged
  \/ BhdFeatureEnable
  \/ BhdFeatureDisable(fault)
  \/ ConfigureRefused
  \/ ConfigureFails(fault)
  \/ ConfigureSflow(fault)
  \/ ConfigureUndone(fault)
  \/ ConfigureAgent(fault)
  \/ BhdFeatureGet
  \/ GetBlackHole
  \/ SflowSampleStatusGet
  \/ CancelRefused(fault)
  \/ Cancel(fault)
  \/ PeriodStart
  \/ EventReported(fault)
  \/ EventDropped(fault)

(* The requests the decoders post (bhd_nb_api.c). *)
BhdDetectionRequests == {[msg |-> "feature", unit |-> u, arg |-> e] : u \in UnitsAsked, e \in BOOLEAN}
BhdConfigureRequests == {[msg |-> "configure", unit |-> u, arg |-> s] : u \in UnitsAsked, s \in SamplingMethods}
BhdCancelRequests == {[msg |-> "cancel", unit |-> u, arg |-> "none"] : u \in UnitsAsked}
BhdGetRequests == {[msg |-> "get", unit |-> u, arg |-> g] : u \in UnitsAsked, g \in {"feature", "black_hole", "sflow"}}
BhdRequests == BhdDetectionRequests \cup BhdConfigureRequests \cup BhdCancelRequests \cup BhdGetRequests

BhdNext ==
  \/ \E m \in BhdRequests : BhdAsk(m)
  \/ \E u \in Units : PeriodicSamplingCb(u)
  \/ \E u \in Units : BhdPktMuxCb(u)
  \/ \E fault \in BhdInputs : BhdAppMain(fault)

(* The application's thread runs; a timer that expires again and again     *)
(* finds room in the queue now and then.                                   *)
BhdFairness ==
  /\ WF_bhdVars(\E fault \in BhdInputs : BhdAppMain(fault))
  /\ \A u \in Units : SF_bhdVars(PeriodicSamplingCb(u))
BhdSpec == BhdInit /\ [][BhdNext]_bhdVars /\ BhdFairness

----------------------------------------------------------------------------
BhdTypeOK ==
  /\ bhd_config \in [Units -> [enable : BOOLEAN, configured : BOOLEAN, method : SamplingMethods \cup {"none"}]]
  /\ bhd_oper \in [Units -> [start_sampling : BOOLEAN, current_sample_count : 0..SampleCount]]
  /\ bhd_timer \in [Units -> BOOLEAN]
  /\ bhd_running \in [Units -> 0..1]
  /\ bhd_hook \in BOOLEAN
  /\ Len(bhd_queue) <= BhdQueue
  /\ reports \in [Units -> 0..SampleCount]
  /\ policy.ingress \in BhdGroups \cup {Invalid} /\ policy.egress \in BhdGroups \cup {Invalid}

(* Whatever fails, or whichever units are in use, a unit has a sampling    *)
(* timer exactly while it has a black hole sampled by the agent: no path   *)
(* through configure, cancel and disable loses one or leaves one running.  *)
TimerWhileSampling ==
  \A u \in Units :
    /\ bhd_running[u] = IF bhd_timer[u] THEN 1 ELSE 0
    /\ bhd_timer[u] <=> Sampling(u)

(* With one unit in use, whichever calls fail: while a black hole counts   *)
(* as sampled by the agent, the switch copies its packets, the plugin      *)
(* recognises them and the hook lets them through; and no hook is left     *)
(* without a black hole sampled.                                           *)
SampledPacketsArrive ==
  trouble # "units" =>
    /\ bhd_hook <=> Sampling(Unit1)
    /\ Sampling(Unit1) => /\ policy.ports
                          /\ \E h \in bhd_hw : /\ h.stage = "ingress" /\ h.asic = Unit1
                                               /\ h.method = "agent" /\ h.id = policy.ingress

(* A call that fails can leave groups in the switch besides: only where    *)
(* none fails are its groups and mirrors, and what the plugin remembers,   *)
(* exactly those of the black hole that is configured.                     *)
SwitchMatchesConfig ==
  /\ SampledPacketsArrive
  /\ trouble = "none" =>
       LET c == bhd_config[Unit1]
           stages == (IF c.configured THEN {"ingress"} ELSE {})
                     \cup (IF ~c.configured THEN {} ELSE IF c.method = "agent" THEN {"egress"} ELSE {"mirror"})
       IN /\ {h.stage : h \in bhd_hw} = stages /\ Cardinality(bhd_hw) = Cardinality(stages)
          /\ c.configured => c.enable
          /\ policy.ports <=> c.configured

(* Reports are sent only while the agent samples, at most SampleCount per  *)
(* period, also when periods start late or for a black hole that has been  *)
(* configured since: the application implements SampledReports.            *)
Limits == INSTANCE SampledReports WITH
  Subjects <- Units, Limit <- SampleCount,
  sampling <- [u \in Units |-> Sampling(u)],
  reported <- [u \in Units |-> IF Sampling(u) THEN reports[u] ELSE 0]
ReportsLimited == Limits!Spec

(* A period that used up its samples ends: with one unit in use, a black   *)
(* hole under agent sampling is sampled again and again until it is        *)
(* cancelled.                                                              *)
SamplingResumes ==
  [](trouble # "units" /\ Sampling(Unit1) => <>(WindowOpen(Unit1) \/ ~Sampling(Unit1)))
=============================================================================
