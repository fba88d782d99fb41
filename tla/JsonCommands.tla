----------------------------- MODULE JsonCommands -----------------------------
(***************************************************************************)
(* What the decoders of the REST commands read from a request, in the      *)
(* order in which they read it (apps/*/api, infrastructure/system/*/api).  *)
(***************************************************************************)
EXTENDS Integers, Sequences

(* A member: its name, what it must be (see Refusals in JsonRequests), the *)
(* range of a number, whether it must be there, whether the mask of the    *)
(* command tells that it was, and the variant of the command it belongs to *)
Member(name, kind, lo, hi) ==
  [name |-> name, kind |-> kind, lo |-> lo, hi |-> hi, needed |-> TRUE, masked |-> FALSE, only |-> "all"]
Number(name, lo, hi) == Member(name, "number", lo, hi)
Flag(name) == Number(name, 0, 1)
Of(kind, name) == Member(name, kind, 0, 0)
Optional(member) == [member EXCEPT !.needed = FALSE]
Masked(member) == [member EXCEPT !.masked = TRUE]
In(variant, member) == [member EXCEPT !.only = variant]

Preamble == <<Of("object", "params"), Of("text", "jsonrpc"), Of("text", "method")>>
Id == <<Number("id", 1, 100000)>>
Header == Preamble \o <<Of("notation", "asic-id")>> \o Id

(* The BST application. *)
ClearBstStatistics == Header
ClearBstThresholds == Header
GetBstFeature == Header
GetBstTracking == Header
GetBstSwitchProperties == Header

Realms11 == <<"ingress-port-priority-group", "ingress-port-service-pool", "ingress-service-pool",
  "egress-port-service-pool", "egress-service-pool", "egress-uc-queue", "egress-uc-queue-group",
  "egress-mc-queue", "egress-cpu-queue", "egress-rqe-queue", "device">>
(* One flag for each realm: include-..., track-... *)
RealmFlags == [i \in 1..Len(Realms11) |-> Flag(Realms11[i])]

ReportIncludes == RealmFlags
GetBstReport == Header \o ReportIncludes
ThresholdIncludes == RealmFlags
GetBstThresholds == Header \o ThresholdIncludes
TrackFlags == RealmFlags
ConfigureBstTracking == Header \o <<Flag("track-peak-stats")>> \o TrackFlags

FeatureMembers == <<
  Masked(Flag("bst-enable")), Masked(Flag("send-async-reports")),
  Masked(Number("collection-interval", 0, 600)), Masked(Flag("stat-units-in-cells")),
  Optional(Masked(Number("trigger-rate-limit", 1, 30))),
  Optional(Masked(Flag("send-snapshot-on-trigger"))),
  Optional(Masked(Number("trigger-rate-limit-interval", 1, 60))),
  Optional(Masked(Flag("async-full-reports"))), Optional(Masked(Flag("stats-in-percentage")))>>
ConfigureBstFeature == Header \o FeatureMembers

ThresholdIndices == <<
  Optional(Masked(Of("notation", "port"))), Optional(Masked(Number("priority-group", 0, 7))),
  Optional(Masked(Number("service-pool", 0, 3))), Optional(Masked(Number("queue", 0, 4095))),
  Optional(Masked(Number("queue-group", 0, 127)))>>
ThresholdNames == <<"threshold", "um-share-threshold", "um-headroom-threshold", "uc-share-threshold",
  "mc-share-threshold", "mc-share-queue-entries-threshold", "uc-threshold", "mc-threshold",
  "mc-queue-entries-threshold", "cpu-threshold", "rqe-threshold">>
ThresholdValues == [i \in 1..Len(ThresholdNames) |-> Optional(Masked(Of("amount", ThresholdNames[i])))]
ConfigureBstThresholds == Header \o <<Of("string", "realm")>> \o ThresholdIndices \o ThresholdValues

(* The members of request-params; a queue list has no check at all. *)
DropRequestParams == <<
  Optional(Masked(Number("count", 1, 64))), Optional(Masked(Of("allports", "port-list"))),
  Optional(Masked(Of("choice", "queue-type"))), Optional(Masked(Of("unchecked", "queue-list")))>>
GetBstCgsnDropCounters == Header \o <<
  Optional(Number("collection-interval", 0, 3600)), Masked(Of("choice", "request-type")),
  Of("object", "request-params")>> \o DropRequestParams

(* The packet trace application.  With a source address a profile is a     *)
(* 5-tuple, without it a packet.                                           *)
GetPacketTraceFeature == Header
ConfigurePacketTraceFeature == Header \o <<Flag("packet-trace-enable")>>
CancelPacketTraceProfile == Header \o <<Number("params-id", 1, 100000)>>
CancelLagResolution == Header \o <<Number("params-id", 1, 100000)>>
CancelEcmpResolution == Header \o <<Number("params-id", 1, 100000)>>

Tuple(name, lo, hi) == In("tuple", Member(name, "wild", lo, hi))
ProfileSubject == <<
  [Member("src-ip", "wild", 1, 1) EXCEPT !.needed = FALSE], Tuple("dst-ip", 1, 1),
  Tuple("protocol", 0, 144), Tuple("l4-src-port", 0, 65535), Tuple("l4-dst-port", 0, 65535),
  In("tuple", Number("packet-limit", 1, 10)), In("packet", Of("packet", "packet"))>>
LagSubject == ProfileSubject
EcmpSubject == ProfileSubject
ProfileRest == <<Of("ports", "port-list"),
  In("packet", Number("collection-interval", 0, 120)), In("tuple", Number("collection-interval", 1, 30)),
  Flag("drop-packet")>>
LagRest == <<Of("ports", "port-list"), Number("collection-interval", 0, 120), Flag("drop-packet")>>
EcmpRest == LagRest
GetPacketTraceProfile == Header \o ProfileSubject \o ProfileRest
GetLagResolution == Header \o LagSubject \o LagRest
GetEcmpResolution == Header \o EcmpSubject \o EcmpRest

(* The black hole detection application. *)
CancelBlackHoleCommand == Header
GetBlackHole == Header
GetBlackHoleDetection == Header
ConfigureBlackHoleDetection == Header \o <<Flag("enable")>>
GetSflowSamplingStatus == Header \o <<Of("object", "params"), Of("ports", "port-list")>>
AgentParams == <<
  In("agent", Number("water-mark", 100, 10000)), In("agent", Optional(Number("sample-periodicity", 1, 3600))),
  In("agent", Optional(Number("sample-count", 0, 30)))>>
SflowParams == <<
  In("sflow", Of("object", "encapsulation-params")), In("sflow", Optional(Number("vlan-id", 1, 4094))),
  In("sflow", Of("address", "destination-ip")), In("sflow", Of("udpport", "source-udp-port")),
  In("sflow", Of("udpport", "destination-udp-port")), In("sflow", Of("notation", "mirror-port")),
  In("sflow", Number("sample-pool-size", 1024, 100000))>>
ConfigureBlackHole == Header \o
  <<Of("ports", "port-list"), Of("method", "sampling-method"), Of("object", "sampling-params")>>
  \o AgentParams \o SflowParams

(* Registration, heartbeat and the cancellation of requests. *)
GetRegHbFeature == Preamble \o Id
ConfigureRegHbFeature == Preamble \o Id \o
  <<Masked(Flag("heartbeat-enable")), Masked(Number("msg-interval", 1, 600))>>
GetSwitchProperties == Preamble \o <<Optional(Of("asic", "asic-id"))>> \o Id
CancelRequest == Header \o <<Of("amount", "request-id")>>

Decoder == [
  clear_bst_statistics |-> ClearBstStatistics, clear_bst_thresholds |-> ClearBstThresholds,
  get_bst_feature |-> GetBstFeature, get_bst_tracking |-> GetBstTracking,
  get_bst_switch_properties |-> GetBstSwitchProperties, get_bst_report |-> GetBstReport,
  get_bst_thresholds |-> GetBstThresholds, configure_bst_tracking |-> ConfigureBstTracking,
  configure_bst_feature |-> ConfigureBstFeature, configure_bst_thresholds |-> ConfigureBstThresholds,
  get_bst_cgsn_drop_counters |-> GetBstCgsnDropCounters,
  get_packet_trace_feature |-> GetPacketTraceFeature,
  configure_packet_trace_feature |-> ConfigurePacketTraceFeature,
  cancel_packet_trace_profile |-> CancelPacketTraceProfile, cancel_lag_resolution |-> CancelLagResolution,
  cancel_ecmp_resolution |-> CancelEcmpResolution, get_packet_trace_profile |-> GetPacketTraceProfile,
  get_lag_resolution |-> GetLagResolution, get_ecmp_resolution |-> GetEcmpResolution,
  cancel_black_hole |-> CancelBlackHoleCommand, get_black_hole |-> GetBlackHole,
  get_black_hole_detection |-> GetBlackHoleDetection,
  configure_black_hole_detection |-> ConfigureBlackHoleDetection,
  get_sflow_sampling_status |-> GetSflowSamplingStatus, configure_black_hole |-> ConfigureBlackHole,
  get_reg_hb_feature |-> GetRegHbFeature, configure_reg_hb_feature |-> ConfigureRegHbFeature,
  get_switch_properties |-> GetSwitchProperties, cancel_request |-> CancelRequest]
Commands == DOMAIN Decoder
===============================================================================
