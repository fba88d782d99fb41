----------------------------- MODULE Redirector -----------------------------
(***************************************************************************)
(* The south-bound redirector (sb_plugin/sb_redirector): the plug-ins      *)
(* register with it, and every sbapi function finds, for its feature and   *)
(* the chip of its unit, the plug-in to call.  A call holds the read lock  *)
(* to its end and takes it again, inside, for every search.                *)
(***************************************************************************)
EXTENDS Naturals, Sequences, SequencesExt, FiniteSets

CONSTANTS MayCall,      \* of each thread that calls: the sbapi functions it calls
          Registrations, \* sequence: the plug-ins that register, the first before any call
          ChipOf,       \* the chip of each unit that the list of chips has
          MaxPlugins,   \* BVIEW_MAX_SUPPORTED_SB_PLUGINS
          MaxFeatures,  \* BVIEW_SBPLUGIN_MAX_FEATURES
          MaxAsics,     \* BVIEW_MAX_ASICS_ON_A_PLATFORM
          WriterFirst   \* whether the lock lets a waiting writer go first

Callers == DOMAIN MayCall

VARIABLES plugins,     \* sbRedirectPluginList
          registrar,   \* what remains to be registered, and whether it waits or writes
          calls        \* of each caller: the rest of its call, and what it found

redVars == <<plugins, registrar, calls>>

AllChips == "all"
NoEntry == [featureId |-> "none", mask |-> {}]

----------------------------------------------------------------------------
(* What a call does: the lock is taken and given back, the chip of a unit  *)
(* and the feature of a chip are looked up - each under the lock once more *)
(* - and the plug-in is called.                                            *)
UnitCall ==
  <<"lock", "lock", "chip", "unlock", "unlock", "lock", "lock", "handle", "unlock", "call", "unlock">>

PlatformCall == <<"lock", "lock", "handle", "unlock", "call", "unlock">>

(* sb_redirect_asic_capabilities_get takes the lock once more. *)
CapabilityCall ==
  <<"lock", "lock", "chip", "unlock", "unlock", "lock", "lock", "lock", "handle", "unlock", "unlock", "call", "unlock">>

Api(feature, script, names) == [n \in names |-> [featureId |-> feature, script |-> script]]
Bst(names) == Api("bst", UnitCall, names)
Pt(names) == Api("pt", UnitCall, names)
Bhd(names) == Api("bhd", UnitCall, names)
Platform(names) == Api("system", PlatformCall, names)
Capability(names) == Api("system", CapabilityCall, names)

BstConfig == Bst({"bst_config_get", "bst_config_set", "bst_snapshot_get"})
BstIngress == Bst({"device_data_get", "ippg_data_get", "ipsp_data_get"})
BstPools == Bst({"isp_data_get", "epsp_data_get", "esp_data_get"})
BstQueues == Bst({"eucq_data_get", "eucqg_data_get", "emcq_data_get"})
BstCpu == Bst({"cpuq_data_get", "rqeq_data_get", "clear_stats"})
SetIngress == Bst({"device_threshold_set", "ippg_threshold_set", "ipsp_threshold_set"})
SetPools == Bst({"isp_threshold_set", "epsp_threshold_set", "esp_threshold_set"})
SetQueues == Bst({"eucq_threshold_set", "eucqg_threshold_set", "emcq_threshold_set"})
SetCpu == Bst({"cpuq_threshold_set", "rqeq_threshold_set", "threshold_get"})
BstControl == Bst({"clear_thresholds", "register_trigger"})
DropGets == Bst({"ucast_drop_get", "mcast_drop_get", "total_drop_get"})
PtDropReasons == Pt({"drop_reason_config_get", "drop_reason_config_set", "supported_drop_reason_get"})
PtProfiles == Pt({"trace_profile_get", "drop_counter_get", "clear_drop_reason"})
PtTuples == Pt({"pt_register_trigger", "5_tuple_profile_create", "5_tuple_profile_delete"})
BhdStatus == Bhd({"sampling_status_get", "cancel_black_hole", "configure_black_hole"})
BhdCapabilities == Bhd({"sampling_capabilities_get", "pkt_count_get"})
PlatformNames == Platform({"name_get", "mac_get", "ip4_get"})
AsicNotation == Platform({"asic_from_notation", "asic_to_notation"})
PortNotation == Platform({"port_from_notation", "port_to_notation"})
Counts1 == Capability({"capabilities_get", "num_ports_get", "num_ucq_get"})
Counts2 == Capability({"num_ucqg_get", "num_mcq_get", "num_sp_get"})
Counts3 == Capability({"num_cp_get", "num_cpuq_get", "num_rqeq_get"})
Counts4 == Capability({"num_rqeqp_get", "num_pg_get", "support_1588_get"})
PlatformFacts == Platform({"feature_mask_get", "network_os_get", "uid_get"})
PlatformRest == Platform({"time_get", "lag_to_notation", "num_units_get"})
SystemOfUnit == Api("system", UnitCall, {"max_buf_snapshot_get", "packet_rx_register"})

BstApis == {BstConfig, BstIngress, BstPools, BstQueues, BstCpu, SetIngress, SetPools, SetQueues, SetCpu, BstControl, DropGets}
PacketApis == {PtDropReasons, PtProfiles, PtTuples, BhdStatus, BhdCapabilities}
SystemApis == {PlatformNames, AsicNotation, PortNotation, Counts1, Counts2, Counts3, Counts4, PlatformFacts, PlatformRest, SystemOfUnit}

Apis ==
  LET groups == BstApis \cup PacketApis \cup SystemApis
  IN [name \in UNION {DOMAIN g : g \in groups} |-> (CHOOSE g \in groups : name \in DOMAIN g)[name]]

ASSUME RedirectorAssumption ==
  /\ {MaxPlugins, MaxFeatures, MaxAsics} \subseteq Nat \ {0} /\ WriterFirst \in BOOLEAN
  /\ Registrations \in Seq({Registrations[i] : i \in DOMAIN Registrations}) /\ Registrations # << >>
  /\ \A p \in DOMAIN Registrations : LET fs == Registrations[p].features IN fs \in Seq({fs[i] : i \in DOMAIN fs})
  /\ \A c \in Callers : MayCall[c] \subseteq DOMAIN Apis

----------------------------------------------------------------------------
(* The features a plug-in registers: brcm and ovsdb.  A callback that is   *)
(* not there (ovsdb has no drop counters) is answered UNSUPPORTED.         *)
Feature(id, mask) == [featureId |-> id, mask |-> mask]

BrcmPlugin ==
  [features |-> <<Feature("system", {AllChips}), Feature("bst", {"td2", "th"}),
                  Feature("pt", {"th"}), Feature("bhd", {"td2", "th", "qumran"})>>,
   asics |-> 1]

OvsdbPlugin == [features |-> <<Feature("system", {AllChips}), Feature("bst", {"td2", "th"})>>, asics |-> 1]

----------------------------------------------------------------------------
(* The entries of the list are looked at plug-in by plug-in, and of each   *)
(* feature by feature; a place is the numbers of both.                     *)
EntryAt(x) == plugins[x[1]].features[x[2]]
Earlier(x, y) == x[1] < y[1] \/ (x[1] = y[1] /\ x[2] < y[2])
First1(places) == CHOOSE x \in places : \A y \in places : ~Earlier(y, x)
EntryOf(places) == IF places = {} THEN NoEntry ELSE EntryAt(First1(places))

Entries(featureId) ==
  {x \in UNION {{p} \X DOMAIN plugins[p].features : p \in DOMAIN plugins} : EntryAt(x).featureId = featureId}

(* A bug to tell apart: the first entry for the feature is taken.          *)
FirstEntry(places, chip) == EntryOf({x \in places : {AllChips, chip} \cap EntryAt(x).mask # {}})

(* sb_redirect_feature_handle_get: one pass over the entries, to the first *)
(* that counts as exact - as a second entry for all chips does; if none    *)
(* does, the first for all chips.                                          *)
BestEntry(places, chip) ==
  LET all == {x \in places : AllChips \in EntryAt(x).mask}
      exact == {x \in places : IF x \in all THEN \E y \in all : Earlier(y, x) ELSE chip \in EntryAt(x).mask}
  IN EntryOf(IF exact # {} THEN exact ELSE all)

FeatureHandleGet(chip, featureId) == BestEntry(Entries(featureId), chip)

----------------------------------------------------------------------------
(* sb_plugin_validate: the number of features and of chips. *)
Valid(p) == Len(p.features) <= MaxFeatures /\ p.asics <= MaxAsics

NoCall == [name |-> "none", todo |-> << >>, depth |-> 0, chip |-> AllChips, handle |-> NoEntry]

RedInit ==
  /\ plugins = <<Registrations[1]>>
  /\ registrar = [left |-> Tail(Registrations), at |-> "idle"]
  /\ calls = [c \in Callers |-> NoCall]

Readers == {c \in Callers : calls[c].depth > 0}

(* A bug to tell apart: the table has no end.                              *)
RegisterAlways ==
  /\ registrar.at = "waits"
  /\ Readers = {}
  /\ plugins' = Append(plugins, Head(registrar.left))
  /\ registrar' = [left |-> Tail(registrar.left), at |-> "idle"]
  /\ UNCHANGED calls

(* sb_plugin_register: the lock for writing, the first free place or       *)
(* TABLE_FULL.                                                             *)
RegisterWait ==
  /\ registrar.at = "idle" /\ registrar.left # << >> /\ Valid(Head(registrar.left))
  /\ registrar' = [registrar EXCEPT !.at = "waits"]
  /\ UNCHANGED <<plugins, calls>>

RegisterInvalid ==
  /\ registrar.at = "idle" /\ registrar.left # << >> /\ ~Valid(Head(registrar.left))
  /\ registrar' = [registrar EXCEPT !.left = Tail(@)]
  /\ UNCHANGED <<plugins, calls>>

Register ==
  /\ registrar.at = "waits"
  /\ Readers = {}
  /\ plugins' = IF Len(plugins) < MaxPlugins THEN Append(plugins, Head(registrar.left)) ELSE plugins
  /\ registrar' = [left |-> Tail(registrar.left), at |-> "idle"]
  /\ UNCHANGED calls

(* A call: an sbapi function, for a unit. *)
Call(c, name) ==
  /\ calls[c] = NoCall
  /\ calls' = [calls EXCEPT ![c] = [NoCall EXCEPT !.name = name, !.todo = Apis[name].script]]
  /\ UNCHANGED <<plugins, registrar>>

Goes(c, what) == calls[c].todo # << >> /\ Head(calls[c].todo) = what

RdLock(c) ==
  /\ Goes(c, "lock")
  /\ WriterFirst => registrar.at # "waits"
  /\ calls' = [calls EXCEPT ![c].todo = Tail(@), ![c].depth = @ + 1]
  /\ UNCHANGED <<plugins, registrar>>

RdUnlock(c) ==
  /\ Goes(c, "unlock")
  /\ calls' = [calls EXCEPT ![c] = IF Len(@.todo) = 1 THEN [NoCall EXCEPT !.depth = calls[c].depth - 1]
                                    ELSE [calls[c] EXCEPT !.todo = Tail(@), !.depth = @ - 1]]
  /\ UNCHANGED <<plugins, registrar>>

(* sbapi_system_unit_to_asic_type_get: the feature of the whole platform   *)
(* has the list of chips; without it, or when the list does not have the   *)
(* unit, the call gives up, unlocking.                                     *)
UnitToAsicType(c) ==
  /\ Goes(c, "chip")
  /\ \/ /\ FeatureHandleGet(AllChips, "system") # NoEntry
        /\ \E unit \in DOMAIN ChipOf : calls' = [calls EXCEPT ![c].todo = Tail(@), ![c].chip = ChipOf[unit]]
     \/ calls' = [calls EXCEPT ![c].todo = [i \in 1..calls[c].depth |-> "unlock"]]
  /\ UNCHANGED <<plugins, registrar>>

(* A bug to tell apart: the lock is given back as soon as the entry is     *)
(* found.                                                                  *)
HandleUnlocked(c) ==
  /\ Goes(c, "handle")
  /\ calls' = [calls EXCEPT ![c].todo = SelectSeq(@, LAMBDA s : s = "call"), ![c].depth = 0,
                            ![c].handle = FeatureHandleGet(calls[c].chip, Apis[calls[c].name].featureId)]
  /\ UNCHANGED <<plugins, registrar>>

HandleGet(c) ==
  /\ Goes(c, "handle")
  /\ calls' = [calls EXCEPT ![c].todo = Tail(@),
                            ![c].handle = FeatureHandleGet(calls[c].chip, Apis[calls[c].name].featureId)]
  /\ UNCHANGED <<plugins, registrar>>

(* FAILURE without an entry, UNSUPPORTED without the callback, or the call. *)
PluginCall(c) ==
  /\ Goes(c, "call")
  /\ calls' = [calls EXCEPT ![c] = IF Len(@.todo) = 1 THEN [NoCall EXCEPT !.depth = calls[c].depth]
                                    ELSE [calls[c] EXCEPT !.todo = Tail(@)]]
  /\ UNCHANGED <<plugins, registrar>>

CallerStep(c) == RdLock(c) \/ RdUnlock(c) \/ UnitToAsicType(c) \/ HandleGet(c) \/ PluginCall(c)
RedNext ==
  \/ RegisterWait \/ RegisterInvalid \/ Register
  \/ \E c \in Callers : CallerStep(c) \/ \E name \in MayCall[c] : Call(c, name)
RedFairness == \A c \in Callers : WF_redVars(CallerStep(c))
RedSpec == RedInit /\ [][RedNext]_redVars /\ RedFairness

----------------------------------------------------------------------------
RedTypeOK ==
  /\ Len(plugins) <= MaxPlugins
  /\ registrar.at \in {"idle", "waits"}
  /\ \A c \in Callers : calls[c].depth \in 0..3 /\ calls[c].name \in DOMAIN Apis \cup {"none"}

(* A call goes to the entry that names its chip, or, when there is none,   *)
(* to the one for all chips, wherever they are in the list: while the      *)
(* feature is listed for all chips at most once.                           *)
OfFeature(f) == {e \in UNION {ToSet(plugins[p].features) : p \in DOMAIN plugins} : e.featureId = f}
BestMatch ==
  \A c \in Callers : Goes(c, "call") =>
    LET es == OfFeature(Apis[calls[c].name].featureId)
        exact == {e \in es : calls[c].chip \in e.mask /\ AllChips \notin e.mask}
        all == {e \in es : AllChips \in e.mask}
    IN Cardinality({x \in Entries(Apis[calls[c].name].featureId) : AllChips \in EntryAt(x).mask}) <= 1 =>
         calls[c].handle \in (IF exact # {} THEN exact ELSE IF all # {} THEN all ELSE {NoEntry})

(* The list of plug-ins does not change under a call that has searched it. *)
ListHeld ==
  [][\A c \in Callers : Goes(c, "call") \/ calls[c].handle # NoEntry => plugins' = plugins]_redVars

(* Every call ends, the locks it holds given back: a waiting registration  *)
(* does not stop a thread that already reads (with the lock's default; one *)
(* that prefers writers would let each wait for the other).                *)
CallsEnd == \A c \in Callers : calls[c].todo # << >> ~> calls[c] = NoCall
=============================================================================
