---------------------------- MODULE BstThresholds ----------------------------
(***************************************************************************)
(* Threshold configuration of the BST application, from the command the    *)
(* decoder hands over (bst_nb_api.c) through the conversion and the cache  *)
(* of bst.c to the switch (sbplugin_common_bst.c).  A command names some   *)
(* of the thresholds of a realm; those it leaves out are read from the     *)
(* cache and written again.  One object of one realm is followed.          *)
(***************************************************************************)
EXTENDS Integers, Sequences, FiniteSets, SequencesExt, TLC

CONSTANTS Values,       \* bound: the values commands carry
          MaxNamed,     \* bound: thresholds named in a command
          MaxCells,     \* the buffer of the object, in cells
          CellToByte,   \* asic_capabilities.cellToByteConv
          Limit         \* the default of a threshold, in bytes, and its maximum

ASSUME ThresholdAssumption ==
  /\ Values \subseteq Nat /\ MaxNamed \in Nat \ {0}
  /\ MaxCells \in Nat \ {0} /\ CellToByte \in Nat \ {0}
  /\ Limit \in Nat /\ CellToByte < Limit

(* What a realm's input_validate asks for: one of some thresholds and      *)
(* every index of the object.                                              *)
Validated(anyOf, index) == [anyOf |-> anyOf, index |-> index]
DeviceValidate == Validated({"threshold"}, {})
IppgValidate == Validated({"umShare", "umHeadroom"}, {"port", "pg"})
IpspValidate == Validated({"umShare"}, {"port", "sp"})
IspValidate == Validated({"umShare"}, {"sp"})
EpspValidate == Validated({"umShare", "ucShare", "mcShare", "mcQueue"}, {"port", "sp"})
EspValidate == Validated({"umShare", "mcShare"}, {"sp"})
EuqValidate == Validated({"uc"}, {"queue"})
EuqgValidate == Validated({"uc"}, {"queue"})    \* not the queue group
EmcValidate == Validated({"mc"}, {"queue"})
EcpuValidate == Validated({"cpu"}, {"queue"})
ErqeValidate == Validated({"rqe"}, {"queue"})

(* bst_realm_type_get *)
RealmType == [
  device |-> DeviceValidate, ippg |-> IppgValidate, ipsp |-> IpspValidate, isp |-> IspValidate,
  epsp |-> EpspValidate, esp |-> EspValidate, euq |-> EuqValidate, euqg |-> EuqgValidate,
  emc |-> EmcValidate, ecpu |-> EcpuValidate, erqe |-> ErqeValidate]
Realms == DOMAIN RealmType

(* The thresholds a realm's setter in bst.c converts and keeps in the      *)
(* cache; for those a command leaves out the cache is read.                *)
DeviceSetter == {"threshold"}
IppgSetter == {"umShare", "umHeadroom"}
IpspSetter == {"umShare"}
IspSetter == {"umShare"}
EpspSetter == {"ucShare", "umShare", "mcShare"}
EspSetter == {"umShare", "mcShare"}
EuqSetter == {"uc"}
EuqgSetter == {"uc"}
EmcSetter == {"mc"}
EcpuSetter == {"cpu"}
ErqeSetter == {"rqe"}

(* bst_realm_handler_get *)
RealmHandler == [
  device |-> DeviceSetter, ippg |-> IppgSetter, ipsp |-> IpspSetter, isp |-> IspSetter,
  epsp |-> EpspSetter, esp |-> EspSetter, euq |-> EuqSetter, euqg |-> EuqgSetter,
  emc |-> EmcSetter, ecpu |-> EcpuSetter, erqe |-> ErqeSetter]

(* What the plugin checks, then writes to the switch, in this order.       *)
DeviceProgram == <<"threshold">>
IppgProgram == <<"umShare", "umHeadroom">>
IpspProgram == <<"umShare">>
IspProgram == <<"umShare">>
EpspProgram == <<"ucShare", "umShare">>
EspProgram == <<"umShare", "mcShare">>
EucqProgram == <<"uc">>
EucqgProgram == <<"uc">>
EmcqProgram == <<"mc">>
CpuqProgram == <<"cpu">>
RqeqProgram == <<"rqe">>
RealmProgram == [
  device |-> DeviceProgram, ippg |-> IppgProgram, ipsp |-> IpspProgram, isp |-> IspProgram,
  epsp |-> EpspProgram, esp |-> EspProgram, euq |-> EucqProgram, euqg |-> EucqgProgram,
  emc |-> EmcqProgram, ecpu |-> CpuqProgram, erqe |-> RqeqProgram]

VARIABLES realm,        \* the realm followed
          steady,       \* the switch does not fail in this behaviour
          units,        \* statUnitsInCells, statsInPercentage
          cache,        \* bst_thresholds_cache
          hw,           \* the thresholds of the switch
          last,         \* the command being answered and its outcome
          tainted       \* history: the switch failed since it was last read

thrVars == <<realm, steady, units, cache, hw, last, tainted>>

Cached == RealmHandler[realm]
Programmed == ToSet(RealmProgram[realm])
NoCommand == [index |-> {}, asked |-> <<>>, outcome |-> "none"]

(* threshold_get: only what the switch has is filled in. *)
ThresholdGet(switch) == [f \in Cached |-> IF f \in DOMAIN switch THEN switch[f] ELSE 0]

EmptyCache == [f \in Cached |-> 0]
Outcome(index, asked, outcome) == [index |-> index, asked |-> asked, outcome |-> outcome]

(* bst_app_config_init: the thresholds of the switch are cleared as far as *)
(* it allows (that it failed is only logged), then read.                   *)
ThrInit ==
  /\ realm \in Realms /\ steady \in BOOLEAN
  /\ units = "bytes"
  /\ \E cleared \in SUBSET Programmed, read \in BOOLEAN :
       /\ steady => cleared = Programmed /\ read
       /\ hw = [f \in Programmed |-> IF f \in cleared THEN Limit ELSE Limit - CellToByte]
       /\ cache = IF read THEN ThresholdGet(hw) ELSE EmptyCache
       /\ tainted = ~read
  /\ last = NoCommand

(* bst_calculate_value_from_percentage, in integers throughout. *)
CalculateValueFromPercentage(max, percentage) == (max * percentage) \div 100

(* A bug to tell apart: cells are taken for bytes. *)
ConvertedCells(value) ==
  IF units = "percent" THEN CalculateValueFromPercentage(MaxCells, value) ELSE value

(* What a setter makes of a value a command names, in bytes. *)
Converted(value) ==
  CASE units = "percent" -> CalculateValueFromPercentage(MaxCells, value) * CellToByte
    [] units = "cells"   -> value * CellToByte
    [] units = "bytes"   -> value

InLimits(value) == 0 < value /\ value <= Limit
ValidPercentage(value) == 0 < value /\ value <= 100

(* bstjson_configure_bst_thresholds_impl: the indices are in the switch's  *)
(* range and the realm's validator accepts them and the values.            *)
InputValidate(index, asked, inRange) ==
  /\ inRange \/ realm = "device"
  /\ DOMAIN asked \cap RealmType[realm].anyOf # {}
  /\ RealmType[realm].index \subseteq index
  /\ \A f \in DOMAIN asked : InLimits(asked[f])

(* A bug to tell apart: what a command leaves out gets its default. *)
ToWriteDefaults(asked) ==
  [f \in Cached |-> IF f \in DOMAIN asked THEN Converted(asked[f]) ELSE Limit]

(* The values of the message: those named are converted, others come from  *)
(* the cache.  The queue entries a command may name (mcQueue) are checked  *)
(* and then used by no setter.                                             *)
ToWrite(asked) ==
  [f \in Cached |-> IF f \in DOMAIN asked THEN Converted(asked[f]) ELSE cache[f]]

PercentagesValid(asked) ==
  units = "percent" => \A f \in DOMAIN asked \cap Cached : ValidPercentage(asked[f])

(* The plugin's threshold_set: everything is checked before the first of   *)
(* the writes, of which done are carried out.                              *)
PluginAccepts(written) == \A f \in Programmed : InLimits(written[f])

Program(written, done) ==
  [f \in Programmed |-> IF \E i \in 1..done : RealmProgram[realm][i] = f THEN written[f] ELSE hw[f]]

(* A bug to tell apart: the cache does not follow. *)
CacheKept(asked, written) == cache

CacheUpdate(asked, written) == [f \in Cached |-> IF f \in DOMAIN asked THEN written[f] ELSE cache[f]]

(* Bound: the values of a command differ. *)
Asks(asked) == Cardinality(DOMAIN asked) <= MaxNamed /\ IsInjective(asked)

(* A command a validator refuses: the client is told, nothing is posted. *)
Refused(index, asked, inRange) ==
  /\ ~InputValidate(index, asked, inRange)
  /\ last' = Outcome({}, <<>>, "refused")
  /\ UNCHANGED <<realm, steady, units, cache, hw, tainted>>

(* A command the setter or the plugin refuses before any write. *)
SetRefused(index, asked, inRange) ==
  /\ InputValidate(index, asked, inRange)
  /\ ~PercentagesValid(asked) \/ ~PluginAccepts(ToWrite(asked))
  /\ last' = Outcome({}, <<>>, "refused")
  /\ UNCHANGED <<realm, steady, units, cache, hw, tainted>>

(* bst_config_threshold_set: every write succeeds and the cache follows. *)
Set(index, asked, inRange) ==
  LET written == ToWrite(asked)
  IN /\ InputValidate(index, asked, inRange)
     /\ PercentagesValid(asked) /\ PluginAccepts(written)
     /\ hw' = Program(written, Len(RealmProgram[realm]))
     /\ cache' = CacheUpdate(asked, written)
     /\ last' = Outcome(index, asked, "success")
     /\ UNCHANGED <<realm, steady, units, tainted>>

(* The switch fails one of the writes: those before it stay, the cache     *)
(* does not follow.                                                        *)
SetFails(index, asked, inRange) ==
  LET written == ToWrite(asked)
  IN /\ ~steady
     /\ InputValidate(index, asked, inRange)
     /\ PercentagesValid(asked) /\ PluginAccepts(written)
     /\ \E done \in 0..(Len(RealmProgram[realm]) - 1) : hw' = Program(written, done)
     /\ last' = Outcome(index, asked, "failure")
     /\ tainted' = TRUE
     /\ UNCHANGED <<realm, steady, units, cache>>

ConfigureThresholds ==
  \E named \in SUBSET (RealmType[realm].anyOf \cup {"mcQueue"}) :
    \E asked \in [named -> Values], index \in {{}, RealmType[realm].index}, inRange \in BOOLEAN :
      /\ Asks(asked)
      /\ inRange \/ index # {}
      /\ Refused(index, asked, inRange) \/ SetRefused(index, asked, inRange)
           \/ Set(index, asked, inRange) \/ SetFails(index, asked, inRange)

(* The plugin's clear_thresholds, of which done writes are carried out. *)
Cleared(done) ==
  Program([f \in Programmed |-> Limit], done)

(* bst_clear_threshold_set: the cache is emptied and read again. *)
ClearThresholds ==
  /\ hw' = Cleared(Len(RealmProgram[realm]))
  /\ cache' = ThresholdGet(hw')
  /\ last' = Outcome({}, <<>>, "cleared")
  /\ tainted' = FALSE
  /\ UNCHANGED <<realm, steady, units>>

(* The switch fails to clear: nothing is read. *)
ClearFails ==
  /\ ~steady
  /\ \E done \in 0..(Len(RealmProgram[realm]) - 1) : hw' = Cleared(done)
  /\ last' = Outcome({}, <<>>, "failure")
  /\ tainted' = TRUE
  /\ UNCHANGED <<realm, steady, units, cache>>

(* The switch clears but cannot be read: the cache stays empty. *)
ClearUnread ==
  /\ ~steady
  /\ hw' = Cleared(Len(RealmProgram[realm]))
  /\ cache' = EmptyCache
  /\ last' = Outcome({}, <<>>, "failure")
  /\ tainted' = TRUE
  /\ UNCHANGED <<realm, steady, units>>

(* configure-bst-feature changes the units of later commands and reports. *)
SetUnits ==
  /\ units' \in {"bytes", "cells", "percent"} \ {units}
  /\ UNCHANGED <<realm, steady, cache, hw, last, tainted>>

(* The reply to a command is sent before bst_app_main takes another.       *)
Replied ==
  /\ last # NoCommand /\ last' = NoCommand
  /\ UNCHANGED <<realm, steady, units, cache, hw, tainted>>

Command == ConfigureThresholds \/ ClearThresholds \/ ClearFails \/ ClearUnread \/ SetUnits
ThrNext == (last = NoCommand /\ Command) \/ Replied
ThrSpec == ThrInit /\ [][ThrNext]_thrVars

ThrTypeOK ==
  /\ realm \in Realms /\ steady \in BOOLEAN /\ tainted \in BOOLEAN
  /\ units \in {"bytes", "cells", "percent"}
  /\ cache \in [Cached -> Nat] /\ hw \in [Programmed -> Nat]
  /\ last.outcome \in {"none", "refused", "success", "failure", "cleared"}

(* The cache the thresholds a command leaves out are taken from agrees     *)
(* with the switch, unless the switch failed since it was last read        *)
(* (bst.c:1914: the cache follows a successful write only).                *)
CacheMatchesSwitch == tainted \/ \A f \in Programmed : cache[f] = hw[f]

(* Whatever fails, the switch never gets a threshold of zero or above the  *)
(* default, also when the cache is empty (sbplugin_common_bst.c:1054).     *)
SwitchInRange == \A f \in Programmed : InLimits(hw[f])

(* bst_json_convert_data on a threshold, as get-bst-thresholds reports it. *)
Reported(value) ==
  LET cells == value \div CellToByte
      rounded == (2 * 100 * cells + MaxCells) \div (2 * MaxCells)
  IN CASE units = "percent" -> IF rounded > 100 THEN 100 ELSE rounded
       [] units = "cells"   -> cells
       [] units = "bytes"   -> value

(* Right after a command that succeeded, each threshold it named that the  *)
(* plug-in programs would be reported as it was asked for, in the units in *)
(* effect: the encoder's conversion undoes that of bst.c, although both    *)
(* round percentages (from 198 cells on). Of the others nothing is said:   *)
(* the multicast share of a port's service pool, for one, is answered with *)
(* success and never written (sbplugin_common_bst.c:1208).                 *)
ReportedAsAsked ==
  last.outcome = "success" =>
    \A f \in DOMAIN last.asked \cap Programmed : Reported(hw[f]) = last.asked[f]

(* What is configured is the object the command names; of a unicast queue  *)
(* group the validator asks for the queue instead (bst_nb_api.c:806).      *)
ObjectOf == [device |-> {}, ippg |-> {"port", "pg"}, ipsp |-> {"port", "sp"}, isp |-> {"sp"},
             epsp |-> {"port", "sp"}, esp |-> {"sp"}, euq |-> {"queue"}, euqg |-> {"queueGroup"},
             emc |-> {"queue"}, ecpu |-> {"queue"}, erqe |-> {"queue"}]
ObjectNamed ==
  last.outcome \in {"success", "failure"} /\ last.asked # <<>> /\ realm # "euqg" =>
    ObjectOf[realm] \subseteq last.index

(* Also when the switch fails: a command changes a threshold it does not   *)
(* name only if an earlier failure left the cache behind the switch.       *)
UnnamedKept ==
  [][ \A f \in Programmed :
        last'.asked # <<>> /\ f \notin DOMAIN last'.asked /\ hw'[f] # hw[f] => tainted ]_thrVars

(* On a switch that does not fail the application keeps the thresholds as  *)
(* ThresholdStore promises.                                                *)
Store == INSTANCE ThresholdStore WITH
  Initially <- Limit, threshold <- hw, mayFail <- ~steady,
  request <- [asked |-> [f \in DOMAIN last.asked \cap Programmed |-> Converted(last.asked[f])],
              outcome |-> last.outcome]
ThresholdsKept == Store!Spec
=============================================================================
