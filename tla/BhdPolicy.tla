----------------------------- MODULE BhdPolicy -----------------------------
(***************************************************************************)
(* The field-processor groups behind a black hole (sb_brcm/sb_common/bhd): *)
(* an ingress group with a rule per port, for agent sampling an egress     *)
(* group that polices the copies to the CPU, for sFlow a mirror            *)
(* destination.  The plugin remembers one black hole, whatever the switch. *)
(***************************************************************************)
EXTENDS Naturals, FiniteSets

CONSTANTS BhdGroups     \* bound: ids of field-processor groups and mirrors

ASSUME BhdPolicyAssumption == BhdGroups \subseteq Nat \ {0} /\ IsFiniteSet(BhdGroups)

Invalid == 0
SomeGroup(hw) == CHOOSE g \in BhdGroups \ {h.id : h \in hw} : TRUE
RoomFor(hw, n) == Cardinality({h.id : h \in hw}) + n <= Cardinality(BhdGroups)
Without(hw, id) == {h \in hw : h.id # id}

(* bhdInfo, as sbplugin_bhd_config_init leaves it. *)
NoPolicy == [ingress |-> Invalid, egress |-> Invalid, ports |-> FALSE, sampling_type |-> "none"]

PolicyFailed(policy, hw) == [rv |-> "failure", policy |-> policy, hw |-> hw]
PolicyDone(policy, hw) == [rv |-> "success", policy |-> policy, hw |-> hw]

InHw(hw, stage, asic, method) ==
  hw \cup {[stage |-> stage, asic |-> asic, method |-> method, id |-> SomeGroup(hw)]}
NewIn(before, after) == CHOOSE id \in {h.id : h \in after \ before} : TRUE

(* The egress policy; a failure after the creation of its group leaves it. *)
BhdEgressPolicy(policy, hw, asic, fault) ==
  LET made == InHw(hw, "egress", asic, "agent")
  IN IF fault = "egress" THEN PolicyFailed(policy, made)
     ELSE PolicyDone([policy EXCEPT !.egress = NewIn(hw, made)], made)

(* The mirror of sFlow sampling: that it could not be created is not told. *)
SflowMirrorConfig(policy, hw, asic, fault) ==
  IF fault = "sflow" THEN PolicyFailed(policy, hw)
  ELSE PolicyDone([policy EXCEPT !.sampling_type = "sflow"],
         IF fault = "mirror" \/ \E h \in hw : h.stage = "mirror" /\ h.asic = asic THEN hw
         ELSE InHw(hw, "mirror", asic, "sflow"))

(* sbplugin_common_bhd_config_black_hole: what was remembered is forgotten *)
(* first; the ingress group is remembered once it is installed; a failing  *)
(* egress policy is not reported.                                          *)
ConfigBlackHole(hw, asic, method, fault) ==
  LET made == InHw(hw, "ingress", asic, method)
      installed == [NoPolicy EXCEPT !.ingress = NewIn(hw, made), !.ports = TRUE, !.sampling_type = "agent"]
  IN IF fault = "group" \/ ~RoomFor(hw, 2) THEN PolicyFailed(NoPolicy, hw)
     ELSE IF fault = "rule" THEN PolicyFailed(NoPolicy, made)
     ELSE IF method = "agent"
     THEN [BhdEgressPolicy(installed, made, asic, fault) EXCEPT !.rv = "success"]
     ELSE SflowMirrorConfig(installed, made, asic, fault)

(* The same for Qumran (_dnx): nothing is forgotten first; a group whose   *)
(* rules cannot be made is destroyed, one without its statistics is not;   *)
(* a failing egress policy is reported, with the ingress rules installed.  *)
ConfigBlackHoleDnx(policy, hw, asic, fault) ==
  LET made == InHw(hw, "ingress", asic, "agent")
      installed == [policy EXCEPT !.ingress = NewIn(hw, made), !.ports = TRUE, !.sampling_type = "agent"]
  IN IF fault \in {"group", "rule"} \/ ~RoomFor(hw, 2) THEN PolicyFailed(policy, hw)
     ELSE IF fault = "stat" THEN PolicyFailed(policy, made)
     ELSE BhdEgressPolicy(installed, made, asic, fault)

(* sbplugin_common_bhd_cancel_black_hole: groups, then the mirror; the     *)
(* first that cannot be destroyed ends it, with nothing forgotten.         *)
CancelBlackHole(policy, hw, asic, fault) ==
  LET Known(id) == id = Invalid \/ \E h \in hw : h.id = id
      noIngress == Without(hw, policy.ingress)
      noGroups == Without(noIngress, policy.egress)
      mirrors == {h \in hw : h.stage = "mirror" /\ h.asic = asic}
  IN IF ~Known(policy.ingress) \/ fault = "destroy" THEN PolicyFailed(policy, hw)
     ELSE IF ~Known(policy.egress) THEN PolicyFailed(policy, noIngress)
     ELSE IF policy.sampling_type = "sflow" /\ mirrors = {} THEN PolicyFailed(policy, noGroups)
     ELSE PolicyDone(NoPolicy, IF policy.sampling_type = "sflow" THEN noGroups \ mirrors ELSE noGroups)
=============================================================================
