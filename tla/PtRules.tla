------------------------------ MODULE PtRules ------------------------------
(***************************************************************************)
(* The field-processor rules behind 5-tuple packet trace profiles          *)
(* (sb_brcm/sb_common/packet_trace).  A profile is one ingress rule, in a  *)
(* group of its own, that copies matching packets to the CPU tagged with a *)
(* rule match id; the plugin's table maps a request to its match id and    *)
(* group.  The first profile also installs the egress policy that polices  *)
(* those copies, the last one removes it.                                  *)
(***************************************************************************)
EXTENDS Integers, FiniteSets

CONSTANTS MaxRules,     \* BVIEW_PKT_TRACE_MAX_SUPPORTED_REQ
          MaxGroups     \* field-processor groups the switch has for them

ASSUME PtRulesAssumption == MaxRules \in Nat \ {0} /\ MaxGroups \in Nat \ {0}

NoRequest == -1
Entries == 1..MaxRules
(* The match ids are one more than the table's entries; 0 is no rule. *)
MatchIds == 1..MaxRules + 1
Groups == 1..MaxGroups

(* reqToRuleMap is the plugin's table, hw the groups of the switch in use  *)
(* (match 0: created, never installed), cpuKnown what the plugin remembers *)
(* of the egress policy and cpuPolicy whether the switch has it.           *)
NoRule == [requestId |-> NoRequest, ruleMatchId |-> 0, group |-> 0]
EmptyRules == [reqToRuleMap |-> [e \in Entries |-> NoRule], hw |-> {}, cpuKnown |-> FALSE, cpuPolicy |-> FALSE]

FirstOf(S) == CHOOSE x \in S : \A y \in S : x <= y

EntriesOf(rules, requestId) == {e \in Entries : rules.reqToRuleMap[e].requestId = requestId}
TotalRules(rules) == Cardinality(Entries \ EntriesOf(rules, NoRequest))

FreeRuleMatchIds(rules) == MatchIds \ {rules.reqToRuleMap[e].ruleMatchId : e \in Entries}

RuleToReq(rules, match) ==
  LET found == {e \in Entries : rules.reqToRuleMap[e].ruleMatchId = match} \ EntriesOf(rules, NoRequest)
  IN IF found = {} THEN NoRequest ELSE rules.reqToRuleMap[FirstOf(found)].requestId

(* The table takes a request once, in the first free entry. *)
MapSet(rules, requestId, match, group) ==
  IF EntriesOf(rules, requestId) # {} \/ EntriesOf(rules, NoRequest) = {} THEN rules
  ELSE [rules EXCEPT !.reqToRuleMap[FirstOf(EntriesOf(rules, NoRequest))] =
          [requestId |-> requestId, ruleMatchId |-> match, group |-> group]]

MapClear(rules, requestId) ==
  [rules EXCEPT !.reqToRuleMap[FirstOf(EntriesOf(rules, requestId))] = NoRule]

Failed(rules) == [rv |-> "failure", rules |-> rules]
Done(rules) == [rv |-> "success", rules |-> rules]

(* The egress policy: group, entry, policer, installation. *)
EgressPolicy(rules, fault) ==
  IF fault = "policy" THEN Failed(rules) ELSE Done([rules EXCEPT !.cpuPolicy = TRUE, !.cpuKnown = TRUE])

(* A bug to tell apart: the table is asked before the rule is installed,   *)
(* and not told when it cannot be.                                         *)
ProfileCreateMappedFirst(rules, requestId, fault) ==
  LET group == FirstOf(Groups \ {h.group : h \in rules.hw})
      match == FirstOf(FreeRuleMatchIds(rules))
      mapped == MapSet(rules, requestId, match, group)
      installed == [mapped EXCEPT !.hw = @ \cup {[group |-> group, match |-> match, requestId |-> requestId]}]
  IN IF {h.group : h \in rules.hw} = Groups \/ mapped = rules \/ fault = "group" THEN Failed(rules)
     ELSE IF fault = "install" THEN Failed(mapped)
     ELSE IF TotalRules(installed) = 1 THEN EgressPolicy(installed, fault)
     ELSE Done(installed)

(* Creation: the rule is in the switch before the table is asked, so a     *)
(* refusal of the table leaves it there; a failure between the creation of *)
(* the group and its installation leaves the group.                        *)
ProfileCreate(rules, requestId, fault) ==
  LET groups == Groups \ {h.group : h \in rules.hw}
      group == FirstOf(groups)
      match == FirstOf(FreeRuleMatchIds(rules))
      left == [rules EXCEPT !.hw = @ \cup {[group |-> group, match |-> 0, requestId |-> requestId]}]
      installed == [rules EXCEPT !.hw = @ \cup {[group |-> group, match |-> match, requestId |-> requestId]}]
      mapped == MapSet(installed, requestId, match, group)
  IN IF groups = {} \/ fault = "group" THEN Failed(rules)
     ELSE IF fault = "install" THEN Failed(left)
     ELSE IF mapped = installed THEN Failed(installed)
     ELSE IF TotalRules(mapped) = 1 THEN EgressPolicy(mapped, fault)
     ELSE Done(mapped)

(* Deletion: entry, group, table entry, and the policy with the last one.  *)
ProfileDelete(rules, requestId, fault) ==
  IF EntriesOf(rules, requestId) = {} \/ fault = "destroy" THEN Failed(rules)
  ELSE LET group == rules.reqToRuleMap[FirstOf(EntriesOf(rules, requestId))].group
           cleared == MapClear([rules EXCEPT !.hw = {h \in @ : h.group # group}], requestId)
       IN IF TotalRules(cleared) > 0 THEN Done(cleared)
          ELSE Done([cleared EXCEPT !.cpuPolicy = @ /\ ~rules.cpuKnown, !.cpuKnown = FALSE])
=============================================================================
