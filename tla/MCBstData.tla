------------------------------- MODULE MCBstData -------------------------------
(***************************************************************************)
(* Instances of BstReports and of BstDropCounters for TLC.  They share no  *)
(* state and are checked one at a time: part, chosen at the start, says    *)
(* which one runs.  Two counters and two values tell a counter that was    *)
(* left out of a report from one that did not change; of the drop counters *)
(* there are more ids than records, so that the table fills up and records *)
(* are used again.  Cancellations may have request-id 0, the id of  *)
(* every free record.                                                      *)
(***************************************************************************)
EXTENDS BstReports, BstDropCounters

VARIABLE part

dataVars == <<vars, dropsVars, part>>

MCIds == 1 .. 3
MCCancelIds == 0 .. 3
AllDisturbances == {"get", "trigger", "clear", "track", "failed", "lost"}

MCInit == part \in {"reports", "drops"} /\ Init /\ DropsInit

ReportsRun == part = "reports" /\ Next /\ UNCHANGED <<dropsVars, part>>
DropsRun == part = "drops" /\ DropsNext /\ UNCHANGED <<vars, part>>
MCNext == ReportsRun \/ DropsRun

MCSpec == MCInit /\ [][MCNext]_dataVars
MCFairSpec == MCSpec /\ DropsFairness

=============================================================================
