--------------------------- MODULE SampledReports ---------------------------
(***************************************************************************)
(* What packet trace and black hole detection promise of the packets they  *)
(* report: a subject (a profile, a unit) is sampled or not, reports are    *)
(* sent only while it is, and never more than Limit of them until a new    *)
(* interval begins.                                                        *)
(***************************************************************************)
EXTENDS Naturals

CONSTANTS Subjects, Limit

VARIABLES sampling, reported

sampledVars == <<sampling, reported>>

Init == sampling = [s \in Subjects |-> FALSE] /\ reported = [s \in Subjects |-> 0]

Start(s) ==
  /\ sampling' = [sampling EXCEPT ![s] = TRUE]
  /\ reported' = [reported EXCEPT ![s] = 0]

Stop(s) ==
  /\ sampling' = [sampling EXCEPT ![s] = FALSE]
  /\ reported' = [reported EXCEPT ![s] = 0]

NewInterval(s) ==
  /\ reported' = [reported EXCEPT ![s] = 0]
  /\ UNCHANGED sampling

Report(s) ==
  /\ sampling[s]
  /\ reported[s] < Limit
  /\ reported' = [reported EXCEPT ![s] = @ + 1]
  /\ UNCHANGED sampling

Next == \E s \in Subjects : Start(s) \/ Stop(s) \/ NewInterval(s) \/ Report(s)
Spec == Init /\ [][Next]_sampledVars
=============================================================================
