---------------------------- MODULE ThresholdStore ----------------------------
(***************************************************************************)
(* What configure-bst-thresholds and clear-bst-thresholds promise: a store *)
(* of thresholds in which a request that succeeds changes what it names,   *)
(* all of it, and nothing else.  Only a switch that fails may break this.  *)
(***************************************************************************)
CONSTANT Initially      \* the value of a threshold that was never configured

VARIABLES threshold,    \* the value of each threshold, a function of its name
          request,      \* the last request: [asked: name -> amount, outcome]
          mayFail       \* the switch may fail

storeVars == <<threshold, request, mayFail>>

Init == DOMAIN threshold # {} /\ request.outcome = "none" /\ mayFail \in BOOLEAN

Configure ==
  /\ request'.outcome = "success" /\ DOMAIN request'.asked \subseteq DOMAIN threshold
  /\ threshold' = [n \in DOMAIN threshold |->
                     IF n \in DOMAIN request'.asked THEN request'.asked[n] ELSE threshold[n]]
Refuse == request'.outcome \in {"none", "refused"} /\ threshold' = threshold
Clear == request'.outcome = "cleared" /\ threshold' = [n \in DOMAIN threshold |-> Initially]
Trouble == mayFail /\ DOMAIN threshold' = DOMAIN threshold

Next == (Configure \/ Refuse \/ Clear \/ Trouble) /\ UNCHANGED mayFail
Spec == Init /\ [][Next]_storeVars
===============================================================================
