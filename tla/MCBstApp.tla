------------------------------ MODULE MCBstApp ------------------------------
(***************************************************************************)
(* Instances of BstApp for TLC: two counters whose groups are switched off *)
(* separately, and the feature requests that make the limits, the timer    *)
(* and the enabling meet.                                                  *)
(***************************************************************************)
EXTENDS BstApp, TLC

CONSTANTS c1, c2, ingress, egress

MCGroupOf == (c1 :> ingress) @@ (c2 :> egress)
MCGroupOf1 == (c1 :> ingress)

Request(enable, async, interval, limit) ==
  [bstEnable |-> enable, sendAsyncReports |-> async,
   collectionInterval |-> interval, bstMaxTriggers |-> limit]

\* The interval of the collection timer changes while it is armed.
TimerRequests ==
  {Request(TRUE, TRUE, 30, Unchanged), Request(FALSE, TRUE, 60, Unchanged),
   Request(TRUE, FALSE, 0, Unchanged)}

\* BST is switched on and off, and the limit lowered and raised, while
\* triggers and their reports are under way.
EnableRequests ==
  {Request(TRUE, FALSE, 60, 1), Request(FALSE, FALSE, 60, 2)}

=============================================================================
