---------------------------- MODULE BstAppProofs ----------------------------
(***************************************************************************)
(* What is proved of the BST application for every set of counters, every  *)
(* request and every size of the queues.                                   *)
(***************************************************************************)
EXTENDS BstApp, ProofLemmas

-----------------------------------------------------------------------------
(* Messages and queues.                                                     *)

LEMMA AppendType ==
  ASSUME NEW S, NEW q \in Seq(S), NEW m \in S
  PROVE  Append(q, m) \in Seq(S)
  OBVIOUS

LEMMA PostType ==
  ASSUME NEW S, NEW q \in Seq(S), NEW m \in S, NEW size
  PROVE  Post(q, size, m) \in Seq(S)
  BY AppendType DEF Post

LEMMA ServeType ==
  ASSUME NEW S, NEW q \in Seq(S), q # <<>>
  PROVE  Head(q) \in S /\ Tail(q) \in Seq(S)
  OBVIOUS

LEMMA MessageTypes ==
  /\ \A peak \in BOOLEAN : [type |-> "SET_TRACK", peak |-> peak] \in AppMsg
  /\ \A req \in FeatureRequest :
       [type |-> "SET_FEATURE", config |-> req] \in AppMsg
  /\ \A type \in {"TRIGGER_REPORT", "ENABLE_BST_ON_TRIGGER", "GET_REPORT"} :
       [type |-> type] \in AppMsg
  /\ \A c \in Counters :
       [type |-> "TRIGGER_COLLECT", counter |-> c] \in TriggerMsg
  /\ [type |-> "CLEAR_TRIGGER_COUNT"] \in TriggerMsg
  BY DEF AppMsg, TriggerMsg

LEMMA MessageFields ==
  /\ \A m \in AppMsg : m.type = "SET_FEATURE" => m.config \in FeatureRequest
  /\ \A m \in AppMsg : m.type = "SET_TRACK" => m.peak \in BOOLEAN
  /\ \A m \in TriggerMsg : m.type = "TRIGGER_COLLECT" => m.counter \in Counters
  BY DEF AppMsg, TriggerMsg

LEMMA MaxType == \A m \in Nat, n \in 1 .. 30 : Max2(m, n) \in Nat
  BY DEF Max2

LEMMA LimitType ==
  ASSUME config \in Config
  PROVE  config.bstMaxTriggers \in 1 .. 30 /\ config.bstMaxTriggers \in Nat
  BY DEF Config

LEMMA TriggerStates ==
  /\ \A pc \in {"receive", "delete", "post"} : [pc |-> pc] \in TriggerState
  /\ \A pc \in {"send", "timer", "count"}, c \in Counters, l \in 1 .. 30 :
       [pc |-> pc, counter |-> c, limit |-> l] \in TriggerState
  BY DEF TriggerState

LEMMA TriggerFields ==
  ASSUME trigger \in TriggerState, trigger.pc \in {"send", "timer", "count"}
  PROVE  /\ trigger.counter \in Counters
         /\ trigger.limit \in 1 .. 30
         /\ trigger.limit \in Nat
<1>1. trigger.counter \in Counters /\ trigger.limit \in 1 .. 30
  BY DEF TriggerState
<1> QED BY <1>1

LEMMA TimerTypes ==
  ASSUME collectionTimer \in CollectionTimer
  PROVE  /\ CollectionTimerDelete \in CollectionTimer
         /\ \A interval \in 0 .. 600, ok \in TimerAddResults :
              CollectionTimerAdd(interval, ok) \in CollectionTimer
<1>1. CollectionTimerDelete \in CollectionTimer
  BY DEF CollectionTimerDelete, CollectionTimer
<1>2. ASSUME NEW interval \in 0 .. 600, NEW ok \in TimerAddResults
      PROVE  CollectionTimerAdd(interval, ok) \in CollectionTimer
  <2>1. ok \in BOOLEAN /\ collectionTimer.interval \in 0 .. 600
    BY DEF TimerAddResults, CollectionTimer
  <2> QED BY <2>1 DEF CollectionTimerAdd, CollectionTimer
<1> QED BY <1>1, <1>2

-----------------------------------------------------------------------------
(***************************************************************************)
(* Every variable keeps its type: in particular the limit of a configured  *)
(* unit never becomes 0, which would lift it.                              *)
(***************************************************************************)
THEOREM TypeCorrect == Spec => []TypeOK
<1>1. Init => TypeOK
  <2> SUFFICES ASSUME Init PROVE TypeOK
    OBVIOUS
  <2> USE DEF Init
  <2>1. config \in Config /\ collectionTimer \in CollectionTimer
    BY DEF Config, CollectionTimer
  <2>2. app \in AppState /\ trigger \in TriggerState
    BY DEF AppState, TriggerState
  <2>3. recvMsgQ \in Seq(AppMsg) /\ recvTriggerMsgQ \in Seq(TriggerMsg)
    OBVIOUS
  <2> QED BY <2>1, <2>2, <2>3 DEF TypeOK
<1>2. TypeOK /\ [Next]_vars => TypeOK'
  <2> SUFFICES ASSUME TypeOK, [Next]_vars PROVE TypeOK'
    OBVIOUS
  <2> USE DEF TypeOK, configVars, limiterVars, hwVars, history
  <2>1. CASE ConfigureFeature
    <3>1. PICK req \in FeatureRequests :
            RestPosts([type |-> "SET_FEATURE", config |-> req])
      BY <2>1 DEF ConfigureFeature
    <3>2. recvMsgQ' \in Seq(AppMsg)
      BY <3>1, BstAssumption, MessageTypes, AppendType DEF RestPosts
    <3> QED BY <3>1, <3>2 DEF RestPosts
  <2>2. CASE ConfigureTracking
    <3>1. PICK peak \in PeakRequests :
            RestPosts([type |-> "SET_TRACK", peak |-> peak])
      BY <2>2 DEF ConfigureTracking
    <3>2. recvMsgQ' \in Seq(AppMsg)
      BY <3>1, BstAssumption, MessageTypes, AppendType DEF RestPosts
    <3> QED BY <3>1, <3>2 DEF RestPosts
  <2>3. ASSUME NEW c \in Counters, AsicTrigger(c) PROVE TypeOK'
    <3>1. recvTriggerMsgQ' \in Seq(TriggerMsg)
      BY <2>3, MessageTypes, PostType DEF AsicTrigger
    <3> QED BY <2>3, <3>1 DEF AsicTrigger
  <2>4. CASE CollectionTimerExpires
    BY <2>4 DEF CollectionTimerExpires
  <2>5. CASE TriggerTimerExpires
    BY <2>5 DEF TriggerTimerExpires
  <2>6. CASE PeriodicCollectionCb
    <3>1. recvMsgQ' \in Seq(AppMsg)
      BY <2>6, MessageTypes, PostType DEF PeriodicCollectionCb
    <3> QED BY <2>6, <3>1 DEF PeriodicCollectionCb
  <2>7. CASE TriggerTimerCb
    <3>1. recvTriggerMsgQ' \in Seq(TriggerMsg)
      BY <2>7, MessageTypes, PostType DEF TriggerTimerCb
    <3> QED BY <2>7, <3>1 DEF TriggerTimerCb
  <2>8. CASE SetFeature
    <3> DEFINE req == Head(recvMsgQ).config
    <3>1. recvMsgQ' \in Seq(AppMsg) /\ req \in FeatureRequest
      BY <2>8, ServeType, MessageFields DEF SetFeature, Receives
    <3>2. LimitAfter(req) \in 1 .. 30
      BY <3>1 DEF LimitAfter, Unchanged, Config, FeatureRequest
    <3>3. config' \in Config
      BY <2>8, <3>1, <3>2 DEF SetFeature, TimerUpdateReqd, Config,
         FeatureRequest
    <3>4. collectionTimer' \in CollectionTimer
      <4>1. req.collectionInterval \in 0 .. 600
        BY <3>1 DEF FeatureRequest
      <4>2. \/ collectionTimer' = CollectionTimerDelete
            \/ \E ok \in TimerAddResults :
                 collectionTimer' = CollectionTimerAdd(req.collectionInterval, ok)
            \/ UNCHANGED collectionTimer
        BY <2>8 DEF SetFeature
      <4> QED BY <4>1, <4>2, TimerTypes
    <3>5. app' \in AppState
      BY <2>8, <3>1 DEF SetFeature, TimerUpdateReqd, AppState
    <3>6. windowLimit' \in Nat
      <4>1. windowLimit' = Max2(windowLimit, LimitAfter(req))
        BY <2>8 DEF SetFeature
      <4> QED BY <4>1, <3>2, MaxType
    <3> QED BY <2>8, <3>1, <3>3, <3>4, <3>5, <3>6 DEF SetFeature, TimerUpdateReqd
  <2>9. CASE FeatureInSync
    <3>1. app.req \in FeatureRequest
      BY <2>9 DEF FeatureInSync, AppState
    <3>2. app' \in AppState
      BY <2>9, <3>1 DEF FeatureInSync, SbConfigGet, AppState
    <3> QED BY <2>9, <3>1, <3>2 DEF FeatureInSync, FeatureRequest
  <2>10. CASE FeatureProgrammed
    <3>1. app.req.bstEnable \in BOOLEAN
      BY <2>10 DEF FeatureProgrammed, AppState, FeatureRequest
    <3>2. config' \in Config /\ app' \in AppState
      BY <2>10, <3>1 DEF FeatureProgrammed, WithEnable, Config, AppState
    <3> QED BY <2>10, <3>1, <3>2 DEF FeatureProgrammed, SbConfigSet
  <2>11. CASE SetTrack
    <3>1. recvMsgQ' \in Seq(AppMsg) /\ Head(recvMsgQ).peak \in BOOLEAN
      BY <2>11, ServeType, MessageFields DEF SetTrack, Receives
    <3> QED BY <2>11, <3>1 DEF SetTrack, SbConfigSet
  <2>12. CASE TriggerReport
    <3>1. recvMsgQ' \in Seq(AppMsg)
      BY <2>12, ServeType DEF TriggerReport, Receives
    <3> QED BY <2>12, <3>1 DEF TriggerReport, EnableOnTrigger, SbConfigSet
  <2>13. CASE EnableOnTriggerTimerExpiry
    <3>1. recvMsgQ' \in Seq(AppMsg)
      BY <2>13, ServeType DEF EnableOnTriggerTimerExpiry, Receives
    <3> QED BY <2>13, <3>1 DEF EnableOnTriggerTimerExpiry, EnableOnTrigger,
                               SbConfigSet
  <2>14. CASE PeriodicReport
    <3>1. recvMsgQ' \in Seq(AppMsg)
      BY <2>14, ServeType DEF PeriodicReport, Receives
    <3> QED BY <2>14, <3>1 DEF PeriodicReport
  <2>15. CASE ProcessTrigger
    <3>1. /\ recvTriggerMsgQ' \in Seq(TriggerMsg)
          /\ Head(recvTriggerMsgQ).counter \in Counters
      BY <2>15, ServeType, MessageFields DEF ProcessTrigger
    <3>2. trigger' \in TriggerState
      BY <2>15, <3>1 DEF ProcessTrigger, TriggerState, Config
    <3> QED BY <2>15, <3>1, <3>2 DEF ProcessTrigger
  <2>16. CASE SendTriggerReport
    <3>1. trigger.counter \in Counters /\ trigger.limit \in 1 .. 30
      BY <2>16 DEF SendTriggerReport, TriggerState
    <3>2. \/ recvMsgQ' = Append(recvMsgQ, [type |-> "TRIGGER_REPORT"])
          \/ recvMsgQ' = recvMsgQ
      BY <2>16 DEF SendTriggerReport
    <3>3. recvMsgQ' \in Seq(AppMsg)
      BY <3>2, MessageTypes, AppendType
    <3>4. sent' = [sent EXCEPT ![trigger.counter] = @ + 1] \/ sent' = sent
      BY <2>16 DEF SendTriggerReport
    <3>5. sent' \in [Counters -> Nat]
      BY <3>1, <3>4
    <3>6. \/ trigger' = [pc |-> "receive"]
          \/ trigger' = [pc |-> "timer", counter |-> trigger.counter,
                         limit |-> trigger.limit]
          \/ trigger' = [pc |-> "count", counter |-> trigger.counter,
                         limit |-> trigger.limit]
      BY <2>16 DEF SendTriggerReport
    <3>7. trigger' \in TriggerState
      BY <3>1, <3>6, TriggerStates
    <3> QED BY <2>16, <3>3, <3>5, <3>7 DEF SendTriggerReport
  <2>17. CASE TriggerTimerAdd
    <3>1. trigger' \in TriggerState
      BY <2>17 DEF TriggerTimerAdd, TriggerState
    <3> QED BY <2>17, <3>1 DEF TriggerTimerAdd, TimerAddResults
  <2>18. CASE CountTrigger
    <3>1. trigger' \in TriggerState
      BY <2>18 DEF CountTrigger, TriggerState
    <3> QED BY <2>18, <3>1 DEF CountTrigger, TriggerState
  <2>19. CASE ClearTriggerCount
    <3>1. recvTriggerMsgQ' \in Seq(TriggerMsg)
      BY <2>19, ServeType DEF ClearTriggerCount
    <3>2. config.bstMaxTriggers \in Nat
      BY LimitType
    <3>3. trigger' = [pc |-> "delete"] \/ trigger' = [pc |-> "post"]
      BY <2>19 DEF ClearTriggerCount
    <3>4. trigger' \in TriggerState
      BY <3>3 DEF TriggerState
    <3> QED BY <2>19, <3>1, <3>2, <3>4 DEF ClearTriggerCount
  <2>20. CASE TriggerTimerDelete
    BY <2>20 DEF TriggerTimerDelete, TriggerState
  <2>21. CASE PostEnableOnTrigger
    <3>1. recvMsgQ' \in Seq(AppMsg)
      BY <2>21, MessageTypes, PostType DEF PostEnableOnTrigger
    <3> QED BY <2>21, <3>1 DEF PostEnableOnTrigger, TriggerState
  <2>22. CASE UNCHANGED vars
    BY <2>22 DEF vars
  <2> QED
    BY <2>1, <2>2, <2>3, <2>4, <2>5, <2>6, <2>7, <2>8, <2>9, <2>10, <2>11,
       <2>12, <2>13, <2>14, <2>15, <2>16, <2>17, <2>18, <2>19, <2>20, <2>21,
       <2>22 DEF Next, AppThread, TriggerThread
<1> QED BY <1>1, <1>2, PTL DEF Spec

-----------------------------------------------------------------------------
(* The rate limiter.                                                        *)

\* The actions that leave the rate limiter and the configuration alone.
Elsewhere ==
  \/ ConfigureFeature \/ ConfigureTracking
  \/ \E c \in Counters : AsicTrigger(c)
  \/ CollectionTimerExpires \/ TriggerTimerExpires
  \/ PeriodicCollectionCb \/ TriggerTimerCb
  \/ FeatureInSync \/ SetTrack \/ TriggerReport
  \/ EnableOnTriggerTimerExpiry \/ PeriodicReport

LEMMA ElsewhereUnchanged ==
  ASSUME Elsewhere
  PROVE  UNCHANGED <<config, collectionTimer, triggerTimer, triggerCount,
                     trigger, sent, windowLimit>>
<1> USE DEF configVars, limiterVars, history
<1>1. CASE ConfigureFeature BY <1>1 DEF ConfigureFeature, RestPosts
<1>2. CASE ConfigureTracking BY <1>2 DEF ConfigureTracking, RestPosts
<1>3. ASSUME NEW c \in Counters, AsicTrigger(c)
      PROVE  UNCHANGED <<config, collectionTimer, triggerTimer, triggerCount,
                         trigger, sent, windowLimit>>
  BY <1>3 DEF AsicTrigger
<1>4. CASE CollectionTimerExpires BY <1>4 DEF CollectionTimerExpires
<1>5. CASE TriggerTimerExpires BY <1>5 DEF TriggerTimerExpires
<1>6. CASE PeriodicCollectionCb BY <1>6 DEF PeriodicCollectionCb
<1>7. CASE TriggerTimerCb BY <1>7 DEF TriggerTimerCb
<1>8. CASE FeatureInSync BY <1>8 DEF FeatureInSync
<1>9. CASE SetTrack BY <1>9 DEF SetTrack
<1>10. CASE TriggerReport BY <1>10 DEF TriggerReport
<1>11. CASE EnableOnTriggerTimerExpiry BY <1>11 DEF EnableOnTriggerTimerExpiry
<1>12. CASE PeriodicReport BY <1>12 DEF PeriodicReport
<1> QED
  BY <1>1, <1>2, <1>3, <1>4, <1>5, <1>6, <1>7, <1>8, <1>9, <1>10, <1>11,
     <1>12 DEF Elsewhere

LEMMA NextCases ==
  Next <=> \/ Elsewhere \/ SetFeature \/ FeatureProgrammed \/ ProcessTrigger
           \/ SendTriggerReport \/ TriggerTimerAdd \/ CountTrigger
           \/ ClearTriggerCount \/ TriggerTimerDelete \/ PostEnableOnTrigger
  BY DEF Next, AppThread, TriggerThread, Elsewhere

\* The report of c that is under way has been requested but not counted.
BeingCounted(c) == trigger.pc \in {"timer", "count"} /\ trigger.counter = c

(***************************************************************************)
(* What RateLimit rests on.  A report is requested only if the count was   *)
(* below a limit that was in force in this window, and the count lags the  *)
(* requests by at most the one report that is being counted.               *)
(***************************************************************************)
LimiterInv ==
  /\ config.bstMaxTriggers <= windowLimit
  /\ \A c \in Counters : sent[c] <= windowLimit
  /\ \A c \in Counters :
       sent[c] <= triggerCount[c] + (IF BeingCounted(c) THEN 1 ELSE 0)
  /\ trigger.pc = "send" => /\ triggerCount[trigger.counter] < trigger.limit
                            /\ trigger.limit <= windowLimit

LEMMA LimiterStep == TypeOK /\ LimiterInv /\ [Next]_vars => LimiterInv'
<1> SUFFICES ASSUME TypeOK, LimiterInv, [Next]_vars PROVE LimiterInv'
  OBVIOUS
<1>0. /\ triggerCount \in [Counters -> Nat] /\ sent \in [Counters -> Nat]
      /\ windowLimit \in Nat
      /\ config.bstMaxTriggers \in 1 .. 30 /\ config.bstMaxTriggers \in Nat
  BY LimitType DEF TypeOK
<1>1. CASE Elsewhere
  BY <1>1, ElsewhereUnchanged DEF LimiterInv, BeingCounted
<1>2. CASE SetFeature
  <2> DEFINE limit == LimitAfter(Head(recvMsgQ).config)
  <2>1. Head(recvMsgQ).config \in FeatureRequest
    BY <1>2, ServeType, MessageFields DEF SetFeature, Receives, TypeOK
  <2>2. limit \in Nat
    BY <2>1, <1>0 DEF LimitAfter, FeatureRequest, Unchanged
  <2>3. /\ config'.bstMaxTriggers = limit
        /\ windowLimit' = Max2(windowLimit, limit)
        /\ UNCHANGED <<triggerCount, trigger, sent>>
    BY <1>2 DEF SetFeature, limiterVars
  <2>4. limit <= windowLimit' /\ windowLimit <= windowLimit' /\ windowLimit' \in Nat
    BY <2>2, <2>3, <1>0 DEF Max2
  <2>5. trigger.pc = "send" => trigger.limit \in Nat
    BY TriggerFields DEF TypeOK
  <2> HIDE DEF limit
  <2> QED BY <1>0, <2>2, <2>3, <2>4, <2>5 DEF LimiterInv, BeingCounted
<1>3. CASE FeatureProgrammed
  <2>1. /\ config'.bstMaxTriggers = config.bstMaxTriggers
        /\ UNCHANGED <<triggerCount, trigger, sent, windowLimit>>
    BY <1>3 DEF FeatureProgrammed, WithEnable, limiterVars
  <2> QED BY <2>1 DEF LimiterInv, BeingCounted
<1>4. CASE ProcessTrigger
  <2> DEFINE c == Head(recvTriggerMsgQ).counter
  <2>1. c \in Counters
    BY <1>4, ServeType, MessageFields DEF ProcessTrigger, TypeOK
  <2>2. /\ trigger.pc = "receive"
        /\ UNCHANGED <<config, triggerCount, sent, windowLimit>>
        /\ trigger' = [pc |-> IF Muted(c, config.bstMaxTriggers)
                                THEN "count" ELSE "send",
                       counter |-> c, limit |-> config.bstMaxTriggers]
    BY <1>4 DEF ProcessTrigger, configVars, history
  <2>3. trigger'.pc = "send" =>
          /\ triggerCount'[trigger'.counter] < trigger'.limit
          /\ trigger'.limit <= windowLimit'
    BY <2>1, <2>2, <1>0 DEF Muted, LimiterInv
  <2>4. \A d \in Counters : sent[d] <= triggerCount[d]
    BY <2>2, <1>0 DEF LimiterInv, BeingCounted
  <2> QED BY <1>0, <2>2, <2>3, <2>4 DEF LimiterInv, BeingCounted
<1>5. CASE SendTriggerReport
  <2> DEFINE c == trigger.counter
  <2>1. /\ trigger.pc = "send" /\ c \in Counters /\ trigger.limit \in Nat
        /\ UNCHANGED <<config, triggerCount, windowLimit>>
    BY <1>5, TriggerFields DEF SendTriggerReport, configVars, TypeOK
  <2>2. sent[c] + 1 <= windowLimit /\ sent[c] + 1 <= triggerCount[c] + 1
    BY <2>1, <1>0 DEF LimiterInv, BeingCounted
  <2>3. \/ /\ sent' = [sent EXCEPT ![c] = @ + 1]
           /\ trigger'.pc \in {"timer", "count"} /\ trigger'.counter = c
        \/ /\ UNCHANGED sent
           /\ trigger'.pc = "receive"
    BY <1>5 DEF SendTriggerReport
  <2>4. \A d \in Counters : sent[d] <= triggerCount[d]
    BY <2>1, <1>0 DEF LimiterInv, BeingCounted
  <2> HIDE DEF c
  <2> QED BY <1>0, <2>1, <2>2, <2>3, <2>4 DEF LimiterInv, BeingCounted
<1>6. CASE TriggerTimerAdd
  <2>1. /\ UNCHANGED <<config, triggerCount, sent, windowLimit>>
        /\ trigger.pc = "timer" /\ trigger'.pc = "count"
        /\ trigger'.counter = trigger.counter
    BY <1>6 DEF TriggerTimerAdd, configVars, history
  <2> QED BY <2>1 DEF LimiterInv, BeingCounted
<1>7. CASE CountTrigger
  <2>1. /\ trigger.pc = "count" /\ trigger.counter \in Counters
        /\ triggerCount' = [triggerCount EXCEPT ![trigger.counter] = @ + 1]
        /\ trigger'.pc = "receive"
        /\ UNCHANGED <<config, sent, windowLimit>>
    BY <1>7 DEF CountTrigger, configVars, history, TypeOK, TriggerState
  <2>2. \A c \in Counters : sent[c] <= triggerCount'[c]
    BY <2>1, <1>0 DEF LimiterInv, BeingCounted
  <2>3. \A c \in Counters : triggerCount'[c] \in Nat
    BY <2>1, <1>0
  <2> QED BY <1>0, <2>1, <2>2, <2>3 DEF LimiterInv, BeingCounted
<1>8. CASE ClearTriggerCount
  <2>1. /\ triggerCount' = [c \in Counters |-> 0]
        /\ sent' = [c \in Counters |-> 0]
        /\ windowLimit' = config.bstMaxTriggers
        /\ config' = config
        /\ trigger'.pc \in {"delete", "post"}
    BY <1>8 DEF ClearTriggerCount, configVars
  <2> QED BY <1>0, <2>1 DEF LimiterInv, BeingCounted
<1>9. CASE TriggerTimerDelete \/ PostEnableOnTrigger
  <2>1. /\ UNCHANGED <<config, triggerCount, sent, windowLimit>>
        /\ trigger.pc \in {"delete", "post"}
        /\ trigger'.pc \in {"post", "receive"}
    BY <1>9 DEF TriggerTimerDelete, PostEnableOnTrigger, configVars, history
  <2> QED BY <2>1 DEF LimiterInv, BeingCounted
<1>10. CASE UNCHANGED vars
  BY <1>10 DEF vars, LimiterInv, BeingCounted
<1> QED
  BY <1>1, <1>2, <1>3, <1>4, <1>5, <1>6, <1>7, <1>8, <1>9, <1>10, NextCases

(***************************************************************************)
(* The trigger rate limit holds for every set of counters, every limit and *)
(* every interleaving of configuration and triggers.                       *)
(***************************************************************************)
THEOREM RateLimitHolds == Spec => []RateLimit
<1>1. Init => LimiterInv
  BY DEF Init, LimiterInv, BeingCounted
<1>2. TypeOK /\ LimiterInv /\ [Next]_vars => LimiterInv'
  BY LimiterStep
<1>3. LimiterInv => RateLimit
  BY DEF LimiterInv, RateLimit
<1> QED BY <1>1, <1>2, <1>3, TypeCorrect, PTL DEF Spec

-----------------------------------------------------------------------------
(* The timers.                                                              *)

(***************************************************************************)
(* What CountsHaveTimer rests on.  Only the trigger thread raises a count, *)
(* after it has seen to the timer, and it deletes the timer only while     *)
(* every count is 0.                                                       *)
(***************************************************************************)
WindowInv ==
  "timer_add" \notin Faults =>
    /\ \A c \in Counters : triggerCount[c] > 0 => triggerTimer
    /\ trigger.pc = "count" => triggerTimer
    /\ trigger.pc = "delete" => \A c \in Counters : triggerCount[c] = 0

LEMMA WindowStep == TypeOK /\ WindowInv /\ [Next]_vars => WindowInv'
<1> SUFFICES ASSUME TypeOK, WindowInv, [Next]_vars, "timer_add" \notin Faults
             PROVE  WindowInv'
  BY DEF WindowInv
<1>0. /\ triggerCount \in [Counters -> Nat]
      /\ config.bstMaxTriggers \in 1 .. 30
  BY LimitType DEF TypeOK
<1>1. CASE Elsewhere \/ SetFeature \/ FeatureProgrammed
  <2>1. UNCHANGED <<triggerCount, trigger, triggerTimer>>
    BY <1>1, ElsewhereUnchanged DEF SetFeature, FeatureProgrammed, limiterVars
  <2> QED BY <2>1 DEF WindowInv
<1>2. CASE ProcessTrigger
  <2> DEFINE c == Head(recvTriggerMsgQ).counter
  <2>1. c \in Counters
    BY <1>2, ServeType, MessageFields DEF ProcessTrigger, TypeOK
  <2>2. /\ UNCHANGED <<triggerCount, triggerTimer>>
        /\ trigger' = [pc |-> IF Muted(c, config.bstMaxTriggers)
                                THEN "count" ELSE "send",
                       counter |-> c, limit |-> config.bstMaxTriggers]
    BY <1>2 DEF ProcessTrigger
  <2>3. trigger'.pc = "count" => triggerCount[c] > 0
    BY <2>1, <2>2, <1>0 DEF Muted
  <2>4. trigger'.pc # "delete"
    BY <2>2
  <2> QED BY <2>1, <2>2, <2>3, <2>4 DEF WindowInv
<1>3. CASE SendTriggerReport
  <2>1. /\ UNCHANGED <<triggerCount, triggerTimer>>
        /\ trigger.pc = "send"
        /\ \/ trigger'.pc = "receive"
           \/ trigger'.pc = "timer"
           \/ /\ trigger'.pc = "count"
              /\ ~FirstOfWindow(trigger.counter, trigger.limit)
    BY <1>3 DEF SendTriggerReport
  <2>2. trigger.counter \in Counters /\ trigger.limit \in 1 .. 30
    BY <2>1, TriggerFields DEF TypeOK
  <2>3. ~FirstOfWindow(trigger.counter, trigger.limit)
          => triggerCount[trigger.counter] > 0
    BY <2>2, <1>0 DEF FirstOfWindow
  <2> QED BY <2>1, <2>2, <2>3 DEF WindowInv
<1>4. CASE TriggerTimerAdd
  <2>1. triggerTimer' = TRUE
    BY <1>4 DEF TriggerTimerAdd, TimerAddResults
  <2>2. trigger'.pc = "count" /\ UNCHANGED triggerCount
    BY <1>4 DEF TriggerTimerAdd
  <2> QED BY <2>1, <2>2 DEF WindowInv
<1>5. CASE CountTrigger
  <2>1. triggerTimer /\ UNCHANGED triggerTimer /\ trigger'.pc = "receive"
    BY <1>5 DEF CountTrigger, WindowInv
  <2> QED BY <2>1 DEF WindowInv
<1>6. CASE ClearTriggerCount
  <2>1. /\ triggerCount' = [c \in Counters |-> 0]
        /\ trigger'.pc # "count"
    BY <1>6 DEF ClearTriggerCount
  <2> QED BY <2>1 DEF WindowInv
<1>7. CASE TriggerTimerDelete \/ PostEnableOnTrigger
  <2>1. /\ UNCHANGED triggerCount
        /\ trigger'.pc \in {"post", "receive"}
        /\ \/ trigger.pc = "delete"
           \/ UNCHANGED triggerTimer
    BY <1>7 DEF TriggerTimerDelete, PostEnableOnTrigger
  <2> QED BY <2>1, <1>0 DEF WindowInv
<1>8. CASE UNCHANGED vars
  BY <1>8 DEF vars, WindowInv
<1> QED
  BY <1>1, <1>2, <1>3, <1>4, <1>5, <1>6, <1>7, <1>8, NextCases

(***************************************************************************)
(* As long as timers can be created, a counter that has used up reports is *)
(* never without the timer that gives it a new window.                     *)
(***************************************************************************)
THEOREM CountsHaveTimerHolds == Spec => []CountsHaveTimer
<1>1. Init => WindowInv
  BY DEF Init, WindowInv
<1>2. TypeOK /\ WindowInv /\ [Next]_vars => WindowInv'
  BY WindowStep
<1>3. WindowInv => CountsHaveTimer
  BY DEF WindowInv, CountsHaveTimer
<1> QED BY <1>1, <1>2, <1>3, TypeCorrect, PTL DEF Spec

(***************************************************************************)
(* As long as timers can be created, the collection timer is armed exactly *)
(* while asynchronous reports are configured, with the interval that is    *)
(* configured, whatever the order of the requests.                         *)
(***************************************************************************)
THEOREM TimerFollowsConfigHolds == Spec => []TimerFollowsConfig
<1>1. Init => TimerFollowsConfig
  BY DEF Init, TimerFollowsConfig
<1>2. TypeOK /\ TimerFollowsConfig /\ [Next]_vars => TimerFollowsConfig'
  <2> SUFFICES ASSUME TypeOK, TimerFollowsConfig, [Next]_vars,
                      "timer_add" \notin Faults
               PROVE  TimerFollowsConfig'
    BY DEF TimerFollowsConfig
  <2>1. CASE SetFeature
    <3> DEFINE req == Head(recvMsgQ).config
    <3>1. /\ req \in FeatureRequest
      BY <2>1, ServeType, MessageFields DEF SetFeature, Receives, TypeOK
    <3>2. /\ config'.sendAsyncReports = req.sendAsyncReports
          /\ config'.collectionInterval = req.collectionInterval
      BY <2>1 DEF SetFeature
    <3>3. CASE ~req.sendAsyncReports
      <4>1. collectionTimer' = CollectionTimerDelete
        BY <2>1, <3>3 DEF SetFeature
      <4>2. ~collectionTimer'.in_use
        BY <4>1 DEF CollectionTimerDelete
      <4>3. collectionTimer'.in_use = FALSE
        BY <4>1, <4>2 DEF CollectionTimerDelete, TypeOK, CollectionTimer
      <4> QED BY <3>1, <3>2, <3>3, <4>3 DEF TimerFollowsConfig, FeatureRequest
    <3>4. CASE req.sendAsyncReports /\ TimerUpdateReqd(req)
      <4>1. collectionTimer' = CollectionTimerAdd(req.collectionInterval, TRUE)
        BY <2>1, <3>4 DEF SetFeature, TimerAddResults
      <4>2. /\ collectionTimer'.in_use = TRUE
            /\ collectionTimer'.interval = req.collectionInterval
        BY <4>1 DEF CollectionTimerAdd
      <4>3. req.sendAsyncReports = TRUE
        BY <3>1, <3>4 DEF FeatureRequest
      <4> QED BY <3>2, <4>2, <4>3 DEF TimerFollowsConfig
    <3>5. CASE req.sendAsyncReports /\ ~TimerUpdateReqd(req)
      <4>1. /\ UNCHANGED collectionTimer
            /\ config.collectionInterval = req.collectionInterval
            /\ config.sendAsyncReports
        BY <2>1, <3>5 DEF SetFeature, TimerUpdateReqd
      <4>2. config.sendAsyncReports = TRUE /\ req.sendAsyncReports = TRUE
        BY <3>1, <3>5, <4>1 DEF FeatureRequest, TypeOK, Config
      <4> QED BY <3>2, <4>1, <4>2 DEF TimerFollowsConfig
    <3> QED BY <3>3, <3>4, <3>5
  <2>2. CASE FeatureProgrammed
    <3>1. /\ config'.sendAsyncReports = config.sendAsyncReports
          /\ config'.collectionInterval = config.collectionInterval
          /\ UNCHANGED collectionTimer
      BY <2>2 DEF FeatureProgrammed, WithEnable
    <3> QED BY <3>1 DEF TimerFollowsConfig
  <2>3. CASE Elsewhere
    BY <2>3, ElsewhereUnchanged DEF TimerFollowsConfig
  <2>4. CASE \/ ProcessTrigger \/ SendTriggerReport \/ TriggerTimerAdd
             \/ CountTrigger \/ ClearTriggerCount \/ TriggerTimerDelete
             \/ PostEnableOnTrigger
    <3>1. UNCHANGED <<config, collectionTimer>>
      BY <2>4 DEF ProcessTrigger, SendTriggerReport, TriggerTimerAdd,
         CountTrigger, ClearTriggerCount, TriggerTimerDelete,
         PostEnableOnTrigger, configVars
    <3> QED BY <3>1 DEF TimerFollowsConfig
  <2>5. CASE UNCHANGED vars
    BY <2>5 DEF vars, TimerFollowsConfig
  <2> QED BY <2>1, <2>2, <2>3, <2>4, <2>5, NextCases
<1> QED BY <1>1, <1>2, TypeCorrect, PTL DEF Spec

-----------------------------------------------------------------------------
(* No lost wake-up.                                                         *)

RestMsgs == {m \in AppMsg : m.type \in {"SET_FEATURE", "SET_TRACK"}}
CollectMsgs == {[type |-> "GET_REPORT"]}
RecoveryTypes == {"TRIGGER_REPORT", "ENABLE_BST_ON_TRIGGER"}

\* The queue holds a message that makes the application track all groups.
Recovers(q) == \E i \in DOMAIN q : q[i].type \in RecoveryTypes

\* Messages of the collection timer that can wait: none unless some request
\* asks for asynchronous reports.
MaxCollections ==
  IF \E req \in FeatureRequests : req.sendAsyncReports THEN 1 ELSE 0

(***************************************************************************)
(* Under which RecoveryPending is claimed: the switch and the timers do    *)
(* not fail, and recvMsgQ cannot be filled by requests and collections     *)
(* alone.  (A message has 816 bytes, so that a queue of the system's       *)
(* default 16 KB holds 20; there are five REST sessions.)                  *)
(***************************************************************************)
RecoveryPossible ==
  /\ Faults \cap {"config_set", "timer_add"} = {}
  /\ AppQueueSize > MaxRequests + MaxCollections

(***************************************************************************)
(* What is in recvMsgQ: at most MaxRequests requests, all of which some    *)
(* client sent, and at most one message of the collection timer, whose     *)
(* context stays empty until a request asks for asynchronous reports.      *)
(***************************************************************************)
MessagesAreFew(q) ==
  /\ \A i \in DOMAIN q : q[i].type = "SET_FEATURE" => q[i].config \in FeatureRequests
  /\ Cardinality(PlacesOf(q, RestMsgs)) <= MaxRequests
  /\ Cardinality(PlacesOf(q, CollectMsgs)) <= MaxCollections

QueueInv == /\ MessagesAreFew(recvMsgQ)
            /\ MaxCollections = 0 => collectionTimer.cmd = "0"

LEMMA RestPlaces ==
  ASSUME recvMsgQ \in Seq(AppMsg)
  PROVE  RestRequests = PlacesOf(recvMsgQ, RestMsgs)
  BY DEF RestRequests, PlacesOf, RestMsgs

LEMMA MessageKinds ==
  /\ \A req : [type |-> "SET_FEATURE", config |-> req] \notin CollectMsgs
  /\ \A peak : [type |-> "SET_TRACK", peak |-> peak] \notin CollectMsgs
  /\ \A type \in RecoveryTypes :
       /\ [type |-> type] \notin RestMsgs
       /\ [type |-> type] \notin CollectMsgs
  /\ [type |-> "GET_REPORT"] \notin RestMsgs
  /\ \A m \in AppMsg : \/ m \in RestMsgs \/ m \in CollectMsgs
                       \/ m.type \in RecoveryTypes
  BY DEF RestMsgs, CollectMsgs, RecoveryTypes, AppMsg

\* A queue that refuses a message holds one that tracks the groups again.
LEMMA FullQueueRecovers ==
  ASSUME TypeOK, QueueInv, RecoveryPossible, ~Fits(recvMsgQ, AppQueueSize)
  PROVE  Recovers(recvMsgQ)
<1> SUFFICES ASSUME ~Recovers(recvMsgQ) PROVE FALSE
  OBVIOUS
<1> DEFINE R == PlacesOf(recvMsgQ, RestMsgs)
           C == PlacesOf(recvMsgQ, CollectMsgs)
<1>1. /\ recvMsgQ \in Seq(AppMsg) /\ Len(recvMsgQ) \in Nat
      /\ DOMAIN recvMsgQ = 1 .. Len(recvMsgQ)
  BY DEF TypeOK
<1>2. 1 .. Len(recvMsgQ) = R \cup C
  BY <1>1, MessageKinds DEF PlacesOf, Recovers
<1>3. R \cap C = {}
  BY MessageKinds DEF PlacesOf, CollectMsgs
<1>4. /\ IsFiniteSet(R) /\ Cardinality(R) \in Nat
      /\ IsFiniteSet(C) /\ Cardinality(C) \in Nat
  BY <1>1, PlacesFinite
<1>5. Cardinality(1 .. Len(recvMsgQ)) = Len(recvMsgQ)
  BY <1>1, FS_Interval
<1> HIDE DEF R, C
<1>6. Cardinality(R \cup C) = Cardinality(R) + Cardinality(C)
  BY <1>3, <1>4, FS_Union, FS_EmptySet
<1>7. Cardinality(R) <= MaxRequests /\ Cardinality(C) <= MaxCollections
  BY DEF QueueInv, MessagesAreFew, R, C
<1>8. /\ ~(Len(recvMsgQ) < AppQueueSize) /\ AppQueueSize > MaxRequests + MaxCollections
      /\ MaxRequests \in Nat /\ AppQueueSize \in Nat /\ MaxCollections \in Nat
  BY BstAssumption DEF Fits, RecoveryPossible, MaxCollections
<1>9. Len(recvMsgQ) = Cardinality(R) + Cardinality(C)
  BY <1>2, <1>5, <1>6
<1> QED BY <1>1, <1>4, <1>7, <1>8, <1>9

LEMMA Numbers ==
  /\ MaxRequests \in Nat /\ AppQueueSize \in Nat /\ TriggerQueueSize \in Nat
  /\ AppQueueSize > 0 /\ TriggerQueueSize > 0
  /\ MaxCollections \in {0, 1} /\ MaxCollections \in Nat
  BY BstAssumption DEF MaxCollections

\* A message is posted that is neither a request nor a collection; or it is,
\* and there is room for one more of its kind.
LEMMA FewAfterPost ==
  ASSUME NEW q \in Seq(AppMsg), MessagesAreFew(q), NEW m \in AppMsg,
         m.type = "SET_FEATURE" => m.config \in FeatureRequests,
         m \in RestMsgs => Cardinality(PlacesOf(q, RestMsgs)) < MaxRequests,
         m \in CollectMsgs => Cardinality(PlacesOf(q, CollectMsgs)) < MaxCollections
  PROVE  MessagesAreFew(Append(q, m))
<1>1. \A i \in DOMAIN Append(q, m) : Append(q, m)[i].type = "SET_FEATURE"
        => Append(q, m)[i].config \in FeatureRequests
  BY AppendFacts DEF MessagesAreFew
<1>2. /\ Cardinality(PlacesOf(q, RestMsgs)) \in Nat
      /\ Cardinality(PlacesOf(q, CollectMsgs)) \in Nat
  BY PlacesFinite
<1>3. Cardinality(PlacesOf(Append(q, m), RestMsgs))
        = Cardinality(PlacesOf(q, RestMsgs)) + (IF m \in RestMsgs THEN 1 ELSE 0)
  BY PostedCount
<1>4. Cardinality(PlacesOf(Append(q, m), CollectMsgs))
        = Cardinality(PlacesOf(q, CollectMsgs)) + (IF m \in CollectMsgs THEN 1 ELSE 0)
  BY PostedCount
<1> QED BY <1>1, <1>2, <1>3, <1>4, Numbers DEF MessagesAreFew

LEMMA FewAfterServed ==
  ASSUME NEW q \in Seq(AppMsg), MessagesAreFew(q), q # <<>>
  PROVE  /\ MessagesAreFew(Tail(q))
         /\ Head(q).type = "SET_FEATURE" => Head(q).config \in FeatureRequests
<1>1. \A i \in DOMAIN Tail(q) : Tail(q)[i].type = "SET_FEATURE"
        => Tail(q)[i].config \in FeatureRequests
  BY TailFacts DEF MessagesAreFew
<1>2. /\ Cardinality(PlacesOf(Tail(q), RestMsgs)) \in Nat
      /\ Cardinality(PlacesOf(Tail(q), CollectMsgs)) \in Nat
  BY PlacesFinite, TailFacts
<1>3. Cardinality(PlacesOf(q, RestMsgs))
        = Cardinality(PlacesOf(Tail(q), RestMsgs)) + (IF Head(q) \in RestMsgs THEN 1 ELSE 0)
  BY TakenCount
<1>4. Cardinality(PlacesOf(q, CollectMsgs))
        = Cardinality(PlacesOf(Tail(q), CollectMsgs)) + (IF Head(q) \in CollectMsgs THEN 1 ELSE 0)
  BY TakenCount
<1>5. Head(q).type = "SET_FEATURE" => Head(q).config \in FeatureRequests
  BY TailFacts DEF MessagesAreFew
<1> QED BY <1>1, <1>2, <1>3, <1>4, <1>5, Numbers DEF MessagesAreFew

LEMMA QueueStep == TypeOK /\ QueueInv /\ [Next]_vars => QueueInv'
<1> SUFFICES ASSUME TypeOK, QueueInv, [Next]_vars PROVE QueueInv'
  OBVIOUS
<1>0. /\ recvMsgQ \in Seq(AppMsg) /\ MessagesAreFew(recvMsgQ)
      /\ MaxCollections = 0 => collectionTimer.cmd = "0"
  BY DEF TypeOK, QueueInv
<1>1. ASSUME NEW m \in AppMsg, RestPosts(m), m \in RestMsgs,
             m.type = "SET_FEATURE" => m.config \in FeatureRequests
      PROVE  QueueInv'
  <2>1. /\ Cardinality(PlacesOf(recvMsgQ, RestMsgs)) < MaxRequests
        /\ recvMsgQ' = Append(recvMsgQ, m)
        /\ collectionTimer' = collectionTimer
    BY <1>0, <1>1, RestPlaces DEF RestPosts, configVars
  <2>2. m \notin CollectMsgs
    BY <1>1 DEF RestMsgs, CollectMsgs
  <2>3. MessagesAreFew(Append(recvMsgQ, m))
    BY <1>0, <1>1, <2>1, <2>2, FewAfterPost
  <2> QED BY <1>0, <2>1, <2>3 DEF QueueInv
<1>2. CASE ConfigureFeature
  <2>1. PICK req \in FeatureRequests :
          RestPosts([type |-> "SET_FEATURE", config |-> req])
    BY <1>2 DEF ConfigureFeature
  <2> DEFINE m == [type |-> "SET_FEATURE", config |-> req]
  <2>2. m \in AppMsg /\ m.type = "SET_FEATURE" /\ m.config = req
    BY BstAssumption, MessageTypes
  <2>3. m \in RestMsgs
    BY <2>2 DEF RestMsgs
  <2> QED BY <1>1, <2>1, <2>2, <2>3
<1>3. CASE ConfigureTracking
  <2>1. PICK peak \in PeakRequests :
          RestPosts([type |-> "SET_TRACK", peak |-> peak])
    BY <1>3 DEF ConfigureTracking
  <2> DEFINE m == [type |-> "SET_TRACK", peak |-> peak]
  <2>2. m \in AppMsg /\ m.type = "SET_TRACK"
    BY BstAssumption, MessageTypes
  <2>3. m \in RestMsgs
    BY <2>2 DEF RestMsgs
  <2> QED BY <1>1, <2>1, <2>2, <2>3
<1>4. CASE PeriodicCollectionCb
  <2> DEFINE m == [type |-> "GET_REPORT"]
  <2>1. /\ m \in AppMsg /\ m \notin RestMsgs /\ m.type # "SET_FEATURE"
    BY MessageTypes, MessageKinds
  <2>2. PlacesOf(recvMsgQ, CollectMsgs) = {}
    BY <1>4 DEF PeriodicCollectionCb, PlacesOf, CollectMsgs
  <2>3. collectionTimer' = collectionTimer
    BY <1>4 DEF PeriodicCollectionCb, configVars
  <2>4. CASE UNCHANGED recvMsgQ
    BY <1>0, <2>3, <2>4 DEF QueueInv
  <2>5. CASE recvMsgQ' = Append(recvMsgQ, m) /\ collectionTimer.cmd = "GET_REPORT"
    <3>1. MaxCollections = 1
      BY <1>0, <2>5, Numbers
    <3>2. Cardinality(PlacesOf(recvMsgQ, CollectMsgs)) < MaxCollections
      BY <2>2, <3>1, FS_EmptySet
    <3>3. MessagesAreFew(Append(recvMsgQ, m))
      BY <1>0, <2>1, <3>2, FewAfterPost
    <3> QED BY <1>0, <2>3, <2>5, <3>3 DEF QueueInv
  <2> QED BY <1>4, <2>4, <2>5 DEF PeriodicCollectionCb, Post
<1>5. CASE SendTriggerReport \/ PostEnableOnTrigger
  <2>1. PICK type \in RecoveryTypes :
          recvMsgQ' \in {recvMsgQ, Append(recvMsgQ, [type |-> type])}
    BY <1>5 DEF SendTriggerReport, PostEnableOnTrigger, Post, RecoveryTypes
  <2>2. collectionTimer' = collectionTimer
    BY <1>5 DEF SendTriggerReport, PostEnableOnTrigger, configVars
  <2>3. MessagesAreFew(Append(recvMsgQ, [type |-> type]))
    <3>1. [type |-> type] \in AppMsg /\ [type |-> type].type # "SET_FEATURE"
      BY MessageTypes DEF RecoveryTypes
    <3> QED BY <1>0, <3>1, MessageKinds, FewAfterPost
  <2> QED BY <1>0, <2>1, <2>2, <2>3 DEF QueueInv
<1>6. CASE SetFeature
  <2> DEFINE req == Head(recvMsgQ).config
  <2>1. /\ recvMsgQ # <<>> /\ Head(recvMsgQ).type = "SET_FEATURE"
        /\ recvMsgQ' = Tail(recvMsgQ)
    BY <1>6 DEF SetFeature, Receives
  <2>2. MessagesAreFew(Tail(recvMsgQ)) /\ req \in FeatureRequests
    BY <1>0, <2>1, FewAfterServed
  <2>3. ASSUME MaxCollections = 0 PROVE collectionTimer'.cmd = "0"
    <3>1. ~req.sendAsyncReports
      BY <2>2, <2>3 DEF MaxCollections
    <3>2. collectionTimer' = CollectionTimerDelete
      BY <1>6, <3>1 DEF SetFeature
    <3> QED BY <1>0, <2>3, <3>2 DEF CollectionTimerDelete
  <2> QED BY <2>1, <2>2, <2>3 DEF QueueInv
<1>7. CASE SetTrack \/ TriggerReport \/ EnableOnTriggerTimerExpiry \/ PeriodicReport
  <2>1. /\ recvMsgQ # <<>> /\ recvMsgQ' = Tail(recvMsgQ)
        /\ collectionTimer' = collectionTimer
    BY <1>7 DEF SetTrack, TriggerReport, EnableOnTriggerTimerExpiry, PeriodicReport,
                Receives, configVars
  <2> QED BY <1>0, <2>1, FewAfterServed DEF QueueInv
<1>8. CASE UNCHANGED <<recvMsgQ, collectionTimer>>
  BY <1>0, <1>8 DEF QueueInv
<1>9. ASSUME NEW c \in Counters, AsicTrigger(c)
      PROVE  UNCHANGED <<recvMsgQ, collectionTimer>>
  BY <1>9 DEF AsicTrigger, configVars
<1>10. CASE \/ CollectionTimerExpires \/ TriggerTimerExpires \/ TriggerTimerCb
            \/ FeatureInSync \/ FeatureProgrammed
            \/ ProcessTrigger \/ TriggerTimerAdd \/ CountTrigger
            \/ ClearTriggerCount \/ TriggerTimerDelete \/ UNCHANGED vars
  <2>1. UNCHANGED <<recvMsgQ, collectionTimer>>
    BY <1>10 DEF CollectionTimerExpires, TriggerTimerExpires, TriggerTimerCb,
       FeatureInSync, FeatureProgrammed, ProcessTrigger, TriggerTimerAdd,
       CountTrigger, ClearTriggerCount, TriggerTimerDelete, vars, configVars
  <2> QED BY <1>8, <2>1
<1> QED
  BY <1>2, <1>3, <1>4, <1>5, <1>6, <1>7, <1>8, <1>9, <1>10
     DEF Next, AppThread, TriggerThread

(***************************************************************************)
(* RecoveryPending, said so that a step is easily seen to keep it: either  *)
(* kind of message to the trigger thread leads to a recovery.  The thread  *)
(* at "count" is not in the list: it found the counter muted, or has seen  *)
(* to the timer, so that the timer is armed (WindowInv).                   *)
(***************************************************************************)
RecoveryInv ==
  config.bstEnable /\ hwGroups # Groups =>
    \/ triggerTimer
    \/ "trigger" \in callbacks
    \/ trigger.pc \in {"send", "timer", "delete", "post"}
    \/ Recovers(recvMsgQ)
    \/ recvTriggerMsgQ # <<>>

LEMMA RecoversAfterPost ==
  ASSUME NEW q \in Seq(AppMsg), NEW m \in AppMsg
  PROVE  /\ Recovers(q) => Recovers(Append(q, m))
         /\ m.type \in RecoveryTypes => Recovers(Append(q, m))
<1>1. /\ DOMAIN q = 1 .. Len(q) /\ Len(q) \in Nat
      /\ DOMAIN Append(q, m) = 1 .. Len(q) + 1
      /\ \A i \in 1 .. Len(q) : Append(q, m)[i] = q[i]
      /\ Append(q, m)[Len(q) + 1] = m
  BY AppendFacts
<1> QED BY <1>1 DEF Recovers

LEMMA RecoversAfterServed ==
  ASSUME NEW q \in Seq(AppMsg), q # <<>>, Recovers(q),
         ~(Head(q).type \in RecoveryTypes)
  PROVE  Recovers(Tail(q))
<1>1. /\ Head(q) = q[1] /\ Len(q) \in Nat /\ DOMAIN q = 1 .. Len(q)
      /\ DOMAIN Tail(q) = 1 .. Len(q) - 1
      /\ \A i \in 1 .. Len(q) - 1 : Tail(q)[i] = q[i + 1]
  BY TailFacts
<1>2. PICK i \in DOMAIN q : q[i].type \in RecoveryTypes
  BY DEF Recovers
<1>3. i # 1 /\ i - 1 \in 1 .. Len(q) - 1 /\ (i - 1) + 1 = i
  BY <1>1, <1>2
<1>4. Tail(q)[i - 1].type \in RecoveryTypes
  BY <1>1, <1>2, <1>3
<1> QED BY <1>1, <1>3, <1>4 DEF Recovers

LEMMA TriggerPosted ==
  ASSUME recvTriggerMsgQ \in Seq(TriggerMsg), NEW m \in TriggerMsg
  PROVE  Post(recvTriggerMsgQ, TriggerQueueSize, m) # <<>>
<1>1. CASE Fits(recvTriggerMsgQ, TriggerQueueSize)
  BY <1>1, AppendFacts DEF Post
<1>2. CASE ~Fits(recvTriggerMsgQ, TriggerQueueSize)
  BY <1>2, Numbers DEF Post, Fits
<1> QED BY <1>1, <1>2

LEMMA RecoveryStep ==
  TypeOK /\ QueueInv /\ WindowInv /\ RecoveryInv /\ RecoveryPossible /\ [Next]_vars
    => RecoveryInv'
<1> SUFFICES ASSUME TypeOK, QueueInv, WindowInv, RecoveryInv, RecoveryPossible,
                    [Next]_vars
             PROVE  RecoveryInv'
  OBVIOUS
<1>0. /\ recvMsgQ \in Seq(AppMsg) /\ recvTriggerMsgQ \in Seq(TriggerMsg)
      /\ config \in Config /\ triggerCount \in [Counters -> Nat]
      /\ "config_set" \notin Faults /\ "timer_add" \notin Faults
  BY DEF TypeOK, RecoveryPossible
\* Most actions change nothing of what the invariant is about, or add to it.
<1>1. ASSUME UNCHANGED <<config, hwGroups, triggerTimer, trigger, recvTriggerMsgQ>>,
             "trigger" \in callbacks => "trigger" \in callbacks',
             Recovers(recvMsgQ) => Recovers(recvMsgQ')
      PROVE  RecoveryInv'
  BY <1>1 DEF RecoveryInv, Recovers
<1>2. ASSUME NEW m \in AppMsg, RestPosts(m) PROVE RecoveryInv'
  <2>1. /\ recvMsgQ' = Append(recvMsgQ, m)
        /\ UNCHANGED <<config, hwGroups, triggerTimer, trigger, recvTriggerMsgQ, callbacks>>
    BY <1>2 DEF RestPosts, configVars, limiterVars, hwVars
  <2>2. Recovers(recvMsgQ) => Recovers(recvMsgQ')
    BY <1>0, <2>1, RecoversAfterPost
  <2> QED BY <1>1, <2>1, <2>2
<1>3. CASE ConfigureFeature \/ ConfigureTracking
  <2>1. PICK m \in AppMsg : RestPosts(m)
    BY <1>3, BstAssumption, MessageTypes DEF ConfigureFeature, ConfigureTracking
  <2> QED BY <1>2, <2>1
<1>4. CASE PeriodicCollectionCb
  <2>1. /\ \/ UNCHANGED recvMsgQ
           \/ recvMsgQ' = Append(recvMsgQ, [type |-> "GET_REPORT"])
        /\ callbacks' = callbacks \ {"collection"}
        /\ UNCHANGED <<config, hwGroups, triggerTimer, trigger, recvTriggerMsgQ>>
    BY <1>4 DEF PeriodicCollectionCb, Post, configVars, limiterVars, hwVars
  <2>2. Recovers(recvMsgQ) => Recovers(recvMsgQ')
    BY <1>0, <2>1, MessageTypes, RecoversAfterPost DEF Recovers
  <2> QED BY <1>1, <2>1, <2>2
<1>5. CASE SetFeature
  <2>1. /\ recvMsgQ # <<>> /\ Head(recvMsgQ).type = "SET_FEATURE"
        /\ recvMsgQ' = Tail(recvMsgQ)
        /\ config'.bstEnable = config.bstEnable
        /\ UNCHANGED <<hwGroups, triggerTimer, trigger, recvTriggerMsgQ, callbacks>>
    BY <1>5 DEF SetFeature, Receives, limiterVars, hwVars
  <2>2. Recovers(recvMsgQ) => Recovers(recvMsgQ')
    BY <1>0, <2>1, RecoversAfterServed DEF RecoveryTypes
  <2> QED BY <2>1, <2>2 DEF RecoveryInv, Recovers
<1>6. CASE PeriodicReport \/ (SetTrack /\ UNCHANGED hwGroups)
  <2>1. /\ recvMsgQ # <<>> /\ Head(recvMsgQ).type \in {"GET_REPORT", "SET_TRACK"}
        /\ recvMsgQ' = Tail(recvMsgQ)
        /\ UNCHANGED <<config, hwGroups, triggerTimer, trigger, recvTriggerMsgQ, callbacks>>
    BY <1>6 DEF PeriodicReport, SetTrack, Receives, configVars, limiterVars, hwVars
  <2>2. Recovers(recvMsgQ) => Recovers(recvMsgQ')
    BY <1>0, <2>1, RecoversAfterServed DEF RecoveryTypes
  <2> QED BY <1>1, <2>1, <2>2
\* The switch is programmed: with BST enabled all groups are tracked again.
<1>7. CASE SetTrack /\ ~UNCHANGED hwGroups
  <2>1. config.bstEnable => hwGroups' = Groups
    BY <1>0, <1>7 DEF SetTrack, SbConfigSet, hwVars
  <2>2. config' = config
    BY <1>7 DEF SetTrack
  <2> QED BY <2>1, <2>2 DEF RecoveryInv
<1>8. CASE TriggerReport
  <2>1. hwGroups' = Groups
    BY <1>0, <1>8 DEF TriggerReport, EnableOnTrigger, SbConfigSet
  <2> QED BY <2>1 DEF RecoveryInv
<1>9. CASE EnableOnTriggerTimerExpiry
  <2>1. config.bstEnable => hwGroups' = Groups
    BY <1>0, <1>9 DEF EnableOnTriggerTimerExpiry, EnableOnTrigger, SbConfigSet
  <2>2. config' = config
    BY <1>9 DEF EnableOnTriggerTimerExpiry, configVars
  <2> QED BY <2>1, <2>2 DEF RecoveryInv
<1>10. CASE FeatureProgrammed
  <2>1. config'.bstEnable = app.req.bstEnable
    BY <1>0, <1>10 DEF FeatureProgrammed, SbConfigSet, WithEnable
  <2>2. app.req.bstEnable => hwGroups' = Groups
    BY <1>0, <1>10 DEF FeatureProgrammed, SbConfigSet
  <2> QED BY <2>1, <2>2 DEF RecoveryInv
\* An event for a full queue is lost, but then others wait there.
<1>11. ASSUME NEW c \in Counters, AsicTrigger(c) PROVE RecoveryInv'
  <2>1. recvTriggerMsgQ' # <<>>
    BY <1>0, <1>11, MessageTypes, TriggerPosted DEF AsicTrigger
  <2> QED BY <2>1 DEF RecoveryInv
<1>12. CASE TriggerTimerCb
  <2>1. recvTriggerMsgQ' # <<>>
    BY <1>0, <1>12, MessageTypes, TriggerPosted DEF TriggerTimerCb
  <2> QED BY <2>1 DEF RecoveryInv
<1>13. CASE ProcessTrigger
  <2> DEFINE c == Head(recvTriggerMsgQ).counter
  <2>1. c \in Counters
    BY <1>0, <1>13, ServeType, MessageFields DEF ProcessTrigger
  <2>2. /\ UNCHANGED triggerTimer
        /\ trigger'.pc = IF Muted(c, config.bstMaxTriggers) THEN "count" ELSE "send"
    BY <1>13 DEF ProcessTrigger
  <2>3. Muted(c, config.bstMaxTriggers) => triggerTimer
    <3>1. config.bstMaxTriggers \in 1 .. 30 /\ triggerCount[c] \in Nat
      BY <1>0, <2>1, LimitType
    <3>2. Muted(c, config.bstMaxTriggers) => triggerCount[c] > 0
      BY <3>1 DEF Muted
    <3> QED BY <1>0, <2>1, <3>2 DEF WindowInv
  <2> QED BY <2>2, <2>3 DEF RecoveryInv
<1>14. CASE SendTriggerReport
  <2>1. CASE Fits(recvMsgQ, AppQueueSize)
    <3>1. recvMsgQ' = Append(recvMsgQ, [type |-> "TRIGGER_REPORT"])
      BY <1>14, <2>1 DEF SendTriggerReport
    <3>2. [type |-> "TRIGGER_REPORT"] \in AppMsg
      BY MessageTypes
    <3>3. Recovers(Append(recvMsgQ, [type |-> "TRIGGER_REPORT"]))
      BY <1>0, <3>2, RecoversAfterPost DEF RecoveryTypes
    <3> QED BY <3>1, <3>3 DEF RecoveryInv, Recovers
  <2>2. CASE ~Fits(recvMsgQ, AppQueueSize)
    <3>1. recvMsgQ' = recvMsgQ
      BY <1>14, <2>2 DEF SendTriggerReport
    <3> QED BY <2>2, <3>1, FullQueueRecovers DEF RecoveryInv, Recovers
  <2> QED BY <2>1, <2>2
<1>15. CASE PostEnableOnTrigger
  <2>1. CASE Fits(recvMsgQ, AppQueueSize)
    <3>1. recvMsgQ' = Append(recvMsgQ, [type |-> "ENABLE_BST_ON_TRIGGER"])
      BY <1>15, <2>1 DEF PostEnableOnTrigger, Post
    <3>2. [type |-> "ENABLE_BST_ON_TRIGGER"] \in AppMsg
      BY MessageTypes
    <3>3. Recovers(Append(recvMsgQ, [type |-> "ENABLE_BST_ON_TRIGGER"]))
      BY <1>0, <3>2, RecoversAfterPost DEF RecoveryTypes
    <3> QED BY <3>1, <3>3 DEF RecoveryInv, Recovers
  <2>2. CASE ~Fits(recvMsgQ, AppQueueSize)
    <3>1. recvMsgQ' = recvMsgQ
      BY <1>15, <2>2 DEF PostEnableOnTrigger, Post
    <3> QED BY <2>2, <3>1, FullQueueRecovers DEF RecoveryInv, Recovers
  <2> QED BY <2>1, <2>2
<1>16. CASE TriggerTimerAdd
  <2>1. triggerTimer' = TRUE
    BY <1>0, <1>16 DEF TriggerTimerAdd, TimerAddResults
  <2> QED BY <2>1 DEF RecoveryInv
<1>17. CASE CountTrigger
  <2>1. triggerTimer /\ UNCHANGED triggerTimer
    BY <1>0, <1>17 DEF CountTrigger, WindowInv
  <2> QED BY <2>1 DEF RecoveryInv
<1>18. CASE ClearTriggerCount \/ TriggerTimerDelete
  <2>1. trigger'.pc \in {"delete", "post"}
    BY <1>18 DEF ClearTriggerCount, TriggerTimerDelete
  <2> QED BY <2>1 DEF RecoveryInv
<1>19. CASE CollectionTimerExpires \/ TriggerTimerExpires \/ FeatureInSync \/ UNCHANGED vars
  <2>1. /\ UNCHANGED <<config, hwGroups, triggerTimer, trigger, recvTriggerMsgQ, recvMsgQ>>
        /\ "trigger" \in callbacks => "trigger" \in callbacks'
    BY <1>19 DEF CollectionTimerExpires, TriggerTimerExpires, FeatureInSync, vars,
                 configVars, limiterVars, hwVars
  <2> QED BY <1>1, <2>1 DEF Recovers
<1> QED
  BY <1>3, <1>4, <1>5, <1>6, <1>7, <1>8, <1>9, <1>10, <1>11, <1>12, <1>13, <1>14,
     <1>15, <1>16, <1>17, <1>18, <1>19 DEF Next, AppThread, TriggerThread

(***************************************************************************)
(* No lost wake-up, for any counters, groups and requests and any size of  *)
(* the trigger queue: where the switch and the timers do not fail and the  *)
(* application's queue has room beyond what clients and the collection     *)
(* timer can fill, a group that a trigger has switched off is never        *)
(* forgotten, whichever of the messages about it are refused.              *)
(***************************************************************************)
THEOREM RecoveryPendingHolds ==
  ASSUME RecoveryPossible
  PROVE  Spec => []RecoveryPending
<1>1. Init => QueueInv /\ WindowInv /\ RecoveryInv
  <2> SUFFICES ASSUME Init PROVE QueueInv /\ WindowInv /\ RecoveryInv
    OBVIOUS
  <2>1. PlacesOf(recvMsgQ, RestMsgs) = {} /\ PlacesOf(recvMsgQ, CollectMsgs) = {}
    BY DEF Init, PlacesOf
  <2>2. /\ Cardinality(PlacesOf(recvMsgQ, RestMsgs)) = 0
        /\ Cardinality(PlacesOf(recvMsgQ, CollectMsgs)) = 0
    BY <2>1, FS_EmptySet
  <2>3. MessagesAreFew(recvMsgQ)
    <3>1. DOMAIN recvMsgQ = {}
      BY DEF Init
    <3> QED BY <2>2, <3>1, Numbers DEF MessagesAreFew
  <2> QED BY <2>3 DEF Init, QueueInv, WindowInv, RecoveryInv
<1>2. TypeOK /\ QueueInv /\ [Next]_vars => QueueInv'
  BY QueueStep
<1>3. TypeOK /\ WindowInv /\ [Next]_vars => WindowInv'
  BY WindowStep
<1>4. TypeOK /\ QueueInv /\ WindowInv /\ RecoveryInv /\ [Next]_vars => RecoveryInv'
  BY RecoveryStep
<1>5. TypeOK /\ RecoveryInv => RecoveryPending
  <2> SUFFICES ASSUME TypeOK, RecoveryInv, config.bstEnable, hwGroups # Groups
               PROVE  RecoveryPending
    BY DEF RecoveryPending
  <2>1. recvTriggerMsgQ # <<>> =>
          /\ 1 \in DOMAIN recvTriggerMsgQ
          /\ recvTriggerMsgQ[1].type \in {"TRIGGER_COLLECT", "CLEAR_TRIGGER_COUNT"}
    BY DEF TypeOK, TriggerMsg
  <2>2. recvTriggerMsgQ # <<>> => Waiting("TRIGGER_COLLECT") \/ Waiting("CLEAR_TRIGGER_COUNT")
    BY <2>1 DEF Waiting
  <2>3. Recovers(recvMsgQ) => Waiting("TRIGGER_REPORT") \/ Waiting("ENABLE_BST_ON_TRIGGER")
    BY DEF Recovers, RecoveryTypes, Waiting
  <2> QED BY <2>2, <2>3 DEF RecoveryInv, RecoveryPending
<1> QED BY <1>1, <1>2, <1>3, <1>4, <1>5, TypeCorrect, PTL DEF Spec

=============================================================================
