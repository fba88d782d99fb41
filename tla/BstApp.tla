------------------------------- MODULE BstApp -------------------------------
(***************************************************************************)
(* The Buffer Statistics Tracking (BST) application of one unit: its       *)
(* configuration, the rate limiter of the ASIC's trigger events, the timer *)
(* that collects reports periodically and the ASIC state these drive.      *)
(*                                                                         *)
(* Four kinds of thread meet here.  The application thread serves the      *)
(* messages of recvMsgQ one at a time (bst_app_main), the trigger thread   *)
(* those of recvTriggerMsgQ (bst_trigger_main).  The REST thread, the ASIC *)
(* event thread and the threads of expired timers only post messages, all  *)
(* with IPC_NOWAIT: a message for a full queue is dropped.                 *)
(*                                                                         *)
(* A section the code runs under the unit's rwlock is one action.  Between *)
(* two sections, and around each call of the switch plugin, other threads  *)
(* may run.  What a report contains is modelled in module BstReports.      *)
(***************************************************************************)
EXTENDS Naturals, Sequences, FiniteSets

CONSTANTS
  Counters,          \* realm/counter pairs the ASIC reports on (BST_ID_...)
  Groups,            \* groups of buffers that BST is switched off by
  GroupOf,           \* the group a counter belongs to
  FeatureRequests,   \* the configure-bst-feature requests that are sent
  PeakRequests,      \* track-peak-stats of the configure-bst-tracking requests
  MaxRequests,       \* bound: REST requests waiting in recvMsgQ
  AppQueueSize,      \* messages that recvMsgQ holds
  TriggerQueueSize,  \* messages that recvTriggerMsgQ holds
  MaxCount,          \* bound: triggers counted for a counter in one window
  Faults             \* calls that may fail: config_get, config_set, timer_add

(***************************************************************************)
(* The decoder accepts a trigger-rate-limit in 1..30 only, so a request    *)
(* never lifts the limit.  The field is optional: Unchanged stands for a   *)
(* request without it.                                                     *)
(***************************************************************************)
Unchanged == 0

FeatureRequest ==
  [bstEnable : BOOLEAN, sendAsyncReports : BOOLEAN, collectionInterval : 0 .. 600,
   bstMaxTriggers : 1 .. 30 \cup {Unchanged}]

ASSUME BstAssumption ==
  /\ GroupOf \in [Counters -> Groups]
  /\ FeatureRequests \subseteq FeatureRequest
  /\ PeakRequests \subseteq BOOLEAN
  /\ {MaxRequests, AppQueueSize, TriggerQueueSize, MaxCount} \subseteq Nat \ {0}
  /\ Faults \subseteq {"config_get", "config_set", "timer_add"}

VARIABLES
  config,            \* BVIEW_BST_CONFIG_PARAMS_t of the unit
  trackPeakStats,    \* the same field of BVIEW_BST_TRACK_PARAMS_t
  collectionTimer,   \* bst_collection_timer
  triggerTimer,      \* bst_trigger_timer.in_use
  triggerCount,      \* bst_trigger_count
  callbacks,         \* timers whose callback thread has started
  recvMsgQ,
  recvTriggerMsgQ,
  app,               \* where the application thread is, and its request
  trigger,           \* where the trigger thread is, with its locals
  hwGroups,          \* groups whose statistics the ASIC is tracking
  hwPeak,            \* whether the ASIC tracks peak values
  ackedEnable,       \* history: bst-enable of the last acknowledged request
  sent,              \* history: reports requested per counter in this window
  windowLimit        \* history: largest limit in force in this window

configVars  == <<config, trackPeakStats, collectionTimer>>
limiterVars == <<triggerTimer, triggerCount, trigger, recvTriggerMsgQ>>
hwVars      == <<hwGroups, hwPeak>>
history     == <<ackedEnable, sent, windowLimit>>
vars == <<config, trackPeakStats, collectionTimer, triggerTimer, triggerCount,
          callbacks, recvMsgQ, recvTriggerMsgQ, app, trigger, hwGroups,
          hwPeak, ackedEnable, sent, windowLimit>>

-----------------------------------------------------------------------------
(* Types.                                                                   *)

Config == [bstEnable : BOOLEAN, sendAsyncReports : BOOLEAN,
           collectionInterval : 0 .. 600, bstMaxTriggers : 1 .. 30]

\* The cmd of a timer's context is 0 once the context has been cleared.
CollectionTimer ==
  [in_use : BOOLEAN, interval : 0 .. 600, cmd : {"GET_REPORT", "0"}]

AppMsg ==
       [type : {"SET_FEATURE"}, config : FeatureRequest]
  \cup [type : {"SET_TRACK"}, peak : BOOLEAN]
  \cup [type : {"TRIGGER_REPORT", "ENABLE_BST_ON_TRIGGER", "GET_REPORT"}]

TriggerMsg ==
       [type : {"TRIGGER_COLLECT"}, counter : Counters]
  \cup [type : {"CLEAR_TRIGGER_COUNT"}]

AppState == [pc : {"receive"}] \cup [pc : {"get", "set"}, req : FeatureRequest]

TriggerState ==
       [pc : {"receive", "delete", "post"}]
  \cup [pc : {"send", "timer", "count"}, counter : Counters, limit : 1 .. 30]

TypeOK ==
  /\ config \in Config
  /\ trackPeakStats \in BOOLEAN
  /\ collectionTimer \in CollectionTimer
  /\ triggerTimer \in BOOLEAN
  /\ triggerCount \in [Counters -> Nat]
  /\ callbacks \subseteq {"collection", "trigger"}
  /\ recvMsgQ \in Seq(AppMsg)
  /\ recvTriggerMsgQ \in Seq(TriggerMsg)
  /\ app \in AppState
  /\ trigger \in TriggerState
  /\ hwGroups \subseteq Groups
  /\ hwPeak \in BOOLEAN
  /\ ackedEnable \in BOOLEAN
  /\ sent \in [Counters -> Nat]
  /\ windowLimit \in Nat

-----------------------------------------------------------------------------
(* Message queues (msgsnd with IPC_NOWAIT) and the switch plugin.           *)

Fits(queue, size) == Len(queue) < size

Post(queue, size, msg) == IF Fits(queue, size) THEN Append(queue, msg) ELSE queue

\* Requests that REST clients still wait for.
RestRequests == {i \in DOMAIN recvMsgQ :
                   recvMsgQ[i].type \in {"SET_FEATURE", "SET_TRACK"}}

Max2(m, n) == IF m < n THEN n ELSE m

\* sbapi_bst_config_get: BST reads as enabled while any group is tracked.
SbConfigGet == hwGroups # {}

(***************************************************************************)
(* sbapi_bst_config_set switches the statistics of all groups and then the *)
(* tracking mode.  When it fails (ok = FALSE) it may already have switched *)
(* the statistics.                                                         *)
(***************************************************************************)
SbConfigSetIfDifferent(enable, peak, ok) ==
  LET switched == IF SbConfigGet = enable THEN hwGroups
                  ELSE IF enable THEN Groups ELSE {}
  IN /\ ok
     /\ hwGroups' = switched
     /\ hwPeak' = peak

SbConfigSet(enable, peak, ok) ==
  LET switched == IF enable THEN Groups ELSE {}
  IN \/ /\ ok
        /\ hwGroups' = switched
        /\ hwPeak' = peak
     \/ /\ ~ok
        /\ "config_set" \in Faults
        /\ hwGroups' \in {hwGroups, switched}
        /\ UNCHANGED hwPeak

-----------------------------------------------------------------------------
(* The timers.                                                              *)

(***************************************************************************)
(* bst_periodic_collection_timer_add fills the context in and, when the    *)
(* timer is in use, deletes it, which clears the context again.            *)
(***************************************************************************)
CollectionTimerAdd(interval, ok) ==
  [in_use   |-> ok,
   interval |-> IF ok THEN interval ELSE collectionTimer.interval,
   cmd      |-> IF collectionTimer.in_use THEN "0" ELSE "GET_REPORT"]

CollectionTimerDelete ==
  IF collectionTimer.in_use
    THEN [in_use |-> FALSE, interval |-> collectionTimer.interval, cmd |-> "0"]
    ELSE collectionTimer

\* system_timer_add returns success, or a failure when that is possible.
TimerAddResults == {TRUE} \cup {"timer_add" \notin Faults}

CollectionTimerExpires ==
  /\ collectionTimer.in_use
  /\ collectionTimer.interval > 0      \* 0 leaves a POSIX timer disarmed
  /\ "collection" \notin callbacks
  /\ callbacks' = callbacks \cup {"collection"}
  /\ UNCHANGED <<configVars, limiterVars, recvMsgQ, app, hwVars, history>>

TriggerTimerExpires ==
  /\ triggerTimer
  /\ "trigger" \notin callbacks
  /\ callbacks' = callbacks \cup {"trigger"}
  /\ UNCHANGED <<configVars, limiterVars, recvMsgQ, app, hwVars, history>>

(***************************************************************************)
(* The callback thread reads the timer's context when it runs.  msgsnd     *)
(* refuses a message of type 0.  At most one collection message waits in   *)
(* the queue: a collection is served well within its interval.             *)
(***************************************************************************)
PeriodicCollectionCb ==
  /\ "collection" \in callbacks
  /\ callbacks' = callbacks \ {"collection"}
  /\ \A i \in DOMAIN recvMsgQ : recvMsgQ[i].type # "GET_REPORT"
  /\ recvMsgQ' = IF collectionTimer.cmd = "GET_REPORT"
                   THEN Post(recvMsgQ, AppQueueSize, [type |-> "GET_REPORT"])
                   ELSE recvMsgQ
  /\ UNCHANGED <<configVars, limiterVars, app, hwVars, history>>

TriggerTimerCb ==
  /\ "trigger" \in callbacks
  /\ callbacks' = callbacks \ {"trigger"}
  /\ recvTriggerMsgQ' = Post(recvTriggerMsgQ, TriggerQueueSize,
                             [type |-> "CLEAR_TRIGGER_COUNT"])
  /\ UNCHANGED <<configVars, triggerTimer, triggerCount, trigger, recvMsgQ,
                 app, hwVars, history>>

-----------------------------------------------------------------------------
(* REST clients and the ASIC.                                               *)

RestPosts(msg) ==
  /\ Cardinality(RestRequests) < MaxRequests
  /\ Fits(recvMsgQ, AppQueueSize)
  /\ recvMsgQ' = Append(recvMsgQ, msg)
  /\ UNCHANGED <<configVars, limiterVars, callbacks, app, hwVars, history>>

ConfigureFeature ==
  \E req \in FeatureRequests : RestPosts([type |-> "SET_FEATURE", config |-> req])

ConfigureTracking ==
  \E peak \in PeakRequests : RestPosts([type |-> "SET_TRACK", peak |-> peak])

(***************************************************************************)
(* A counter passes its threshold: the ASIC stops tracking the counter's   *)
(* group and calls bst_trigger_cb.  The event is lost if the trigger queue *)
(* is full.                                                                *)
(***************************************************************************)
AsicTrigger(c) ==
  /\ GroupOf[c] \in hwGroups
  /\ triggerCount[c] < MaxCount
  /\ hwGroups' = hwGroups \ {GroupOf[c]}
  /\ recvTriggerMsgQ' = Post(recvTriggerMsgQ, TriggerQueueSize,
                             [type |-> "TRIGGER_COLLECT", counter |-> c])
  /\ UNCHANGED <<configVars, triggerTimer, triggerCount, trigger, callbacks,
                 recvMsgQ, app, hwPeak, history>>

-----------------------------------------------------------------------------
(* The trigger thread.                                                      *)

MutedLate(c, limit) == triggerCount[c] > limit /\ limit # 0

\* The counter has used up the reports of this window.  0 is no limit.
Muted(c, limit) == triggerCount[c] >= limit /\ limit # 0

FirstAfterCount(c, limit) == triggerCount[c] = 1 /\ limit # 0

\* The report opens a window, which the trigger timer will close.
FirstOfWindow(c, limit) == triggerCount[c] = 0 /\ limit # 0

\* bst_process_trigger, up to the release of the read lock.
ProcessTrigger ==
  /\ trigger.pc = "receive"
  /\ recvTriggerMsgQ # <<>>
  /\ Head(recvTriggerMsgQ).type = "TRIGGER_COLLECT"
  /\ LET c     == Head(recvTriggerMsgQ).counter
         limit == config.bstMaxTriggers
     IN trigger' = [pc |-> IF Muted(c, limit) THEN "count" ELSE "send",
                    counter |-> c, limit |-> limit]
  /\ recvTriggerMsgQ' = Tail(recvTriggerMsgQ)
  /\ UNCHANGED <<configVars, triggerTimer, triggerCount, callbacks, recvMsgQ,
                 app, hwVars, history>>

\* The report is requested.  If it cannot be, the trigger is not counted.
SendTriggerReport ==
  /\ trigger.pc = "send"
  /\ LET c == trigger.counter
     IN IF Fits(recvMsgQ, AppQueueSize)
          THEN /\ recvMsgQ' = Append(recvMsgQ, [type |-> "TRIGGER_REPORT"])
               /\ sent' = [sent EXCEPT ![c] = @ + 1]
               /\ trigger' = [pc |-> IF FirstOfWindow(c, trigger.limit)
                                       THEN "timer" ELSE "count",
                               counter |-> c, limit |-> trigger.limit]
          ELSE /\ trigger' = [pc |-> "receive"]
               /\ UNCHANGED <<recvMsgQ, sent>>
  /\ UNCHANGED <<configVars, triggerTimer, triggerCount, recvTriggerMsgQ,
                 callbacks, app, hwVars, ackedEnable, windowLimit>>

TriggerTimerAdd ==
  /\ trigger.pc = "timer"
  /\ trigger' = [pc |-> "count", counter |-> trigger.counter,
                 limit |-> trigger.limit]
  /\ \E ok \in TimerAddResults : triggerTimer' = (triggerTimer \/ ok)
  /\ UNCHANGED <<configVars, triggerCount, recvTriggerMsgQ, callbacks,
                 recvMsgQ, app, hwVars, history>>

CountTrigger ==
  /\ trigger.pc = "count"
  /\ triggerCount' = [triggerCount EXCEPT ![trigger.counter] = @ + 1]
  /\ trigger' = [pc |-> "receive"]
  /\ UNCHANGED <<configVars, triggerTimer, recvTriggerMsgQ, callbacks,
                 recvMsgQ, app, hwVars, history>>

\* clearTimer of bst_clear_trigger_count.
NoTriggers == \A c \in Counters : triggerCount[c] = 0

\* bst_clear_trigger_count: a new window starts.
ClearTriggerCount ==
  /\ trigger.pc = "receive"
  /\ recvTriggerMsgQ # <<>>
  /\ Head(recvTriggerMsgQ).type = "CLEAR_TRIGGER_COUNT"
  /\ trigger' = [pc |-> IF NoTriggers THEN "delete" ELSE "post"]
  /\ triggerCount' = [c \in Counters |-> 0]
  /\ recvTriggerMsgQ' = Tail(recvTriggerMsgQ)
  /\ sent' = [c \in Counters |-> 0]
  /\ windowLimit' = config.bstMaxTriggers
  /\ UNCHANGED <<configVars, triggerTimer, callbacks, recvMsgQ, app, hwVars,
                 ackedEnable>>

TriggerTimerDelete ==
  /\ trigger.pc = "delete"
  /\ trigger' = [pc |-> "post"]
  /\ triggerTimer' = FALSE
  /\ UNCHANGED <<configVars, triggerCount, recvTriggerMsgQ, callbacks,
                 recvMsgQ, app, hwVars, history>>

PostEnableOnTrigger ==
  /\ trigger.pc = "post"
  /\ trigger' = [pc |-> "receive"]
  /\ recvMsgQ' = Post(recvMsgQ, AppQueueSize,
                      [type |-> "ENABLE_BST_ON_TRIGGER"])
  /\ UNCHANGED <<configVars, triggerTimer, triggerCount, recvTriggerMsgQ,
                 callbacks, app, hwVars, history>>

-----------------------------------------------------------------------------
(* The application thread.                                                  *)

Receives(type) ==
  /\ app.pc = "receive"
  /\ recvMsgQ # <<>>
  /\ Head(recvMsgQ).type = type
  /\ recvMsgQ' = Tail(recvMsgQ)

NewlyAsync(req) == ~config.sendAsyncReports

TimerUpdateReqd(req) == \/ config.collectionInterval # req.collectionInterval
                        \/ ~config.sendAsyncReports

LimitUnmasked(req) == req.bstMaxTriggers

LimitAfter(req) == IF req.bstMaxTriggers = Unchanged
                     THEN config.bstMaxTriggers ELSE req.bstMaxTriggers

(***************************************************************************)
(* bst_config_feature_set, up to the release of the write lock.  The REST  *)
(* decoder always fills bst-enable, send-async-reports and                 *)
(* collection-interval in.                                                 *)
(***************************************************************************)
SetFeature ==
  /\ Receives("SET_FEATURE")
  /\ LET req    == Head(recvMsgQ).config
         limit  == LimitAfter(req)
     IN /\ config' = [bstEnable          |-> config.bstEnable,
                      sendAsyncReports   |-> req.sendAsyncReports,
                      collectionInterval |-> req.collectionInterval,
                      bstMaxTriggers     |-> limit]
        /\ IF ~req.sendAsyncReports
             THEN collectionTimer' = CollectionTimerDelete
             ELSE IF TimerUpdateReqd(req)
               THEN \E ok \in TimerAddResults :
                      collectionTimer' =
                        CollectionTimerAdd(req.collectionInterval, ok)
               ELSE UNCHANGED collectionTimer
        /\ app' = [pc |-> "get", req |-> req]
        /\ windowLimit' = Max2(windowLimit, limit)
  /\ UNCHANGED <<trackPeakStats, limiterVars, callbacks, hwVars, ackedEnable,
                 sent>>

\* The ASIC is asked for its state: nothing is left to do if it is as requested.
FeatureInSync ==
  /\ app.pc = "get"
  /\ \/ /\ SbConfigGet = app.req.bstEnable
        /\ app' = [pc |-> "receive"]
        /\ ackedEnable' = app.req.bstEnable
     \/ /\ SbConfigGet # app.req.bstEnable
        /\ app' = [pc |-> "set", req |-> app.req]
        /\ UNCHANGED ackedEnable
     \/ /\ "config_get" \in Faults
        /\ app' = [pc |-> "receive"]
        /\ UNCHANGED ackedEnable
  /\ UNCHANGED <<configVars, limiterVars, callbacks, recvMsgQ, hwVars, sent,
                 windowLimit>>

WithEnable(enable) ==
  [bstEnable          |-> enable,
   sendAsyncReports   |-> config.sendAsyncReports,
   collectionInterval |-> config.collectionInterval,
   bstMaxTriggers     |-> config.bstMaxTriggers]

FeatureProgrammed ==
  /\ app.pc = "set"
  /\ app' = [pc |-> "receive"]
  /\ \E ok \in BOOLEAN :
       /\ SbConfigSet(app.req.bstEnable, hwPeak, ok)
       /\ config' = WithEnable(IF ok THEN app.req.bstEnable ELSE config.bstEnable)
       /\ ackedEnable' = IF ok THEN app.req.bstEnable ELSE ackedEnable
  /\ UNCHANGED <<trackPeakStats, collectionTimer, limiterVars, callbacks,
                 recvMsgQ, sent, windowLimit>>

(***************************************************************************)
(* bst_config_track_set.  Of the tracked realms only trackPeakStats is     *)
(* kept; a request may change others, so it may program the ASIC even if   *)
(* trackPeakStats is as requested.                                         *)
(***************************************************************************)
SetTrack ==
  /\ Receives("SET_TRACK")
  /\ LET peak == Head(recvMsgQ).peak
     IN \/ /\ peak = trackPeakStats
           /\ UNCHANGED <<trackPeakStats, hwVars>>
        \/ \E ok \in BOOLEAN :
             /\ SbConfigSet(config.bstEnable, peak, ok)
             /\ trackPeakStats' = IF ok THEN peak ELSE trackPeakStats
  /\ UNCHANGED <<config, collectionTimer, limiterVars, callbacks, app, history>>

\* bst_enable_on_trigger: statistics of all groups, in current (not peak) mode.
EnableOnTrigger == \E ok \in BOOLEAN : SbConfigSet(TRUE, FALSE, ok)

\* bst_get_report for a trigger: the snapshot is taken and BST enabled again.
TriggerReport ==
  /\ Receives("TRIGGER_REPORT")
  /\ EnableOnTrigger
  /\ UNCHANGED <<configVars, limiterVars, callbacks, app, history>>

EnableOnTriggerTimerExpiry ==
  /\ Receives("ENABLE_BST_ON_TRIGGER")
  /\ IF config.bstEnable THEN EnableOnTrigger ELSE UNCHANGED hwVars
  /\ UNCHANGED <<configVars, limiterVars, callbacks, app, history>>

PeriodicReport ==
  /\ Receives("GET_REPORT")
  /\ UNCHANGED <<configVars, limiterVars, callbacks, app, hwVars, history>>

-----------------------------------------------------------------------------
\* bst_app_config_init and the defaults of bst_app.h.
Init ==
  /\ config = [bstEnable |-> FALSE, sendAsyncReports |-> FALSE,
               collectionInterval |-> 60, bstMaxTriggers |-> 1]
  /\ trackPeakStats = FALSE
  /\ collectionTimer = [in_use |-> FALSE, interval |-> 0, cmd |-> "0"]
  /\ triggerTimer = FALSE
  /\ triggerCount = [c \in Counters |-> 0]
  /\ callbacks = {}
  /\ recvMsgQ = <<>>
  /\ recvTriggerMsgQ = <<>>
  /\ app = [pc |-> "receive"]
  /\ trigger = [pc |-> "receive"]
  /\ hwGroups = {}
  /\ hwPeak = FALSE
  /\ ackedEnable = FALSE
  /\ sent = [c \in Counters |-> 0]
  /\ windowLimit = 1

AppThread == \/ SetFeature \/ FeatureInSync \/ FeatureProgrammed
             \/ SetTrack \/ TriggerReport \/ EnableOnTriggerTimerExpiry
             \/ PeriodicReport

TriggerThread == \/ ProcessTrigger \/ SendTriggerReport \/ TriggerTimerAdd
                 \/ CountTrigger \/ ClearTriggerCount \/ TriggerTimerDelete
                 \/ PostEnableOnTrigger

Next ==
  \/ ConfigureFeature
  \/ ConfigureTracking
  \/ \E c \in Counters : AsicTrigger(c)
  \/ CollectionTimerExpires
  \/ TriggerTimerExpires
  \/ PeriodicCollectionCb
  \/ TriggerTimerCb
  \/ AppThread
  \/ TriggerThread

Spec == Init /\ [][Next]_vars

(***************************************************************************)
(* Threads run and armed timers expire.  Nothing is assumed of REST        *)
(* clients and of the ASIC.                                                *)
(***************************************************************************)
Fairness ==
  /\ WF_vars(AppThread)
  /\ WF_vars(TriggerThread)
  /\ WF_vars(TriggerTimerExpires)
  /\ WF_vars(TriggerTimerCb)
  /\ WF_vars(CollectionTimerExpires)
  /\ WF_vars(PeriodicCollectionCb)

FairSpec == Spec /\ Fairness

-----------------------------------------------------------------------------
(* Properties.                                                              *)

(***************************************************************************)
(* Rate limit.  In the window between two clearings of the counts, no more *)
(* reports are requested for a counter than the largest trigger-rate-limit *)
(* that was in force, even though the limit is read, the report posted and *)
(* the count raised in separate steps, between which the limit may change. *)
(***************************************************************************)
RateLimit == \A c \in Counters : sent[c] <= windowLimit

(***************************************************************************)
(* A count that mutes a counter is never left without the timer that will  *)
(* clear it (the "cleared and restarted as and when required" of           *)
(* bst_clear_trigger_count).                                               *)
(***************************************************************************)
CountsHaveTimer ==
  "timer_add" \notin Faults =>
    ((\E c \in Counters : triggerCount[c] > 0) => triggerTimer)

(***************************************************************************)
(* The collection timer is armed exactly while asynchronous reports are    *)
(* configured, with the configured interval.                               *)
(***************************************************************************)
TimerFollowsConfig ==
  "timer_add" \notin Faults =>
    /\ collectionTimer.in_use = config.sendAsyncReports
    /\ collectionTimer.in_use =>
         collectionTimer.interval = config.collectionInterval

Waiting(type) ==
  \/ \E i \in DOMAIN recvMsgQ : recvMsgQ[i].type = type
  \/ \E i \in DOMAIN recvTriggerMsgQ : recvTriggerMsgQ[i].type = type

(***************************************************************************)
(* No lost wake-up.  If BST is enabled and the ASIC has stopped tracking a *)
(* group after a trigger, then something that enables the group again is   *)
(* on its way through the queues, the trigger thread or the timer.         *)
(***************************************************************************)
RecoveryPending ==
  config.bstEnable /\ hwGroups # Groups =>
    \/ triggerTimer
    \/ callbacks \cap {"trigger"} # {}
    \/ trigger.pc \in {"send", "timer", "delete", "post"}
    \/ \E type \in {"TRIGGER_COLLECT", "TRIGGER_REPORT",
                    "CLEAR_TRIGGER_COUNT", "ENABLE_BST_ON_TRIGGER"} :
         Waiting(type)

\* A group that a trigger switched off while BST is enabled is tracked again.
TrackingResumes ==
  config.bstEnable /\ hwGroups # Groups
    ~> hwGroups = Groups \/ ~config.bstEnable

\* A counter that has sent reports gets a new window.
MuteEnds == \A c \in Counters : triggerCount[c] > 0 ~> triggerCount[c] = 0

(***************************************************************************)
(* When the collection timer of an interval is replaced, "delete the one   *)
(* with previous collection timer interval and add the new one", the new   *)
(* one still asks for reports when it expires.                             *)
(***************************************************************************)
ArmedTimerCollects ==
  collectionTimer.in_use => collectionTimer.cmd = "GET_REPORT"

(***************************************************************************)
(* "every thing is fine. both are in sync.. just return": a request that   *)
(* was acknowledged is what the application works with.                    *)
(***************************************************************************)
AcknowledgedIsConfigured == ackedEnable = config.bstEnable

=============================================================================
