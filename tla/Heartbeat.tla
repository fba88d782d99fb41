------------------------------ MODULE Heartbeat ------------------------------
(***************************************************************************)
(* The agent's own application (infrastructure/system/system_utils and     *)
(* reg_hb): its queue, the registration and heartbeat configuration, the   *)
(* timer behind it, the switch's properties - on request, and with every   *)
(* heartbeat - and the dispatch of cancel requests to the applications     *)
(* that registered a handler (BST alone: BstDropCounters has it).          *)
(***************************************************************************)
EXTENDS Naturals, Sequences, FiniteSets, SequencesExt

CONSTANTS Intervals,        \* heartbeat intervals a client may set, 0 for none
          DefaultInterval,  \* BVIEW_REG_HB_DEFAULT_HEARTBEAT_INTERVAL
          HbQueueSize,      \* messages the queue holds
          HbSessions,       \* REST sessions
          MaxHbFailures     \* bound: timer calls and encodings that fail

ASSUME HeartbeatAssumption ==
  /\ Intervals \subseteq Nat /\ DefaultInterval \in Intervals \ {0}
  /\ {HbQueueSize, HbSessions, MaxHbFailures} \subseteq Nat

VARIABLES hbThread,     \* the application's thread: before its loop, or in it
          hbConfig,     \* enable and interval
          hbTimer,      \* the timer's record: in_use, and the timer it names
          running,      \* the timers of the operating system that beat
          hbQueue,      \* messages to the application
          waiting,      \* sessions whose request has no answer
          hbFailed      \* the calls that failed: deletions, additions, encodings

hbVars == <<hbThread, hbConfig, hbTimer, running, hbQueue, waiting, hbFailed>>

Unarmed == 0            \* a timer that was made and could not be set: it never beats
NoTimer1 == [in_use |-> FALSE, id |-> Unarmed]
HbFailures(f) == f.stop + f.add + f.encode

(* What may be asked: each part of the feature's configuration may be left *)
(* out of the mask.                                                        *)
FeatureRequests == [what : {"set"}, enable : (SUBSET BOOLEAN) \ {BOOLEAN}, interval : {{}} \cup {{i} : i \in Intervals}]
Requests == FeatureRequests \cup {[what |-> "get"], [what |-> "properties"], [what |-> "cancel"]}
Tick == [what |-> "tick"]

(* system_utils_main: the heartbeat is enabled by default. *)
HbInit ==
  /\ hbThread = "starting"
  /\ hbConfig = [enable |-> TRUE, interval |-> DefaultInterval]
  /\ hbTimer = NoTimer1
  /\ running = {}
  /\ hbQueue = << >>
  /\ waiting = 0
  /\ hbFailed = [stop |-> 0, add |-> 0, encode |-> 0]

----------------------------------------------------------------------------
(* The REST thread posts a request, the timer's thread a heartbeat; either *)
(* finds the queue full or not.                                            *)
SendRequest(m) ==
  /\ waiting < HbSessions
  /\ Len(hbQueue) < HbQueueSize
  /\ hbQueue' = Append(hbQueue, m)
  /\ waiting' = waiting + 1
  /\ UNCHANGED <<hbThread, hbConfig, hbTimer, running, hbFailed>>

TimerCb ==
  /\ running # {}
  /\ Len(hbQueue) < HbQueueSize
  /\ hbQueue' = Append(hbQueue, Tick)
  /\ UNCHANGED <<hbThread, hbConfig, hbTimer, running, waiting, hbFailed>>

----------------------------------------------------------------------------
(* The timer's record, the timers and the failed calls, as they are and as *)
(* the calls may leave them.                                               *)
Timers == [timer |-> hbTimer, running |-> running, failed |-> hbFailed]
Become(t) ==
  /\ hbTimer' = t.timer /\ running' = t.running /\ hbFailed' = t.failed
  /\ HbFailures(t.failed) <= MaxHbFailures

(* reg_hb_heartbeat_timer_stop: deleting the timer may fail. *)
Stops(t) ==
  IF ~t.timer.in_use THEN {t}
  ELSE {[t EXCEPT !.timer.in_use = FALSE, !.running = {r \in @ : r.id # t.timer.id}],
        [t EXCEPT !.failed.stop = @ + 1]}

NewId(timers) == CHOOSE i \in 1..(Cardinality(timers) + 1) : \A r \in timers : r.id # i

(* system_timer_add: the timer is made and set; or not made; or made, its  *)
(* id left in the record, and not set.                                     *)
Adds(t, interval) ==
  LET id == NewId(t.running)
  IN {[t EXCEPT !.timer = [in_use |-> TRUE, id |-> id], !.running = @ \cup {[id |-> id, period |-> interval]}],
      [t EXCEPT !.failed.add = @ + 1],
      [t EXCEPT !.timer.id = Unarmed, !.failed.add = @ + 1]}

(* A bug to tell apart: the timer that runs is not deleted first. *)
StartsOver(t, interval) == Adds(t, interval)

(* reg_hb_heartbeat_timer_start: a timer that runs is deleted first; that  *)
(* it could not be is logged, and the new one takes its place in the       *)
(* record.                                                                 *)
Starts(t, interval) == UNION {Adds(u, interval) : u \in Stops(t)}

Beats(c) == c.enable /\ c.interval # 0

(* The thread, before its loop; whether the timer could be started is not  *)
(* looked at.                                                              *)
HbStart ==
  /\ hbThread = "starting" /\ hbThread' = "serving"
  /\ \E t \in (IF Beats(hbConfig) THEN Starts(Timers, hbConfig.interval) ELSE {Timers}) : Become(t)
  /\ UNCHANGED <<hbConfig, hbQueue, waiting>>

NewConfig(m) ==
  [enable |-> IF m.enable = {} THEN hbConfig.enable ELSE CHOOSE e \in BOOLEAN : e \in m.enable,
   interval |-> IF m.interval = {} THEN hbConfig.interval ELSE CHOOSE i \in Intervals : i \in m.interval]

(* Whether the timer must be started again: a part that was given differs. *)
ModifyTimer(m) == NewConfig(m).enable # hbConfig.enable \/ NewConfig(m).interval # hbConfig.interval

Taken == hbQueue # << >> /\ hbQueue' = Tail(hbQueue)
Asked(what) == hbThread = "serving" /\ hbQueue # << >> /\ Head(hbQueue).what = what
Answer == waiting' = waiting - 1

(* reg_hb_config_feature_set: answered with success whatever became of the *)
(* timer.                                                                  *)
FeatureSet ==
  /\ Asked("set") /\ Taken
  /\ LET m == Head(hbQueue)
         c == NewConfig(m)
     IN /\ hbConfig' = c
        /\ \E t \in (IF ~Beats(c) THEN Stops(Timers)
                      ELSE IF ModifyTimer(m) THEN Starts(Timers, c.interval)
                      ELSE {Timers}) : Become(t)
  /\ Answer
  /\ UNCHANGED hbThread

(* system_utils_send_response: nothing is sent when the encoding fails,    *)
(* and the session stays in use.                                           *)
EncodeFailed == Become([Timers EXCEPT !.failed.encode = @ + 1]) /\ UNCHANGED waiting

(* The two requests that are answered with a document. *)
Get ==
  /\ Asked("get") \/ Asked("properties")
  /\ Taken
  /\ (Become(Timers) /\ Answer) \/ EncodeFailed
  /\ UNCHANGED <<hbThread, hbConfig>>

(* The heartbeat: the properties of the switch, to the collector. *)
Beat ==
  /\ Asked("tick") /\ Taken
  /\ UNCHANGED <<hbThread, hbConfig, hbTimer, running, waiting, hbFailed>>

(* system_utils_switch_cancel_request: answered with what the handler says. *)
CancelRequest ==
  /\ Asked("cancel") /\ Taken
  /\ Answer
  /\ UNCHANGED <<hbThread, hbConfig, hbTimer, running, hbFailed>>

HbServes == HbStart \/ FeatureSet \/ Get \/ Beat \/ CancelRequest
HbNext == (\E m \in Requests : SendRequest(m)) \/ TimerCb \/ HbServes
HbFairness == WF_hbVars(HbServes)
HbSpec == HbInit /\ [][HbNext]_hbVars /\ HbFairness

----------------------------------------------------------------------------
(* Types. *)
HbTypeOK ==
  /\ hbThread \in {"starting", "serving"}
  /\ hbConfig \in [enable : BOOLEAN, interval : Intervals]
  /\ hbTimer.in_use \in BOOLEAN /\ hbTimer.id \in Nat
  /\ \A r \in running : r.id \in Nat \ {Unarmed} /\ r.period \in Intervals \ {0}
  /\ Len(hbQueue) <= HbQueueSize
  /\ waiting <= HbSessions
  /\ HbFailures(hbFailed) <= MaxHbFailures

(* The timer the record names, as long as it is in use, and those nothing  *)
(* can stop any more.                                                      *)
Named == {r \in running : hbTimer.in_use /\ r.id = hbTimer.id}
Lost == running \ Named

(* A heartbeat that nothing can stop is owed to a deletion that failed,    *)
(* each to one of its own; no failed start leaves one behind.              *)
LostOnlyUndeleted == Cardinality(Lost) <= hbFailed.stop

(* The heartbeat that was configured last is sent, unless adding a timer   *)
(* failed - even when the timer before it could not be deleted; and when   *)
(* none is to be sent none is, unless a deletion failed.                   *)
BeatsAsConfigured ==
  hbThread = "serving" =>
    /\ Beats(hbConfig) /\ hbFailed.add = 0 => {r.period : r \in Named} = {hbConfig.interval}
    /\ ~Beats(hbConfig) /\ hbFailed.stop = 0 => running = {}

(* A session is in use for a message in the queue, or for a document that  *)
(* could not be encoded: no other path forgets one or frees it early.      *)
Unanswered == Cardinality({i \in DOMAIN hbQueue : hbQueue[i].what # "tick"})
SessionsAccounted == waiting = Unanswered + hbFailed.encode
=============================================================================
