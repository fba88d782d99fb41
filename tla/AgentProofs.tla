------------------------------ MODULE AgentProofs ------------------------------
(***************************************************************************)
(* Proofs about the agent's own parts: the registration and heartbeat, the *)
(* south-bound redirector, the start of the applications, and the plug-in  *)
(* over a database.                                                        *)
(***************************************************************************)
EXTENDS MCAgent, ProofLemmas

-----------------------------------------------------------------------------
(* Registration and heartbeat: the record of the timer, the timers of the   *)
(* operating system, and the sessions that wait.                            *)

HbMessages == Requests \cup {Tick}
HbUnanswered == {m \in HbMessages : m.what # "tick"}
HbConfigs == [enable : BOOLEAN, interval : Intervals]
RunningTimers == [id : Nat \ {Unarmed}, period : Intervals \ {0}]
HbStates == [timer : [in_use : BOOLEAN, id : Nat], running : SUBSET RunningTimers,
             failed : [stop : Nat, add : Nat, encode : Nat]]

\* What holds of the timers whatever fails: their ids tell them apart, and those
\* that the record does not name are no more than the deletions that failed.
LostIn(t) == {r \in t.running : ~(t.timer.in_use /\ r.id = t.timer.id)}
ToldApart(timers) == \A r, s \in timers : r.id = s.id => r = s
TimersOk(t) ==
  /\ t \in HbStates /\ IsFiniteSet(t.running) /\ ToldApart(t.running)
  /\ Cardinality(LostIn(t)) <= t.failed.stop

\* How they stand to the configuration.
NamedBeats(t, i) == t.timer.in_use /\ \E r \in t.running : r.id = t.timer.id /\ r.period = i
ConfigKept(t, c) ==
  /\ Beats(c) /\ t.failed.add = 0 => NamedBeats(t, c.interval)
  /\ ~Beats(c) /\ t.failed.stop = 0 => ~t.timer.in_use

HbInv ==
  /\ hbThread \in {"starting", "serving"} /\ hbConfig \in HbConfigs
  /\ TimersOk(Timers) /\ HbFailures(hbFailed) <= MaxHbFailures
  /\ hbThread = "starting" => hbTimer = NoTimer1 /\ running = {}
  /\ hbThread = "serving" => ConfigKept(Timers, hbConfig)
  /\ hbQueue \in Seq(HbMessages) /\ Len(hbQueue) <= HbQueueSize
  /\ waiting \in Nat /\ waiting <= HbSessions
  /\ waiting = Cardinality(PlacesOf(hbQueue, HbUnanswered)) + hbFailed.encode

LEMMA HbNumbers ==
  /\ Intervals \subseteq Nat /\ HbQueueSize \in Nat /\ HbSessions \in Nat /\ MaxHbFailures \in Nat
  /\ DefaultInterval \in Intervals /\ DefaultInterval # 0
  BY HeartbeatAssumption

\* A set of timers leaves one of the ids up to one more than it has elements.
LEMMA NewIdIsNew ==
  ASSUME NEW S \in SUBSET RunningTimers, IsFiniteSet(S)
  PROVE  NewId(S) \in Nat \ {Unarmed} /\ \A r \in S : r.id # NewId(S)
<1> DEFINE n == Cardinality(S)
           ids == {r.id : r \in S}
           f == [r \in S |-> r.id]
<1>1. n \in Nat
  BY FS_CardinalityType
<1>2. f \in Surjection(S, ids)
  BY DEF Surjection
<1>3. IsFiniteSet(ids) /\ Cardinality(ids) <= n
  BY <1>2, FS_Surjection
<1>4. Cardinality(1 .. n + 1) = n + 1
  BY <1>1, FS_Interval
<1>5. \E i \in 1 .. n + 1 : i \notin ids
  <2>1. SUFFICES ASSUME 1 .. n + 1 \subseteq ids PROVE FALSE
    OBVIOUS
  <2>2. Cardinality(1 .. n + 1) <= Cardinality(ids)
    BY <1>3, <2>1, FS_Subset
  <2>3. Cardinality(ids) \in Nat
    BY <1>3, FS_CardinalityType
  <2> QED BY <1>1, <1>3, <1>4, <2>2, <2>3
<1>6. \E i \in 1 .. n + 1 : \A r \in S : r.id # i
  BY <1>5
<1>7. NewId(S) \in 1 .. n + 1 /\ \A r \in S : r.id # NewId(S)
  BY <1>6 DEF NewId
<1> QED BY <1>1, <1>7 DEF Unarmed

\* What a stop leaves: every timer that runs, the one it could not delete
\* included, is one of those that could not be deleted.
LEMMA StopsLeave ==
  ASSUME NEW t, TimersOk(t), NEW u \in Stops(t)
  PROVE  /\ u \in HbStates /\ IsFiniteSet(u.running) /\ ToldApart(u.running)
         /\ Cardinality(u.running) <= u.failed.stop
         /\ Cardinality(LostIn(u)) <= u.failed.stop
         /\ u.failed.stop = 0 => ~u.timer.in_use
         /\ u.failed.add = t.failed.add /\ u.failed.encode = t.failed.encode
<1>1. /\ t \in HbStates /\ IsFiniteSet(t.running) /\ ToldApart(t.running)
      /\ Cardinality(LostIn(t)) <= t.failed.stop
      /\ t.timer.in_use \in BOOLEAN /\ t.failed.stop \in Nat /\ t.timer \in [in_use : BOOLEAN, id : Nat]
      /\ t.running \in SUBSET RunningTimers /\ t.failed \in [stop : Nat, add : Nat, encode : Nat]
  BY DEF TimersOk, HbStates
<1>2. IsFiniteSet(LostIn(t)) /\ Cardinality(LostIn(t)) \in Nat
  BY <1>1, FS_Subset, FS_CardinalityType DEF LostIn
<1> DEFINE left == {r \in t.running : r.id # t.timer.id}
<1>3. /\ u \in HbStates /\ IsFiniteSet(u.running) /\ ToldApart(u.running)
      /\ Cardinality(u.running) <= u.failed.stop /\ u.failed.stop \in Nat
      /\ u.failed.stop = 0 => ~u.timer.in_use
      /\ u.failed.add = t.failed.add /\ u.failed.encode = t.failed.encode
  <2>1. CASE ~t.timer.in_use
    <3>1. u = t /\ LostIn(t) = t.running
      BY <1>1, <2>1 DEF Stops, LostIn
    <3> QED BY <1>1, <2>1, <3>1
  <2>2. CASE t.timer.in_use /\ u = [t EXCEPT !.timer.in_use = FALSE, !.running = {r \in @ : r.id # t.timer.id}]
    <3>1. u.timer = [t.timer EXCEPT !.in_use = FALSE] /\ u.running = left /\ u.failed = t.failed /\ u \in HbStates
      BY <1>1, <2>2 DEF HbStates
    <3>2. left = LostIn(t) /\ left \subseteq t.running
      BY <2>2 DEF LostIn
    <3>3. ToldApart(left)
      BY <1>1 DEF ToldApart
    <3> HIDE DEF left
    <3>4. ~u.timer.in_use
      BY <1>1, <3>1
    <3> QED BY <1>1, <1>2, <3>1, <3>2, <3>3, <3>4
  <2>3. CASE t.timer.in_use /\ u = [t EXCEPT !.failed.stop = @ + 1]
    <3>1. /\ u.running = t.running /\ u.timer = t.timer /\ u.failed = [t.failed EXCEPT !.stop = @ + 1]
          /\ u.failed.stop = t.failed.stop + 1 /\ u \in HbStates
          /\ u.failed.add = t.failed.add /\ u.failed.encode = t.failed.encode
      BY <1>1, <2>3 DEF HbStates
    <3>2. Cardinality(t.running) <= Cardinality(LostIn(t)) + 1
      <4>1. CASE \E r \in t.running : r.id = t.timer.id
        <5>1. PICK r \in t.running : r.id = t.timer.id
          BY <4>1
        <5>2. t.running = LostIn(t) \cup {r}
          BY <1>1, <2>3, <5>1 DEF LostIn, ToldApart
        <5> QED BY <1>2, <5>2, FS_AddElement
      <4>2. CASE ~\E r \in t.running : r.id = t.timer.id
        <5>1. t.running = LostIn(t)
          BY <4>2 DEF LostIn
        <5> QED BY <1>2, <5>1
      <4> QED BY <4>1, <4>2
    <3>3. Cardinality(t.running) \in Nat
      BY <1>1, FS_CardinalityType
    <3>4. Cardinality(t.running) <= t.failed.stop + 1 /\ t.failed.stop + 1 # 0
      BY <1>1, <1>2, <3>2, <3>3
    <3> QED BY <1>1, <3>1, <3>4
  <2> QED BY <2>1, <2>2, <2>3 DEF Stops
<1>4. LostIn(u) \subseteq u.running
  BY DEF LostIn
<1>5. Cardinality(LostIn(u)) <= Cardinality(u.running) /\ Cardinality(LostIn(u)) \in Nat /\ Cardinality(u.running) \in Nat
  BY <1>3, <1>4, FS_Subset, FS_CardinalityType
<1> QED BY <1>3, <1>5

\* What a start leaves: the timer at the new interval, which the record names;
\* those that run besides it could not be deleted.
LEMMA StartsLeave ==
  ASSUME NEW t, TimersOk(t), NEW i \in Intervals \ {0}, NEW v \in Starts(t, i)
  PROVE  /\ TimersOk(v)
         /\ v.failed.add = 0 => NamedBeats(v, i)
         /\ v.failed.encode = t.failed.encode
<1>1. PICK u \in Stops(t) : v \in Adds(u, i)
  BY DEF Starts
<1>2. /\ u \in HbStates /\ IsFiniteSet(u.running) /\ ToldApart(u.running)
      /\ Cardinality(u.running) <= u.failed.stop
      /\ Cardinality(LostIn(u)) <= u.failed.stop
      /\ u.failed.encode = t.failed.encode
  BY StopsLeave
<1>3. /\ u.timer \in [in_use : BOOLEAN, id : Nat] /\ u.running \in SUBSET RunningTimers
      /\ u.failed \in [stop : Nat, add : Nat, encode : Nat]
  BY <1>2 DEF HbStates
<1> DEFINE id == NewId(u.running)
           new == [id |-> id, period |-> i]
<1>4. id \in Nat \ {Unarmed} /\ \A r \in u.running : r.id # id
  BY <1>2, <1>3, NewIdIsNew
<1>5. new \in RunningTimers
  BY <1>4 DEF RunningTimers
<1> HIDE DEF id
<1>6. CASE v = [u EXCEPT !.timer = [in_use |-> TRUE, id |-> id], !.running = @ \cup {new}]
  <2>1. v.timer = [in_use |-> TRUE, id |-> id] /\ v.running = u.running \cup {new} /\ v.failed = u.failed /\ v \in HbStates
    BY <1>2, <1>3, <1>4, <1>5, <1>6 DEF HbStates
  <2>2. IsFiniteSet(v.running)
    <3> HIDE DEF new
    <3> QED BY <1>2, <2>1, FS_AddElement
  <2>3. ToldApart(v.running)
    BY <1>2, <1>4, <2>1 DEF ToldApart
  <2>4. LostIn(v) = u.running
    BY <1>4, <2>1 DEF LostIn
  <2>5. NamedBeats(v, i)
    <3>1. v.timer.in_use /\ v.timer.id = id
      BY <2>1
    <3>2. new \in v.running /\ new.id = id /\ new.period = i
      BY <2>1
    <3> HIDE DEF new
    <3> QED BY <3>1, <3>2 DEF NamedBeats
  <2> QED BY <1>2, <2>1, <2>2, <2>3, <2>4, <2>5 DEF TimersOk
<1>7. CASE v \in {[u EXCEPT !.failed.add = @ + 1], [u EXCEPT !.timer.id = Unarmed, !.failed.add = @ + 1]}
  <2> DEFINE more == [u.failed EXCEPT !.add = @ + 1]
  <2>0. /\ more \in [stop : Nat, add : Nat, encode : Nat]
        /\ more.stop = u.failed.stop /\ more.encode = u.failed.encode /\ more.add = u.failed.add + 1
    BY <1>3
  <2>1. /\ v.running = u.running /\ v \in HbStates
        /\ v.failed.stop = u.failed.stop /\ v.failed.encode = u.failed.encode /\ v.failed.add = u.failed.add + 1
    <3>1. CASE v = [u EXCEPT !.failed.add = @ + 1]
      <4>1. v = [u EXCEPT !.failed = more]
        BY <1>2, <3>1 DEF HbStates
      <4> HIDE DEF more
      <4> QED BY <1>2, <2>0, <4>1 DEF HbStates
    <3>2. CASE v = [u EXCEPT !.timer.id = Unarmed, !.failed.add = @ + 1]
      <4>1. PICK at : at = [u.timer EXCEPT !.id = Unarmed]
        OBVIOUS
      <4>2. at \in [in_use : BOOLEAN, id : Nat]
        BY <1>3, <4>1 DEF Unarmed
      <4>3. v = [u EXCEPT !.timer = at, !.failed = more]
        BY <1>2, <3>2, <4>1 DEF HbStates
      <4> HIDE DEF more
      <4> QED BY <1>2, <2>0, <4>2, <4>3 DEF HbStates
    <3> QED BY <1>7, <3>1, <3>2
  <2>2. LostIn(v) \subseteq u.running
    BY <2>1 DEF LostIn
  <2>3. Cardinality(LostIn(v)) <= Cardinality(u.running) /\ Cardinality(LostIn(v)) \in Nat /\ Cardinality(u.running) \in Nat
    BY <1>2, <2>2, FS_Subset, FS_CardinalityType
  <2>4. v.failed.add # 0 /\ u.failed.stop \in Nat
    <3>1. u.failed.add \in Nat /\ u.failed.stop \in Nat
      BY <1>3
    <3> QED BY <2>1, <3>1
  <2> QED BY <1>2, <2>1, <2>3, <2>4 DEF TimersOk
<1> QED BY <1>1, <1>6, <1>7 DEF Adds, id

LEMMA NewConfigType ==
  ASSUME hbConfig \in HbConfigs, NEW m \in FeatureRequests
  PROVE  NewConfig(m) \in HbConfigs
<1>1. /\ m.enable \in SUBSET BOOLEAN /\ (m.enable = {} \/ \E e \in BOOLEAN : e \in m.enable)
      /\ m.interval = {} \/ \E i \in Intervals : i \in m.interval
  BY DEF FeatureRequests
<1>2. m.enable = {} \/ (CHOOSE e \in BOOLEAN : e \in m.enable) \in BOOLEAN
  BY <1>1
<1>3. m.interval = {} \/ (CHOOSE i \in Intervals : i \in m.interval) \in Intervals
  BY <1>1
<1> DEFINE e == IF m.enable = {} THEN hbConfig.enable ELSE CHOOSE e \in BOOLEAN : e \in m.enable
           i == IF m.interval = {} THEN hbConfig.interval ELSE CHOOSE i \in Intervals : i \in m.interval
<1>4. hbConfig.enable \in BOOLEAN /\ hbConfig.interval \in Intervals
  BY DEF HbConfigs
<1>5. e \in BOOLEAN
  BY <1>2, <1>4
<1>6. i \in Intervals
  BY <1>3, <1>4
<1>7. NewConfig(m) = [enable |-> e, interval |-> i]
  BY DEF NewConfig
<1> HIDE DEF e, i
<1> QED BY <1>5, <1>6, <1>7 DEF HbConfigs

LEMMA HbPosts ==
  ASSUME HbInv, NEW m \in HbMessages, Len(hbQueue) < HbQueueSize, hbQueue' = Append(hbQueue, m)
  PROVE  /\ hbQueue' \in Seq(HbMessages) /\ Len(hbQueue') <= HbQueueSize
         /\ Cardinality(PlacesOf(hbQueue', HbUnanswered))
              = Cardinality(PlacesOf(hbQueue, HbUnanswered)) + (IF m.what # "tick" THEN 1 ELSE 0)
<1>1. hbQueue \in Seq(HbMessages) /\ Len(hbQueue) \in Nat
  BY DEF HbInv
<1>2. hbQueue' \in Seq(HbMessages) /\ Len(hbQueue') = Len(hbQueue) + 1
  BY <1>1, AppendFacts
<1>3. m \in HbUnanswered <=> m.what # "tick"
  BY DEF HbUnanswered
<1> QED BY <1>1, <1>2, <1>3, PostedCount, HbNumbers

LEMMA HbTakes ==
  ASSUME HbInv, Taken
  PROVE  /\ Head(hbQueue) \in HbMessages
         /\ hbQueue' \in Seq(HbMessages) /\ Len(hbQueue') <= HbQueueSize
         /\ Cardinality(PlacesOf(hbQueue', HbUnanswered)) \in Nat
         /\ Cardinality(PlacesOf(hbQueue, HbUnanswered))
              = Cardinality(PlacesOf(hbQueue', HbUnanswered)) + (IF Head(hbQueue).what # "tick" THEN 1 ELSE 0)
<1>1. hbQueue \in Seq(HbMessages) /\ hbQueue # << >> /\ hbQueue' = Tail(hbQueue) /\ Len(hbQueue) <= HbQueueSize
  BY DEF HbInv, Taken
<1>2. /\ Head(hbQueue) \in HbMessages /\ Len(hbQueue) \in Nat
      /\ hbQueue' \in Seq(HbMessages) /\ Len(hbQueue') = Len(hbQueue) - 1
  BY <1>1, TailFacts
<1>3. Head(hbQueue) \in HbUnanswered <=> Head(hbQueue).what # "tick"
  BY <1>2 DEF HbUnanswered
<1>4. /\ Cardinality(PlacesOf(hbQueue', HbUnanswered)) \in Nat
      /\ Cardinality(PlacesOf(hbQueue, HbUnanswered))
           = Cardinality(PlacesOf(hbQueue', HbUnanswered)) + (IF Head(hbQueue) \in HbUnanswered THEN 1 ELSE 0)
  BY <1>1, <1>2, PlacesFinite, TakenCount
<1> QED BY <1>1, <1>2, <1>3, <1>4, HbNumbers

LEMMA TimersAre == HbInv => Timers \in HbStates /\ Timers.timer = hbTimer /\ Timers.running = running /\ Timers.failed = hbFailed
  BY DEF HbInv, TimersOk, Timers

LEMMA HbBecomes ==
  ASSUME NEW t \in HbStates, Become(t)
  PROVE  Timers' = t /\ hbTimer' = t.timer /\ running' = t.running /\ hbFailed' = t.failed
         /\ HbFailures(hbFailed') <= MaxHbFailures
<1>1. t = [timer |-> t.timer, running |-> t.running, failed |-> t.failed]
  BY DEF HbStates
<1> QED BY <1>1 DEF Become, Timers

LEMMA HbStarted ==
  ASSUME HbInv, HbStart
  PROVE  HbInv'
<1>1. /\ hbThread' = "serving" /\ hbTimer = NoTimer1 /\ TimersOk(Timers) /\ hbConfig \in HbConfigs
      /\ UNCHANGED <<hbConfig, hbQueue, waiting>>
  BY DEF HbStart, HbInv
<1>2. PICK t \in (IF Beats(hbConfig) THEN Starts(Timers, hbConfig.interval) ELSE {Timers}) : Become(t)
  BY DEF HbStart
<1>3. /\ TimersOk(t) /\ t.failed.encode = hbFailed.encode
      /\ Beats(hbConfig) /\ t.failed.add = 0 => NamedBeats(t, hbConfig.interval)
      /\ ~Beats(hbConfig) => ~t.timer.in_use
  <2>1. CASE Beats(hbConfig)
    <3>1. hbConfig.interval \in Intervals \ {0}
      BY <1>1, <2>1 DEF Beats, HbConfigs
    <3> QED BY <1>1, <1>2, <2>1, <3>1, StartsLeave, TimersAre
  <2>2. CASE ~Beats(hbConfig)
    BY <1>1, <1>2, <2>2, TimersAre DEF NoTimer1
  <2> QED BY <2>1, <2>2
<1>4. t \in HbStates
  BY <1>3 DEF TimersOk
<1>5. Timers' = t /\ hbFailed' = t.failed /\ HbFailures(hbFailed') <= MaxHbFailures
  BY <1>2, <1>4, HbBecomes
<1>6. ConfigKept(t, hbConfig)
  BY <1>3 DEF ConfigKept
<1>7. TimersOk(Timers') /\ ConfigKept(Timers', hbConfig')
  BY <1>1, <1>3, <1>5, <1>6
<1>8. TimersOk(Timers)' /\ ConfigKept(Timers, hbConfig)'
  BY <1>7 DEF TimersOk, ConfigKept, LostIn, NamedBeats
<1>9. HbFailures(hbFailed)' <= MaxHbFailures
  BY <1>5 DEF HbFailures
<1> QED BY <1>1, <1>3, <1>5, <1>8, <1>9 DEF HbInv

LEMMA HbFeatureSet ==
  ASSUME HbInv, FeatureSet
  PROVE  HbInv'
<1> DEFINE m == Head(hbQueue)
           c == NewConfig(m)
           n == Cardinality(PlacesOf(hbQueue', HbUnanswered))
<1>1. /\ m \in HbMessages /\ hbQueue' \in Seq(HbMessages) /\ Len(hbQueue') <= HbQueueSize
      /\ n \in Nat /\ Cardinality(PlacesOf(hbQueue, HbUnanswered)) = n + 1
  BY HbTakes DEF FeatureSet, Asked
<1>2. m \in FeatureRequests
  BY <1>1 DEF FeatureSet, Asked, HbMessages, Requests, Tick
<1>3. c \in HbConfigs
  BY <1>2, NewConfigType DEF HbInv
<1>4. hbConfig' = c /\ hbThread = "serving" /\ hbThread' = hbThread /\ waiting' = waiting - 1
  BY DEF FeatureSet, Asked, Answer
<1>5. PICK t \in (IF ~Beats(c) THEN Stops(Timers)
                  ELSE IF ModifyTimer(m) THEN Starts(Timers, c.interval)
                  ELSE {Timers}) : Become(t)
  BY DEF FeatureSet
<1>6. ~ModifyTimer(m) => c.enable = hbConfig.enable /\ c.interval = hbConfig.interval
  BY DEF ModifyTimer
<1>7. TimersOk(Timers) /\ ConfigKept(Timers, hbConfig)
  BY <1>4 DEF HbInv
<1> HIDE DEF c, m, n
<1>8. TimersOk(t) /\ ConfigKept(t, c) /\ t.failed.encode = hbFailed.encode
  <2>1. CASE ~Beats(c)
    BY <1>5, <1>7, <2>1, StopsLeave, TimersAre DEF TimersOk, ConfigKept
  <2>2. CASE Beats(c) /\ ModifyTimer(m)
    <3>1. c.interval \in Intervals \ {0}
      BY <1>3, <2>2 DEF Beats, HbConfigs
    <3> QED BY <1>5, <1>7, <2>2, <3>1, StartsLeave, TimersAre DEF ConfigKept
  <2>3. CASE Beats(c) /\ ~ModifyTimer(m)
    <3>1. Beats(hbConfig) /\ t = Timers
      BY <1>5, <1>6, <2>3 DEF Beats
    <3> QED BY <1>6, <1>7, <2>3, <3>1, TimersAre DEF ConfigKept
  <2> QED BY <2>1, <2>2, <2>3
<1>9. t \in HbStates
  BY <1>8 DEF TimersOk
<1>10. Timers' = t /\ hbFailed' = t.failed /\ HbFailures(hbFailed') <= MaxHbFailures
  BY <1>5, <1>9, HbBecomes
<1>11. TimersOk(Timers') /\ ConfigKept(Timers', hbConfig')
  BY <1>4, <1>8, <1>10
<1>12. TimersOk(Timers)' /\ ConfigKept(Timers, hbConfig)'
  BY <1>11 DEF TimersOk, ConfigKept, LostIn, NamedBeats
<1>13. HbFailures(hbFailed)' <= MaxHbFailures
  BY <1>10 DEF HbFailures
<1>14. /\ waiting' \in Nat /\ waiting' <= HbSessions /\ waiting' = n + hbFailed'.encode
  <2>1. hbFailed.encode \in Nat
    BY TimersAre DEF HbStates
  <2> QED BY <1>1, <1>4, <1>8, <1>10, <2>1, HbNumbers, SMTT(30) DEF HbInv, n
<1> QED BY <1>1, <1>3, <1>4, <1>12, <1>13, <1>14 DEF HbInv, n

\* A step that leaves the timers alone.
LEMMA SameTimers ==
  ASSUME HbInv, UNCHANGED <<hbThread, hbConfig, hbTimer, running, hbFailed>>
  PROVE  /\ hbThread' \in {"starting", "serving"} /\ hbConfig' \in HbConfigs
         /\ TimersOk(Timers)' /\ HbFailures(hbFailed)' <= MaxHbFailures
         /\ hbThread' = "starting" => hbTimer' = NoTimer1 /\ running' = {}
         /\ hbThread' = "serving" => ConfigKept(Timers, hbConfig)'
<1>1. Timers' = Timers
  BY DEF Timers
<1>2. (TimersOk(Timers)' <=> TimersOk(Timers)) /\ (ConfigKept(Timers, hbConfig)' <=> ConfigKept(Timers, hbConfig))
  BY <1>1 DEF TimersOk, ConfigKept, LostIn, NamedBeats
<1> QED BY <1>2 DEF HbInv, HbFailures

\* A document that cannot be encoded changes one count of failures.
LEMMA FailedEncoding ==
  ASSUME HbInv, EncodeFailed, UNCHANGED <<hbThread, hbConfig>>
  PROVE  /\ hbThread' \in {"starting", "serving"} /\ hbConfig' \in HbConfigs
         /\ TimersOk(Timers)' /\ HbFailures(hbFailed)' <= MaxHbFailures
         /\ hbThread' = "starting" => hbTimer' = NoTimer1 /\ running' = {}
         /\ hbThread' = "serving" => ConfigKept(Timers, hbConfig)'
         /\ hbFailed'.encode = hbFailed.encode + 1
<1> DEFINE t == [Timers EXCEPT !.failed.encode = @ + 1]
<1>1. /\ Timers \in HbStates /\ Timers.timer = hbTimer /\ Timers.running = running /\ Timers.failed = hbFailed
      /\ TimersOk(Timers) /\ (hbThread = "serving" => ConfigKept(Timers, hbConfig))
  BY TimersAre DEF HbInv
<1>2. /\ t \in HbStates /\ t.timer = hbTimer /\ t.running = running
      /\ t.failed.stop = hbFailed.stop /\ t.failed.add = hbFailed.add /\ t.failed.encode = hbFailed.encode + 1
  BY <1>1 DEF HbStates
<1>3. Become(t)
  BY DEF EncodeFailed
<1> HIDE DEF t
<1>4. Timers' = t /\ hbTimer' = hbTimer /\ running' = running /\ hbFailed' = t.failed
      /\ HbFailures(hbFailed') <= MaxHbFailures
  BY <1>2, <1>3, HbBecomes
<1>5. TimersOk(t) /\ (hbThread = "serving" => ConfigKept(t, hbConfig))
  BY <1>1, <1>2 DEF TimersOk, ConfigKept, LostIn, NamedBeats
<1>6. TimersOk(Timers') /\ (hbThread' = "serving" => ConfigKept(Timers', hbConfig'))
  BY <1>4, <1>5
<1>7. TimersOk(Timers)' /\ (hbThread' = "serving" => ConfigKept(Timers, hbConfig)')
  BY <1>6 DEF TimersOk, ConfigKept, LostIn, NamedBeats
<1>8. HbFailures(hbFailed)' <= MaxHbFailures
  BY <1>4 DEF HbFailures
<1> QED BY <1>2, <1>4, <1>7, <1>8 DEF HbInv

LEMMA HbStep == HbInv /\ [HbNext]_hbVars => HbInv'
<1> SUFFICES ASSUME HbInv, [HbNext]_hbVars PROVE HbInv'
  OBVIOUS
<1>0. /\ waiting \in Nat /\ hbFailed.encode \in Nat /\ HbSessions \in Nat
      /\ Cardinality(PlacesOf(hbQueue, HbUnanswered)) \in Nat
  BY HbNumbers, PlacesFinite, TimersAre DEF HbInv, HbStates
<1>1. ASSUME NEW m \in Requests, SendRequest(m) PROVE HbInv'
  <2>1. m \in HbMessages /\ m.what # "tick"
    BY DEF HbMessages, Requests, FeatureRequests
  <2>2. /\ hbQueue' \in Seq(HbMessages) /\ Len(hbQueue') <= HbQueueSize
        /\ Cardinality(PlacesOf(hbQueue', HbUnanswered)) = Cardinality(PlacesOf(hbQueue, HbUnanswered)) + 1
    BY <1>1, <2>1, HbPosts DEF SendRequest
  <2>3. UNCHANGED <<hbThread, hbConfig, hbTimer, running, hbFailed>> /\ waiting < HbSessions /\ waiting' = waiting + 1
    BY <1>1 DEF SendRequest
  <2> QED BY <1>0, <2>2, <2>3, SameTimers DEF HbInv
<1>2. CASE TimerCb
  <2>1. Tick \in HbMessages /\ Tick.what = "tick"
    BY DEF HbMessages, Tick
  <2>2. /\ hbQueue' \in Seq(HbMessages) /\ Len(hbQueue') <= HbQueueSize
        /\ Cardinality(PlacesOf(hbQueue', HbUnanswered)) = Cardinality(PlacesOf(hbQueue, HbUnanswered))
    BY <1>0, <1>2, <2>1, HbPosts DEF TimerCb
  <2>3. UNCHANGED <<hbThread, hbConfig, hbTimer, running, hbFailed, waiting>>
    BY <1>2 DEF TimerCb
  <2> QED BY <1>0, <2>2, <2>3, SameTimers DEF HbInv
<1>3. CASE FeatureSet
  BY <1>3, HbFeatureSet
<1>4. CASE Get
  <2>1. /\ hbQueue' \in Seq(HbMessages) /\ Len(hbQueue') <= HbQueueSize
        /\ Cardinality(PlacesOf(hbQueue', HbUnanswered)) \in Nat
        /\ Cardinality(PlacesOf(hbQueue, HbUnanswered)) = Cardinality(PlacesOf(hbQueue', HbUnanswered)) + 1
    BY <1>4, HbTakes DEF Get, Asked
  <2>2. CASE Become(Timers) /\ Answer
    <3>1. UNCHANGED <<hbThread, hbConfig, hbTimer, running, hbFailed>> /\ waiting' = waiting - 1
      BY <1>4, <2>2 DEF Get, Become, Timers, Answer
    <3> QED BY <1>0, <2>1, <3>1, SameTimers DEF HbInv
  <2>3. CASE EncodeFailed
    <3>1. UNCHANGED <<hbThread, hbConfig, waiting>>
      BY <1>4, <2>3 DEF Get, EncodeFailed
    <3> HIDE DEF EncodeFailed
    <3> QED BY <1>0, <2>1, <2>3, <3>1, FailedEncoding, SMTT(30) DEF HbInv
  <2> QED BY <1>4, <2>2, <2>3 DEF Get
<1>5. CASE Beat
  <2>1. /\ hbQueue' \in Seq(HbMessages) /\ Len(hbQueue') <= HbQueueSize
        /\ Cardinality(PlacesOf(hbQueue, HbUnanswered)) = Cardinality(PlacesOf(hbQueue', HbUnanswered))
    BY <1>5, HbTakes DEF Beat, Asked
  <2>2. UNCHANGED <<hbThread, hbConfig, hbTimer, running, hbFailed, waiting>>
    BY <1>5 DEF Beat
  <2> QED BY <1>0, <2>1, <2>2, SameTimers DEF HbInv
<1>6. CASE CancelRequest
  <2>1. /\ hbQueue' \in Seq(HbMessages) /\ Len(hbQueue') <= HbQueueSize
        /\ Cardinality(PlacesOf(hbQueue', HbUnanswered)) \in Nat
        /\ Cardinality(PlacesOf(hbQueue, HbUnanswered)) = Cardinality(PlacesOf(hbQueue', HbUnanswered)) + 1
    BY <1>6, HbTakes DEF CancelRequest, Asked
  <2>2. UNCHANGED <<hbThread, hbConfig, hbTimer, running, hbFailed>> /\ waiting' = waiting - 1
    BY <1>6 DEF CancelRequest, Answer
  <2> QED BY <1>0, <2>1, <2>2, SameTimers DEF HbInv
<1>7. CASE HbStart
  BY <1>7, HbStarted
<1>8. CASE UNCHANGED hbVars
  <2>1. UNCHANGED <<hbThread, hbConfig, hbTimer, running, hbFailed, hbQueue, waiting>>
    BY <1>8 DEF hbVars
  <2> QED BY <2>1, SameTimers DEF HbInv
<1> QED BY <1>1, <1>2, <1>3, <1>4, <1>5, <1>6, <1>7, <1>8 DEF HbNext, HbServes

LEMMA HbInitial == HbInit => HbInv
<1> SUFFICES ASSUME HbInit PROVE HbInv
  OBVIOUS
<1>1. hbQueue = << >> /\ PlacesOf(hbQueue, HbUnanswered) = {}
  BY DEF HbInit, PlacesOf
<1>2. Cardinality(PlacesOf(hbQueue, HbUnanswered)) = 0
  BY <1>1, FS_EmptySet
<1>3. hbQueue \in Seq(HbMessages) /\ Len(hbQueue) <= HbQueueSize
  BY <1>1, HbNumbers
<1>4. hbConfig \in HbConfigs /\ hbThread = "starting"
  BY HbNumbers DEF HbInit, HbConfigs
<1>5. hbTimer = NoTimer1 /\ running = {} /\ waiting = 0 /\ hbFailed = [stop |-> 0, add |-> 0, encode |-> 0]
  BY DEF HbInit
<1>6. Timers \in HbStates /\ Timers.running = {} /\ LostIn(Timers) = {} /\ Timers.failed.stop = 0
  BY <1>5 DEF HbStates, Timers, NoTimer1, Unarmed, LostIn
<1>7. TimersOk(Timers)
  BY <1>6, FS_EmptySet DEF TimersOk, ToldApart
<1>8. HbFailures(hbFailed) = 0
  BY <1>5 DEF HbFailures
<1> QED BY <1>2, <1>3, <1>4, <1>5, <1>7, <1>8, HbNumbers DEF HbInv

LEMMA HbInvMeans == HbInv => HbTypeOK /\ LostOnlyUndeleted /\ BeatsAsConfigured /\ SessionsAccounted
<1> SUFFICES ASSUME HbInv PROVE HbTypeOK /\ LostOnlyUndeleted /\ BeatsAsConfigured /\ SessionsAccounted
  OBVIOUS
<1>1. /\ Timers \in HbStates /\ Timers.timer = hbTimer /\ Timers.running = running /\ Timers.failed = hbFailed
      /\ TimersOk(Timers) /\ (hbThread = "serving" => ConfigKept(Timers, hbConfig))
  BY TimersAre DEF HbInv
<1>2. /\ hbTimer \in [in_use : BOOLEAN, id : Nat] /\ running \in SUBSET RunningTimers
      /\ hbFailed \in [stop : Nat, add : Nat, encode : Nat]
  BY <1>1 DEF HbStates
<1>3. HbTypeOK
  BY <1>2 DEF HbInv, HbTypeOK, HbConfigs, RunningTimers
<1>4. LostIn(Timers) = Lost
  BY <1>1 DEF LostIn, Lost, Named
<1>5. LostOnlyUndeleted
  BY <1>1, <1>4 DEF LostOnlyUndeleted, TimersOk
<1>6. ASSUME Beats(hbConfig), hbFailed.add = 0, hbThread = "serving"
      PROVE  {r.period : r \in Named} = {hbConfig.interval}
  <2>1. PICK r \in running : r.id = hbTimer.id /\ r.period = hbConfig.interval /\ hbTimer.in_use
    BY <1>1, <1>6 DEF ConfigKept, NamedBeats
  <2>2. ToldApart(running)
    BY <1>1 DEF TimersOk
  <2>3. Named = {r}
    BY <2>1, <2>2 DEF Named, ToldApart
  <2> QED BY <2>1, <2>3
<1>7. ASSUME ~Beats(hbConfig), hbFailed.stop = 0, hbThread = "serving"
      PROVE  running = {}
  <2>1. ~hbTimer.in_use /\ IsFiniteSet(running) /\ Cardinality(LostIn(Timers)) <= 0
    BY <1>1, <1>7 DEF ConfigKept, TimersOk
  <2>2. LostIn(Timers) = running
    BY <1>1, <2>1 DEF LostIn
  <2>3. Cardinality(running) \in Nat /\ Cardinality(running) <= 0
    BY <2>1, <2>2, FS_CardinalityType
  <2>4. Cardinality(running) = 0
    BY <2>3
  <2> QED BY <2>1, <2>4, FS_EmptySet
<1>8. BeatsAsConfigured
  BY <1>6, <1>7 DEF BeatsAsConfigured
<1>9. PlacesOf(hbQueue, HbUnanswered) = {i \in DOMAIN hbQueue : hbQueue[i].what # "tick"}
  BY DEF HbInv, PlacesOf, HbUnanswered
<1>10. SessionsAccounted
  BY <1>9 DEF HbInv, SessionsAccounted, Unanswered
<1> QED BY <1>3, <1>5, <1>8, <1>10

-----------------------------------------------------------------------------
(* The redirector: a call holds the lock from its search to the end of the  *)
(* plug-in's function.                                                      *)

Scripts == {UnitCall, PlatformCall, CapabilityCall}
Scripted(f) == \A n \in DOMAIN f : f[n].script \in Scripts
LEMMA EveryGroupScripted == \A g \in BstApis \cup PacketApis \cup SystemApis : Scripted(g)
<1>1. \A names : /\ Scripted(Bst(names)) /\ Scripted(Pt(names)) /\ Scripted(Bhd(names)) /\ Scripted(Platform(names))
                 /\ Scripted(Capability(names)) /\ Scripted(Api("system", UnitCall, names))
  BY DEF Scripted, Api, Bst, Pt, Bhd, Platform, Capability, Scripts
<1>2. \A g \in BstApis : Scripted(g)
  BY <1>1 DEF BstApis, BstConfig, BstIngress, BstPools, BstQueues, BstCpu, SetIngress, SetPools, SetQueues, SetCpu,
              BstControl, DropGets
<1>3. \A g \in PacketApis : Scripted(g)
  BY <1>1 DEF PacketApis, PtDropReasons, PtProfiles, PtTuples, BhdStatus, BhdCapabilities
<1>4. \A g \in SystemApis : Scripted(g)
  BY <1>1 DEF SystemApis, PlatformNames, AsicNotation, PortNotation, Counts1, Counts2, Counts3, Counts4,
              PlatformFacts, PlatformRest, SystemOfUnit
<1> QED BY <1>2, <1>3, <1>4

LEMMA ApisScripted == \A name \in DOMAIN Apis : Apis[name].script \in Scripts
<1> DEFINE groups == BstApis \cup PacketApis \cup SystemApis
<1>1. \A g \in groups : Scripted(g)
  BY EveryGroupScripted
<1>2. Apis = [name \in UNION {DOMAIN g : g \in groups} |-> (CHOOSE g \in groups : name \in DOMAIN g)[name]]
  BY DEF Apis
<1> HIDE DEF groups
<1> SUFFICES ASSUME NEW name \in UNION {DOMAIN g : g \in groups}
             PROVE  (CHOOSE g \in groups : name \in DOMAIN g)[name].script \in Scripts
  BY <1>2
<1>3. \E g \in groups : name \in DOMAIN g
  OBVIOUS
<1> DEFINE g == CHOOSE g \in groups : name \in DOMAIN g
<1>4. g \in groups /\ name \in DOMAIN g
  BY <1>3
<1> HIDE DEF g
<1>5. g[name].script \in Scripts
  BY <1>1, <1>4 DEF Scripted
<1> QED BY <1>5 DEF g


Steps == {"lock", "unlock", "chip", "handle", "call"}

\* d counts the locks that a call holds before each of its remaining steps.
LocksHeld(todo, depth, d) ==
  /\ d \in [1 .. Len(todo) + 1 -> 0..3] /\ d[1] = depth /\ d[Len(todo) + 1] = 0
  /\ \A i \in 1 .. Len(todo) :
       /\ todo[i] = "lock" => d[i + 1] = d[i] + 1
       /\ todo[i] = "unlock" => d[i] = d[i + 1] + 1
       /\ todo[i] \in {"chip", "handle", "call"} => d[i + 1] = d[i] /\ d[i] >= 1

\* From the search on, there is one.
HandleKept(todo, d, found1) ==
  \A i \in 1 .. Len(todo) : found1 \/ (\E j \in 1..i : todo[j] = "handle") => d[i] >= 1

CallKeeps(r) ==
  /\ r = [name |-> r.name, todo |-> r.todo, depth |-> r.depth, chip |-> r.chip, handle |-> r.handle]
  /\ r.todo \in Seq(Steps)
  /\ r.todo = << >> => r.handle = NoEntry
  /\ \E d : LocksHeld(r.todo, r.depth, d) /\ HandleKept(r.todo, d, r.handle # NoEntry)

RedInv == DOMAIN calls = Callers /\ \A c \in Callers : CallKeeps(calls[c])

LEMMA UnitLocks ==
  /\ UnitCall \in Seq(Steps) /\ UnitCall # << >>
  /\ \E d : LocksHeld(UnitCall, 0, d) /\ HandleKept(UnitCall, d, FALSE)
<1> DEFINE d == <<0, 1, 2, 2, 1, 0, 1, 2, 2, 1, 1, 0>>
<1>1. UnitCall \in Seq(Steps) /\ Len(UnitCall) = 11 /\ d \in [1..12 -> 0..3]
  BY DEF UnitCall, Steps
<1>2. \A i \in 1..11 : i = 1 \/ i = 2 \/ i = 3 \/ i = 4 \/ i = 5 \/ i = 6 \/ i = 7 \/ i = 8 \/ i = 9 \/ i = 10 \/ i = 11
  OBVIOUS
<1>3. LocksHeld(UnitCall, 0, d)
  BY <1>1, <1>2 DEF LocksHeld, UnitCall
<1>4. \A i \in 1..11 : i >= 8 => d[i] >= 1
  BY <1>1, <1>2
<1>5. \A j \in 1..11 : UnitCall[j] = "handle" => j >= 8
  BY <1>2 DEF UnitCall
<1>6. UnitCall # << >>
  BY DEF UnitCall
<1> HIDE DEF d
<1>7. HandleKept(UnitCall, d, FALSE)
  BY <1>1, <1>4, <1>5 DEF HandleKept
<1> QED BY <1>1, <1>3, <1>6, <1>7

LEMMA PlatformLocks ==
  /\ PlatformCall \in Seq(Steps) /\ PlatformCall # << >>
  /\ \E d : LocksHeld(PlatformCall, 0, d) /\ HandleKept(PlatformCall, d, FALSE)
<1> DEFINE d == <<0, 1, 2, 2, 1, 1, 0>>
<1>1. PlatformCall \in Seq(Steps) /\ Len(PlatformCall) = 6 /\ d \in [1..7 -> 0..3]
  BY DEF PlatformCall, Steps
<1>2. \A i \in 1..6 : i = 1 \/ i = 2 \/ i = 3 \/ i = 4 \/ i = 5 \/ i = 6
  OBVIOUS
<1>3. LocksHeld(PlatformCall, 0, d)
  BY <1>1, <1>2 DEF LocksHeld, PlatformCall
<1>4. \A i \in 1..6 : i >= 3 => d[i] >= 1
  BY <1>1, <1>2
<1>5. \A j \in 1..6 : PlatformCall[j] = "handle" => j >= 3
  BY <1>2 DEF PlatformCall
<1>6. PlatformCall # << >>
  BY DEF PlatformCall
<1> HIDE DEF d
<1>7. HandleKept(PlatformCall, d, FALSE)
  BY <1>1, <1>4, <1>5 DEF HandleKept
<1> QED BY <1>1, <1>3, <1>6, <1>7

LEMMA CapabilityLocks ==
  /\ CapabilityCall \in Seq(Steps) /\ CapabilityCall # << >>
  /\ \E d : LocksHeld(CapabilityCall, 0, d) /\ HandleKept(CapabilityCall, d, FALSE)
<1> DEFINE d == <<0, 1, 2, 2, 1, 0, 1, 2, 3, 3, 2, 1, 1, 0>>
<1>1. CapabilityCall \in Seq(Steps) /\ Len(CapabilityCall) = 13 /\ d \in [1..14 -> 0..3]
  BY DEF CapabilityCall, Steps
<1>2. \A i \in 1..13 : \/ i = 1 \/ i = 2 \/ i = 3 \/ i = 4 \/ i = 5 \/ i = 6 \/ i = 7 \/ i = 8 \/ i = 9 \/ i = 10
                       \/ i = 11 \/ i = 12 \/ i = 13
  OBVIOUS
<1>3. LocksHeld(CapabilityCall, 0, d)
  BY <1>1, <1>2 DEF LocksHeld, CapabilityCall
<1>4. \A i \in 1..13 : i >= 9 => d[i] >= 1
  BY <1>1, <1>2
<1>5. \A j \in 1..13 : CapabilityCall[j] = "handle" => j >= 9
  BY <1>2 DEF CapabilityCall
<1>6. CapabilityCall # << >>
  BY DEF CapabilityCall
<1> HIDE DEF d
<1>7. HandleKept(CapabilityCall, d, FALSE)
  BY <1>1, <1>4, <1>5 DEF HandleKept
<1> QED BY <1>1, <1>3, <1>6, <1>7

\* A step that is done leaves a call whose locks still add up.
LEMMA StepDone ==
  ASSUME NEW todo \in Seq(Steps), todo # << >>, NEW depth, NEW d, NEW found1 \in BOOLEAN,
         LocksHeld(todo, depth, d), HandleKept(todo, d, found1)
  PROVE  /\ Tail(todo) \in Seq(Steps) /\ Head(todo) \in Steps /\ Len(todo) \in Nat /\ depth \in 0..3 /\ d[2] \in 0..3
         /\ \E e : LocksHeld(Tail(todo), d[2], e) /\ HandleKept(Tail(todo), e, found1 \/ Head(todo) = "handle")
         /\ Head(todo) = "lock" => d[2] = depth + 1
         /\ Head(todo) = "unlock" => depth = d[2] + 1
         /\ Head(todo) \in {"chip", "handle", "call"} => d[2] = depth /\ depth >= 1
         /\ Len(todo) = 1 => d[2] = 0
         /\ Tail(todo) = << >> => Len(todo) = 1
<1> DEFINE e == [i \in 1 .. Len(Tail(todo)) + 1 |-> d[i + 1]]
<1>1. /\ Head(todo) \in Steps /\ Head(todo) = todo[1] /\ Len(todo) >= 1 /\ Len(todo) \in Nat
      /\ Tail(todo) \in Seq(Steps) /\ Len(Tail(todo)) = Len(todo) - 1
      /\ \A i \in 1 .. Len(todo) - 1 : Tail(todo)[i] = todo[i + 1]
  BY TailFacts
<1>2. /\ d \in [1 .. Len(todo) + 1 -> 0..3] /\ d[1] = depth /\ d[Len(todo) + 1] = 0
      /\ \A i \in 1 .. Len(todo) :
           /\ todo[i] = "lock" => d[i + 1] = d[i] + 1
           /\ todo[i] = "unlock" => d[i] = d[i + 1] + 1
           /\ todo[i] \in {"chip", "handle", "call"} => d[i + 1] = d[i] /\ d[i] >= 1
  BY DEF LocksHeld
<1>3. depth \in 0..3 /\ d[2] \in 0..3 /\ 1 \in 1 .. Len(todo) /\ (Len(todo) = 1 => d[2] = 0)
  BY <1>1, <1>2
<1>4. /\ Head(todo) = "lock" => d[2] = depth + 1
      /\ Head(todo) = "unlock" => depth = d[2] + 1
      /\ Head(todo) \in {"chip", "handle", "call"} => d[2] = depth /\ depth >= 1
  BY <1>1, <1>2, <1>3
<1>5. Tail(todo) = << >> => Len(todo) = 1
  BY <1>1
<1>6. e \in [1 .. Len(Tail(todo)) + 1 -> 0..3] /\ e[1] = d[2] /\ e[Len(Tail(todo)) + 1] = 0
  BY <1>1, <1>2
<1>7. ASSUME NEW i \in 1 .. Len(Tail(todo))
      PROVE  Tail(todo)[i] = todo[i + 1] /\ e[i] = d[i + 1] /\ e[i + 1] = d[i + 2] /\ i + 1 \in 1 .. Len(todo)
  BY <1>1
<1>8. LocksHeld(Tail(todo), d[2], e)
  BY <1>2, <1>6, <1>7 DEF LocksHeld
<1>9. HandleKept(Tail(todo), e, found1 \/ Head(todo) = "handle")
  <2> SUFFICES ASSUME NEW i \in 1 .. Len(Tail(todo)),
                      found1 \/ Head(todo) = "handle" \/ \E j \in 1..i : Tail(todo)[j] = "handle"
               PROVE  e[i] >= 1
    BY DEF HandleKept
  <2>1. i + 1 \in 1 .. Len(todo) /\ e[i] = d[i + 1]
    BY <1>7
  <2>2. found1 \/ \E j \in 1 .. i + 1 : todo[j] = "handle"
    <3>1. CASE Head(todo) = "handle"
      BY <1>1, <3>1
    <3>2. ASSUME NEW j \in 1..i, Tail(todo)[j] = "handle" PROVE todo[j + 1] = "handle" /\ j + 1 \in 1 .. i + 1
      BY <1>1, <3>2
    <3> QED BY <3>1, <3>2
  <2> QED BY <2>1, <2>2 DEF HandleKept
<1> QED BY <1>1, <1>3, <1>4, <1>5, <1>8, <1>9

\* What an update of a call comes to, with the call written field by field.
LEMMA CallUpdated ==
  ASSUME NEW n, NEW t, NEW dp, NEW ch, NEW h, NEW r, NEW q, NEW n2, NEW t2, NEW dp2, NEW ch2, NEW h2,
         r = [name |-> n, todo |-> t, depth |-> dp, chip |-> ch, handle |-> h]
  PROVE  /\ q = [r EXCEPT !.todo = t2] => q = [name |-> n, todo |-> t2, depth |-> dp, chip |-> ch, handle |-> h]
         /\ q = [r EXCEPT !.todo = t2, !.depth = dp2]
              => q = [name |-> n, todo |-> t2, depth |-> dp2, chip |-> ch, handle |-> h]
         /\ q = [r EXCEPT !.todo = t2, !.handle = h2]
              => q = [name |-> n, todo |-> t2, depth |-> dp, chip |-> ch, handle |-> h2]
         /\ q = [r EXCEPT !.todo = t2, !.chip = ch2]
              => q = [name |-> n, todo |-> t2, depth |-> dp, chip |-> ch2, handle |-> h]
         /\ q = [r EXCEPT !.depth = dp2] => q = [name |-> n, todo |-> t, depth |-> dp2, chip |-> ch, handle |-> h]
         /\ q = [r EXCEPT !.name = n2, !.todo = t2]
              => q = [name |-> n2, todo |-> t2, depth |-> dp, chip |-> ch, handle |-> h]
<1>1. ASSUME q = [r EXCEPT !.todo = t2]
      PROVE  q = [name |-> n, todo |-> t2, depth |-> dp, chip |-> ch, handle |-> h]
  BY <1>1
<1>2. ASSUME q = [r EXCEPT !.todo = t2, !.depth = dp2]
      PROVE  q = [name |-> n, todo |-> t2, depth |-> dp2, chip |-> ch, handle |-> h]
  BY <1>2
<1>3. ASSUME q = [r EXCEPT !.todo = t2, !.handle = h2]
      PROVE  q = [name |-> n, todo |-> t2, depth |-> dp, chip |-> ch, handle |-> h2]
  BY <1>3
<1>4. ASSUME q = [r EXCEPT !.todo = t2, !.chip = ch2]
      PROVE  q = [name |-> n, todo |-> t2, depth |-> dp, chip |-> ch2, handle |-> h]
  BY <1>4
<1>5. ASSUME q = [r EXCEPT !.depth = dp2]
      PROVE  q = [name |-> n, todo |-> t, depth |-> dp2, chip |-> ch, handle |-> h]
  BY <1>5
<1>6. ASSUME q = [r EXCEPT !.name = n2, !.todo = t2]
      PROVE  q = [name |-> n2, todo |-> t2, depth |-> dp, chip |-> ch, handle |-> h]
  BY <1>6
<1> QED BY <1>1, <1>2, <1>3, <1>4, <1>5, <1>6

\* An update of two fields of one caller's call.
LEMMA CallsUpdated ==
  ASSUME NEW f, NEW c \in DOMAIN f, NEW t2, NEW x
  PROVE  /\ [f EXCEPT ![c].todo = t2, ![c].depth = x] = [f EXCEPT ![c] = [f[c] EXCEPT !.todo = t2, !.depth = x]]
         /\ [f EXCEPT ![c].todo = t2, ![c].handle = x] = [f EXCEPT ![c] = [f[c] EXCEPT !.todo = t2, !.handle = x]]
         /\ [f EXCEPT ![c].todo = t2, ![c].chip = x] = [f EXCEPT ![c] = [f[c] EXCEPT !.todo = t2, !.chip = x]]
         /\ [f EXCEPT ![c].todo = t2] = [f EXCEPT ![c] = [f[c] EXCEPT !.todo = t2]]
  OBVIOUS

\* The chip of a unit is found, or the call gives up with its locks to give back.
LEMMA ChipFound ==
  ASSUME NEW c, c \in DOMAIN calls, NEW r, r = calls[c], UnitToAsicType(c),
         r = [name |-> r.name, todo |-> r.todo, depth |-> r.depth, chip |-> r.chip, handle |-> r.handle]
  PROVE  /\ r.todo # << >> /\ Head(r.todo) = "chip"
         /\ \E left, chip :
              /\ left = Tail(r.todo) \/ left = [i \in 1 .. r.depth |-> "unlock"]
              /\ calls' = [calls EXCEPT ![c] = [name |-> r.name, todo |-> left, depth |-> r.depth,
                                               chip |-> chip, handle |-> r.handle]]
<1>1. r.todo # << >> /\ Head(r.todo) = "chip"
  BY DEF UnitToAsicType, Goes
<1>2. CASE \E unit \in DOMAIN ChipOf : calls' = [calls EXCEPT ![c].todo = Tail(@), ![c].chip = ChipOf[unit]]
  <2>1. PICK unit, left : left = Tail(r.todo) /\ calls' = [calls EXCEPT ![c].todo = left, ![c].chip = ChipOf[unit]]
    BY <1>2
  <2>2. PICK q : q = [r EXCEPT !.todo = left, !.chip = ChipOf[unit]]
    OBVIOUS
  <2>3. calls' = [calls EXCEPT ![c] = q]
    BY <2>1, <2>2, CallsUpdated
  <2>4. q = [name |-> r.name, todo |-> left, depth |-> r.depth, chip |-> ChipOf[unit], handle |-> r.handle]
    BY <2>2, CallUpdated
  <2> QED BY <1>1, <2>1, <2>3, <2>4
<1>3. CASE calls' = [calls EXCEPT ![c].todo = [i \in 1..calls[c].depth |-> "unlock"]]
  <2>1. PICK left : left = [i \in 1 .. r.depth |-> "unlock"] /\ calls' = [calls EXCEPT ![c].todo = left]
    BY <1>3
  <2>2. PICK q : q = [r EXCEPT !.todo = left]
    OBVIOUS
  <2>3. calls' = [calls EXCEPT ![c] = q]
    BY <2>1, <2>2, CallsUpdated
  <2>4. q = [name |-> r.name, todo |-> left, depth |-> r.depth, chip |-> r.chip, handle |-> r.handle]
    BY <2>2, CallUpdated
  <2> QED BY <1>1, <2>1, <2>3, <2>4
<1> QED BY <1>2, <1>3 DEF UnitToAsicType

LEMMA NoCallUpdated ==
  ASSUME NEW n, NEW t
  PROVE  /\ [NoCall EXCEPT !.depth = 0] = NoCall
         /\ [NoCall EXCEPT !.name = n, !.todo = t]
              = [name |-> n, todo |-> t, depth |-> 0, chip |-> AllChips, handle |-> NoEntry]
<1>1. NoCall = [name |-> "none", todo |-> << >>, depth |-> 0, chip |-> AllChips, handle |-> NoEntry]
  BY DEF NoCall
<1> HIDE DEF NoCall, AllChips, NoEntry
<1>2. [NoCall EXCEPT !.depth = 0] = NoCall
  <2>1. PICK p : p = [NoCall EXCEPT !.depth = 0]
    OBVIOUS
  <2>2. p = [name |-> "none", todo |-> << >>, depth |-> 0, chip |-> AllChips, handle |-> NoEntry]
    BY <1>1, <2>1, CallUpdated
  <2> QED BY <1>1, <2>1, <2>2
<1>3. [NoCall EXCEPT !.name = n, !.todo = t]
        = [name |-> n, todo |-> t, depth |-> 0, chip |-> AllChips, handle |-> NoEntry]
  <2>1. PICK q : q = [NoCall EXCEPT !.name = n, !.todo = t]
    OBVIOUS
  <2>2. q = [name |-> n, todo |-> t, depth |-> 0, chip |-> AllChips, handle |-> NoEntry]
    BY <1>1, <2>1, CallUpdated
  <2> QED BY <2>1, <2>2
<1> QED BY <1>2, <1>3

LEMMA IdleKeeps == CallKeeps(NoCall)
<1> DEFINE d == [i \in 1..1 |-> 0]
<1>1. LocksHeld(<< >>, 0, d) /\ HandleKept(<< >>, d, FALSE)
  BY DEF LocksHeld, HandleKept
<1>2. /\ NoCall.todo = << >> /\ NoCall.depth = 0 /\ NoCall.handle = NoEntry
      /\ NoCall = [name |-> NoCall.name, todo |-> NoCall.todo, depth |-> NoCall.depth, chip |-> NoCall.chip,
                   handle |-> NoCall.handle]
  BY DEF NoCall
<1>3. << >> \in Seq(Steps)
  OBVIOUS
<1> HIDE DEF d
<1>4. HandleKept(NoCall.todo, d, NoCall.handle # NoEntry)
  BY <1>1, <1>2 DEF HandleKept
<1> QED BY <1>1, <1>2, <1>3, <1>4 DEF CallKeeps

LEMMA CallerKeeps ==
  ASSUME RedInv, NEW c \in Callers, CallerStep(c) \/ \E name \in MayCall[c] : Call(c, name)
  PROVE  \E r : CallKeeps(r) /\ calls' = [calls EXCEPT ![c] = r]
<1> DEFINE r == calls[c]
           known == r.handle # NoEntry
<1>0. c \in DOMAIN calls
  BY DEF RedInv
<1>1. CallKeeps(r)
  BY DEF RedInv
<1>2. PICK d : LocksHeld(r.todo, r.depth, d) /\ HandleKept(r.todo, d, known)
  BY <1>1 DEF CallKeeps
<1>3. /\ r = [name |-> r.name, todo |-> r.todo, depth |-> r.depth, chip |-> r.chip, handle |-> r.handle]
      /\ r.todo \in Seq(Steps)
  BY <1>1 DEF CallKeeps
<1> DEFINE after == d[2]
           rest1 == Tail(r.todo)
           is == Head(r.todo)
<1>4. r.todo # << >> =>
        /\ rest1 \in Seq(Steps) /\ Len(r.todo) \in Nat /\ r.depth \in 0..3 /\ after \in 0..3
        /\ \E e : LocksHeld(rest1, after, e) /\ HandleKept(rest1, e, known \/ is = "handle")
        /\ is = "lock" => after = r.depth + 1
        /\ is = "unlock" => r.depth = after + 1
        /\ is \in {"chip", "handle", "call"} => after = r.depth /\ r.depth >= 1
        /\ Len(r.todo) = 1 => after = 0
        /\ rest1 = << >> => Len(r.todo) = 1
  <2>1. known \in BOOLEAN
    OBVIOUS
  <2> HIDE DEF known, r
  <2> QED BY <1>2, <1>3, <2>1, StepDone
<1> HIDE DEF after, rest1
<1>5. ASSUME NEW q, r.todo # << >>, rest1 # << >>,
             q = [name |-> q.name, todo |-> rest1, depth |-> after, chip |-> q.chip, handle |-> q.handle],
             q.handle # NoEntry => known \/ is = "handle"
      PROVE  CallKeeps(q)
  <2>1. q.todo = rest1 /\ q.depth = after
    BY <1>5
  <2>2. PICK e : LocksHeld(rest1, after, e) /\ HandleKept(rest1, e, known \/ is = "handle")
    BY <1>4, <1>5
  <2>3. HandleKept(rest1, e, q.handle # NoEntry)
    BY <1>5, <2>2 DEF HandleKept
  <2> QED BY <1>4, <1>5, <2>1, <2>2, <2>3 DEF CallKeeps
<1>6. CASE RdLock(c)
  <2>1. r.todo # << >> /\ is = "lock" /\ calls' = [calls EXCEPT ![c].todo = rest1, ![c].depth = r.depth + 1]
    BY <1>6 DEF RdLock, Goes, rest1
  <2>2. after = r.depth + 1 /\ r.depth \in 0..3 /\ rest1 # << >>
    BY <1>4, <2>1
  <2>3. PICK q : q = [r EXCEPT !.todo = rest1, !.depth = r.depth + 1]
    OBVIOUS
  <2>4. calls' = [calls EXCEPT ![c] = q]
    BY <1>0, <2>1, <2>3, CallsUpdated
  <2>5. q = [name |-> r.name, todo |-> rest1, depth |-> after, chip |-> r.chip, handle |-> r.handle]
    <3> HIDE DEF r
    <3> QED BY <1>3, <2>2, <2>3, CallUpdated
  <2>6. CallKeeps(q)
    <3> HIDE DEF r
    <3> QED BY <1>5, <2>1, <2>2, <2>5
  <2> QED BY <2>4, <2>6
<1>7. CASE RdUnlock(c)
  <2>1. r.todo # << >> /\ is = "unlock"
        /\ calls' = [calls EXCEPT ![c] = IF Len(@.todo) = 1 THEN [NoCall EXCEPT !.depth = calls[c].depth - 1]
                                         ELSE [calls[c] EXCEPT !.todo = Tail(@), !.depth = @ - 1]]
    BY <1>7 DEF RdUnlock, Goes
  <2>2. r.depth = after + 1 /\ after \in 0..3 /\ r.depth - 1 = after
    BY <1>4, <2>1
  <2>3. CASE Len(r.todo) = 1
    <3>1. after = 0
      BY <1>4, <2>1, <2>3
    <3>2. calls' = [calls EXCEPT ![c] = [NoCall EXCEPT !.depth = r.depth - 1]]
      BY <2>1, <2>3
    <3>3. [NoCall EXCEPT !.depth = 0] = NoCall
      BY NoCallUpdated
    <3> QED BY <2>2, <3>1, <3>2, <3>3, IdleKeeps
  <2>4. CASE Len(r.todo) # 1
    <3>1. rest1 # << >>
      BY <1>4, <2>1, <2>4
    <3>2. PICK q : q = [r EXCEPT !.todo = rest1, !.depth = r.depth - 1]
      OBVIOUS
    <3>3. calls' = [calls EXCEPT ![c] = q]
      <4> DEFINE ended == Len(r.todo) = 1
                 x == [NoCall EXCEPT !.depth = r.depth - 1]
                 y == [r EXCEPT !.todo = Tail(@), !.depth = @ - 1]
      <4>1. calls' = [calls EXCEPT ![c] = IF ended THEN x ELSE y]
        BY <2>1
      <4>2. ~ended /\ y = q
        BY <2>4, <3>2 DEF rest1
      <4> HIDE DEF ended, x, y
      <4> QED BY <4>1, <4>2
    <3>4. q = [name |-> r.name, todo |-> rest1, depth |-> after, chip |-> r.chip, handle |-> r.handle]
      <4> HIDE DEF r
      <4> QED BY <1>3, <2>2, <3>2, CallUpdated
    <3>5. CallKeeps(q)
      <4> HIDE DEF r
      <4> QED BY <1>5, <2>1, <3>1, <3>4
    <3> QED BY <3>3, <3>5
  <2> QED BY <2>3, <2>4
<1>8. CASE HandleGet(c)
  <2> DEFINE h == FeatureHandleGet(calls[c].chip, Apis[calls[c].name].featureId)
  <2>1. r.todo # << >> /\ is = "handle" /\ calls' = [calls EXCEPT ![c].todo = rest1, ![c].handle = h]
    BY <1>8 DEF HandleGet, Goes, rest1
  <2>2. after = r.depth /\ r.depth >= 1 /\ r.depth \in 0..3 /\ rest1 # << >>
    BY <1>4, <2>1
  <2> HIDE DEF h
  <2>3. PICK q : q = [r EXCEPT !.todo = rest1, !.handle = h]
    OBVIOUS
  <2>4. calls' = [calls EXCEPT ![c] = q]
    BY <1>0, <2>1, <2>3, CallsUpdated
  <2>5. q = [name |-> r.name, todo |-> rest1, depth |-> after, chip |-> r.chip, handle |-> h]
    <3> HIDE DEF r
    <3> QED BY <1>3, <2>2, <2>3, CallUpdated
  <2>6. CallKeeps(q)
    <3> HIDE DEF r
    <3> QED BY <1>5, <2>1, <2>2, <2>5
  <2> QED BY <2>4, <2>6
<1>9. CASE PluginCall(c)
  <2>1. r.todo # << >> /\ is = "call"
        /\ calls' = [calls EXCEPT ![c] = IF Len(@.todo) = 1 THEN [NoCall EXCEPT !.depth = calls[c].depth]
                                         ELSE [calls[c] EXCEPT !.todo = Tail(@)]]
    BY <1>9 DEF PluginCall, Goes
  <2>2. after = r.depth /\ r.depth >= 1 /\ Len(r.todo) # 1 /\ rest1 # << >>
    BY <1>4, <2>1
  <2>3. PICK q : q = [r EXCEPT !.todo = rest1]
    OBVIOUS
  <2>4. calls' = [calls EXCEPT ![c] = q]
    <3> DEFINE ended == Len(r.todo) = 1
               x == [NoCall EXCEPT !.depth = r.depth]
               y == [r EXCEPT !.todo = Tail(@)]
    <3>1. calls' = [calls EXCEPT ![c] = IF ended THEN x ELSE y]
      BY <2>1
    <3>2. ~ended /\ y = q
      BY <2>2, <2>3 DEF rest1
    <3> HIDE DEF ended, x, y
    <3> QED BY <3>1, <3>2
  <2>5. q = [name |-> r.name, todo |-> rest1, depth |-> after, chip |-> r.chip, handle |-> r.handle]
    <3> HIDE DEF r
    <3> QED BY <1>3, <2>2, <2>3, CallUpdated
  <2>6. CallKeeps(q)
    <3> HIDE DEF r
    <3> QED BY <1>5, <2>1, <2>2, <2>5
  <2> QED BY <2>4, <2>6
<1>10. CASE UnitToAsicType(c)
  <2> DEFINE lost == [i \in 1 .. r.depth |-> "unlock"]
  <2>1. /\ r.todo # << >> /\ is = "chip"
        /\ \E left, chip :
             /\ left = rest1 \/ left = lost
             /\ calls' = [calls EXCEPT ![c] = [name |-> r.name, todo |-> left, depth |-> r.depth,
                                              chip |-> chip, handle |-> r.handle]]
    BY <1>0, <1>3, <1>10, ChipFound DEF rest1
  <2>2. PICK left, chip :
          /\ left = rest1 \/ left = lost
          /\ calls' = [calls EXCEPT ![c] = [name |-> r.name, todo |-> left, depth |-> r.depth,
                                           chip |-> chip, handle |-> r.handle]]
    BY <2>1
  <2> DEFINE q == [name |-> r.name, todo |-> left, depth |-> r.depth, chip |-> chip, handle |-> r.handle]
  <2>3. calls' = [calls EXCEPT ![c] = q]
    BY <2>2
  <2>4. after = r.depth /\ r.depth >= 1 /\ r.depth \in 0..3 /\ rest1 # << >>
    BY <1>4, <2>1
  <2>5. CASE left = rest1
    <3>1. q = [name |-> r.name, todo |-> rest1, depth |-> after, chip |-> chip, handle |-> r.handle]
      BY <2>4, <2>5
    <3> HIDE DEF q, r
    <3>2. CallKeeps(q)
      BY <1>5, <2>1, <2>4, <3>1
    <3> QED BY <2>3, <3>2
  <2>6. CASE left = lost
    <3> DEFINE n == r.depth
               down == [i \in 1 .. n + 1 |-> n + 1 - i]
    <3>1. n \in 1..3
      BY <2>4
    <3>2. q.todo = lost /\ q.depth = n /\ q.handle = r.handle
      BY <2>6
    <3>3. q = [name |-> q.name, todo |-> q.todo, depth |-> q.depth, chip |-> q.chip, handle |-> q.handle]
      OBVIOUS
    <3> HIDE DEF q
    <3>4. lost \in Seq(Steps) /\ Len(lost) = n /\ lost # << >> /\ \A i \in 1..n : lost[i] = "unlock"
      <4>1. PICK k \in 1..3 : k = n
        BY <3>1
      <4>2. lost = [i \in 1..k |-> "unlock"]
        BY <4>1
      <4> HIDE DEF lost, n
      <4>3. "unlock" \in Steps
        BY DEF Steps
      <4>4. lost \in Seq(Steps) /\ Len(lost) = k
        BY <4>2, <4>3
      <4> QED BY <4>1, <4>2, <4>4
    <3> HIDE DEF n
    <3> HIDE DEF lost
    <3>5. down \in [1 .. n + 1 -> 0..3] /\ down[1] = n /\ down[n + 1] = 0
          /\ \A i \in 1..n : down[i] = down[i + 1] + 1 /\ down[i] >= 1
      BY <3>1
    <3> HIDE DEF down
    <3>6. LocksHeld(lost, n, down) /\ HandleKept(lost, down, q.handle # NoEntry)
      BY <3>4, <3>5 DEF LocksHeld, HandleKept
    <3>7. CallKeeps(q)
      BY <3>2, <3>3, <3>4, <3>6 DEF CallKeeps
    <3> QED BY <2>3, <3>7
  <2> QED BY <2>2, <2>5, <2>6
<1>11. ASSUME NEW name \in MayCall[c], Call(c, name)
       PROVE  \E q : CallKeeps(q) /\ calls' = [calls EXCEPT ![c] = q]
  <2> DEFINE script == Apis[name].script
             q == [NoCall EXCEPT !.name = name, !.todo = script]
  <2>1. calls' = [calls EXCEPT ![c] = q]
    BY <1>11 DEF Call
  <2>2. name \in DOMAIN Apis
    BY RedirectorAssumption
  <2>3. script \in Scripts
    BY <2>2, ApisScripted
  <2> HIDE DEF script
  <2>4. script \in Seq(Steps) /\ script # << >> /\ \E e : LocksHeld(script, 0, e) /\ HandleKept(script, e, FALSE)
    BY <2>3, UnitLocks, PlatformLocks, CapabilityLocks DEF Scripts
  <2>5. q = [name |-> name, todo |-> script, depth |-> 0, chip |-> AllChips, handle |-> NoEntry]
    BY NoCallUpdated
  <2> HIDE DEF q
  <2>6. q.todo = script /\ q.depth = 0 /\ q.handle = NoEntry
        /\ q = [name |-> q.name, todo |-> q.todo, depth |-> q.depth, chip |-> q.chip, handle |-> q.handle]
    BY <2>5
  <2>7. PICK e : LocksHeld(script, 0, e) /\ HandleKept(script, e, FALSE)
    BY <2>4
  <2>8. HandleKept(script, e, q.handle # NoEntry)
    BY <2>6, <2>7 DEF HandleKept
  <2>9. CallKeeps(q)
    BY <2>4, <2>6, <2>7, <2>8 DEF CallKeeps
  <2> QED BY <2>1, <2>9
<1> QED BY <1>6, <1>7, <1>8, <1>9, <1>10, <1>11 DEF CallerStep

LEMMA RedStep == RedInv /\ [RedNext]_redVars => RedInv'
<1> SUFFICES ASSUME RedInv, [RedNext]_redVars PROVE RedInv'
  OBVIOUS
<1>1. ASSUME UNCHANGED calls PROVE RedInv'
  BY <1>1 DEF RedInv
<1>2. ASSUME NEW c \in Callers, CallerStep(c) \/ \E name \in MayCall[c] : Call(c, name)
      PROVE  RedInv'
  <2>1. PICK r : CallKeeps(r) /\ calls' = [calls EXCEPT ![c] = r]
    BY <1>2, CallerKeeps
  <2>2. DOMAIN calls' = Callers /\ \A b \in Callers : calls'[b] = IF b = c THEN r ELSE calls[b]
    BY <2>1 DEF RedInv
  <2>3. \A b \in Callers : CallKeeps(calls'[b])
    BY <2>1, <2>2 DEF RedInv
  <2> QED BY <2>2, <2>3 DEF RedInv, CallKeeps, LocksHeld, HandleKept
<1>3. CASE RegisterWait \/ RegisterInvalid \/ Register \/ UNCHANGED redVars
  BY <1>1, <1>3 DEF RegisterWait, RegisterInvalid, Register, redVars
<1> QED BY <1>2, <1>3 DEF RedNext

\* A plug-in that registers has the lock to itself.
LEMMA ListKept ==
  ASSUME RedInv, [RedNext]_redVars, NEW c \in Callers, Goes(c, "call") \/ calls[c].handle # NoEntry
  PROVE  plugins' = plugins
<1>1. CallKeeps(calls[c])
  BY DEF RedInv
<1>2. calls[c].todo # << >>
  BY <1>1 DEF CallKeeps, Goes
<1>3. PICK d : LocksHeld(calls[c].todo, calls[c].depth, d) /\ HandleKept(calls[c].todo, d, calls[c].handle # NoEntry)
  BY <1>1 DEF CallKeeps
<1>4. calls[c].todo \in Seq(Steps) /\ Len(calls[c].todo) \in Nat /\ 1 \in 1 .. Len(calls[c].todo)
      /\ Head(calls[c].todo) = calls[c].todo[1]
  BY <1>1, <1>2, TailFacts DEF CallKeeps
<1>5. d[1] = calls[c].depth /\ d[1] >= 1 /\ d[1] \in 0..3
  BY <1>3, <1>4 DEF LocksHeld, HandleKept, Goes
<1>6. c \in Readers
  BY <1>5 DEF Readers
<1>7. ~Register
  BY <1>6 DEF Register
<1> QED BY <1>7 DEF RedNext, RegisterWait, RegisterInvalid, CallerStep, RdLock, RdUnlock, UnitToAsicType, HandleGet,
               PluginCall, Call, redVars

LEMMA RedInitial == RedInit => RedInv
<1> SUFFICES ASSUME RedInit PROVE RedInv
  OBVIOUS
<1>1. DOMAIN calls = Callers /\ \A c \in Callers : calls[c] = NoCall
  BY DEF RedInit
<1> QED BY <1>1, IdleKeeps DEF RedInv

\* The list of plug-ins does not change under a call that has searched it: the
\* read lock a call holds from its first step to its last keeps every
\* registration out (sb_redirect_feature_handle_get and sb_plugin_register,
\* sbplugin_redirect_core.c).
THEOREM ListHeldHolds == MCSpec => ListHeld
<1>1. MCInit => RedInv
  BY RedInitial DEF MCInit
<1>2. [MCNext]_agentVars => [RedNext]_redVars
  BY DEF MCNext, StartupRuns, HeartbeatRuns, RedirectorRuns, OvsdbRuns, agentVars
<1>3. RedInv /\ [MCNext]_agentVars => RedInv'
  BY <1>2, RedStep
<1>4. RedInv /\ [MCNext]_agentVars =>
        [\A c \in Callers : Goes(c, "call") \/ calls[c].handle # NoEntry => plugins' = plugins]_redVars
  BY <1>2, ListKept
<1> QED BY <1>1, <1>3, <1>4, PTL DEF MCSpec, ListHeld

\* The heartbeat is the one that was configured, each that goes on and that
\* nothing can stop is owed to a deletion that failed, and every session in use
\* has its reason, whatever timer call, encoder or queue fails (reg_hb_api.c,
\* system_utils_main.c).
THEOREM HeartbeatRightHolds == MCSpec => []HeartbeatRight
<1>1. MCInit => HbInv
  BY HbInitial DEF MCInit
<1>2. [MCNext]_agentVars => [HbNext]_hbVars
  BY DEF MCNext, StartupRuns, HeartbeatRuns, RedirectorRuns, OvsdbRuns, agentVars
<1>3. HbInv /\ [MCNext]_agentVars => HbInv'
  BY <1>2, HbStep
<1>4. HbInv => HeartbeatRight
  BY HbInvMeans DEF HeartbeatRight
<1> QED BY <1>1, <1>3, <1>4, PTL DEF MCSpec

-----------------------------------------------------------------------------
(* The start: what the main thread has done of each application.            *)

AtOf == [bst |-> 1, pt |-> 2, bhd |-> 3, sys |-> 4]
Past(a, n) == main.at > AtOf[a] \/ (main.at = AtOf[a] /\ main.step > n)
Within(a, n) == main.at = AtOf[a] /\ main.step > n

StType ==
  /\ main = [at |-> main.at, step |-> main.step] /\ main.at \in 1..6 /\ main.step \in 1..6
  /\ main.at < 6 => Starting \in Modules \cup {"rest"} /\ main.step <= Len(StepsOf(Starting))
  /\ memory \in [Modules -> {"none", "held", "freed"}]
  /\ qid \in [Queues -> {"zero", "own", "invalid"}]
  /\ thread \in [Queues -> {"none", "registers", "enters", "prepares", "serves", "ended"}]
  /\ run \in Nat \ {0} /\ DOMAIN sysv = Queues
  /\ \A q \in Queues : sysv[q] = Absent \/ sysv[q] \in Seq(1..run)
  /\ moduleData \in [1..MaxModules -> Modules \cup {Free}]
  /\ found = [owner |-> found.owner, slot |-> found.slot]
  /\ found.owner \in Modules \cup {Free} /\ found.slot \in 1..MaxModules

\* A thread has its memory and its queue, once its application is started: but
\* for the two ways in which an application is undone with its thread running,
\* and for a queue that msgget refused.
Served(a) == a \notin refused => Holds(a)
StProvided ==
  /\ \A a \in Modules :
       /\ thread[a] # "none" => Past(a, 4)
       /\ Within(a, 1) => memory[a] = "held"
       /\ Within(a, 3) => Served(a)
       /\ thread[a] # "none" =>
            \/ memory[a] = "held" /\ Served(a)
            \/ rest = "failed"
            \/ a = "bst" /\ memory[a] = "freed" /\ qid["trigger"] = "zero"
  /\ main.at < 6 => rest # "failed"
  /\ "bst" \in Modules /\ ~Past("bst", 5) => qid["trigger"] = "zero"

\* The messages of a queue that the agent made are its own.
StOwn == \A q \in Queues \ kept : Holds(q) => \A i \in DOMAIN sysv[q] : sysv[q][i] = run

\* A slot that was found is free until the thread that found it enters it, and
\* one slot is the application's from then on.
Entered == {"prepares", "serves", "ended"}
StSlots ==
  /\ \A a \in Modules : thread[a] = "enters" <=> found.owner = a
  /\ found.owner # Free => moduleData[found.slot] = Free
  /\ \A a \in Modules : thread[a] \in Entered =>
       \E s \in 1..MaxModules : \A t \in 1..MaxModules : moduleData[t] = a <=> t = s
  /\ \A a \in Modules : thread[a] \notin Entered => \A s \in 1..MaxModules : moduleData[s] # a

StInv == StType /\ StProvided /\ StOwn /\ StSlots

LEMMA OrderFacts ==
  /\ \A a \in Modules : AtOf[a] \in 1..4 /\ StartOrder[AtOf[a]] = a
  /\ \A i \in 1..5 : StartOrder[i] \in Modules => AtOf[StartOrder[i]] = i /\ i # 5
  /\ StartOrder[5] = "rest" /\ "rest" \notin Modules /\ "trigger" \notin Modules /\ Free \notin Modules
  /\ \A i \in 1..5 : StartOrder[i] = "rest" <=> i = 5
  /\ \A a : Len(StepsOf(a)) \in 1..6 /\ (a = "rest" => Len(StepsOf(a)) = 1)
  /\ \A a \in Modules : Len(StepsOf(a)) = IF a = "bst" THEN 6 ELSE 4
  /\ Modules \subseteq {"bst", "pt", "bhd", "sys"}
<1>1. Modules \subseteq {"bst", "pt", "bhd", "sys"}
  BY StartupAssumption DEF Modules
<1>2. \A i \in 1..5 : i = 1 \/ i = 2 \/ i = 3 \/ i = 4 \/ i = 5
  OBVIOUS
<1>3. /\ StartOrder[1] = "bst" /\ StartOrder[2] = "pt" /\ StartOrder[3] = "bhd"
      /\ StartOrder[4] = "sys" /\ StartOrder[5] = "rest"
  BY DEF StartOrder
<1>4. AtOf["bst"] = 1 /\ AtOf["pt"] = 2 /\ AtOf["bhd"] = 3 /\ AtOf["sys"] = 4
  BY DEF AtOf
<1>5. /\ \A a \in Modules : AtOf[a] \in 1..4 /\ StartOrder[AtOf[a]] = a
      /\ \A i \in 1..5 : StartOrder[i] \in Modules => AtOf[StartOrder[i]] = i /\ i # 5
      /\ StartOrder[5] = "rest" /\ "rest" \notin Modules /\ "trigger" \notin Modules /\ Free \notin Modules
      /\ \A i \in 1..5 : StartOrder[i] = "rest" <=> i = 5
  BY <1>1, <1>2, <1>3, <1>4 DEF Free
<1>6. \A a : Len(StepsOf(a)) = IF a = "bst" THEN 6 ELSE IF a = "rest" THEN 1 ELSE 4
  BY DEF StepsOf, QueueThenThread
<1> QED BY <1>1, <1>5, <1>6

\* What the main thread does at a place.
LEMMA StepFacts ==
  ASSUME StType
  PROVE  /\ Next1("memory") => main.step = 1
         /\ Next1("config") => main.step = 2
         /\ Next1("queue") => main.step = 3
         /\ Next1("thread") => main.step = 4
         /\ Next1("triggerQueue") => main.step = 5 /\ Starting = "bst"
         /\ Next1("triggerThread") => main.step = 6 /\ Starting = "bst"
         /\ Next1("rest") => main.at = 5
         /\ \A w : Next1(w) => main.at \in 1..5 /\ (w # "rest" => Starting \in Modules /\ AtOf[Starting] = main.at)
<1>1. main.at < 6 => main.step \in 1 .. Len(StepsOf(Starting))
  BY OrderFacts DEF StType
<1>2. \A i \in 1..6 : i = 1 \/ i = 2 \/ i = 3 \/ i = 4 \/ i = 5 \/ i = 6
  OBVIOUS
<1>3. ASSUME main.at < 6, Starting # "rest", Starting # "bst", NEW w, StepsOf(Starting)[main.step] = w
      PROVE  /\ main.step \in 1..4
             /\ main.step = 1 => w = "memory"
             /\ main.step = 2 => w = "config"
             /\ main.step = 3 => w = "queue"
             /\ main.step = 4 => w = "thread"
  <2>1. StepsOf(Starting) = QueueThenThread
    BY <1>3 DEF StepsOf
  <2> QED BY <1>1, <1>3, <2>1 DEF QueueThenThread
<1>4. ASSUME main.at < 6, Starting = "bst", NEW w, StepsOf(Starting)[main.step] = w
      PROVE  /\ main.step \in 1..6
             /\ main.step = 1 => w = "memory"
             /\ main.step = 2 => w = "config"
             /\ main.step = 3 => w = "queue"
             /\ main.step = 4 => w = "thread"
             /\ main.step = 5 => w = "triggerQueue"
             /\ main.step = 6 => w = "triggerThread"
  <2>1. StepsOf(Starting) = <<"memory", "config", "queue", "thread", "triggerQueue", "triggerThread">>
    BY <1>4 DEF StepsOf
  <2> QED BY <1>1, <1>4, <2>1
<1>5. ASSUME main.at < 6, Starting = "rest", NEW w, StepsOf(Starting)[main.step] = w
      PROVE  w = "rest"
  <2>1. StepsOf(Starting) = <<"rest">>
    BY <1>5 DEF StepsOf
  <2> QED BY <1>1, <1>5, <2>1
<1>6. \A w : Next1(w) => main.at \in 1..5 /\ main.at < 6 /\ StepsOf(Starting)[main.step] = w
  BY DEF StType, Next1, AllStarted
<1>7. main.at \in 1..5 => (Starting = "rest" <=> main.at = 5)
  BY OrderFacts DEF Starting
<1>8. main.at \in 1..5 /\ Starting # "rest" => Starting \in Modules /\ AtOf[Starting] = main.at
  BY OrderFacts DEF StType, Starting
<1> HIDE DEF Starting, StepsOf, Next1
<1>9. ASSUME NEW w, Next1(w)
      PROVE  /\ w = "memory" => main.step = 1
             /\ w = "config" => main.step = 2
             /\ w = "queue" => main.step = 3
             /\ w = "thread" => main.step = 4
             /\ w = "triggerQueue" => main.step = 5 /\ Starting = "bst"
             /\ w = "triggerThread" => main.step = 6 /\ Starting = "bst"
             /\ w = "rest" => main.at = 5
             /\ main.at \in 1..5 /\ (w # "rest" => Starting \in Modules /\ AtOf[Starting] = main.at)
  <2>1. main.at \in 1..5 /\ main.at < 6 /\ StepsOf(Starting)[main.step] = w
    BY <1>6, <1>9
  <2>2. CASE Starting = "rest"
    BY <1>5, <1>7, <2>1, <2>2
  <2>3. CASE Starting = "bst"
    BY <1>2, <1>4, <1>8, <2>1, <2>3
  <2>4. CASE Starting # "rest" /\ Starting # "bst"
    BY <1>2, <1>3, <1>8, <2>1, <2>4
  <2> QED BY <2>2, <2>3, <2>4
<1> QED BY <1>9

\* Where the main thread goes on.
LEMMA NextFacts ==
  ASSUME NEW i \in 0..5
  PROVE  LET k == NextStarted(i) IN k \in (i + 1)..6 /\ (k < 6 => StartOrder[k] \in Modules \cup {"rest"})
<1> DEFINE Fits(k) == k < 6 => StartOrder[k] \in Modules \cup {"rest"}
           S == {k \in (i + 1)..6 : Fits(k)}
<1>1. S \in SUBSET Nat /\ 6 \in S
  OBVIOUS
<1>2. PICK k \in S : \A j \in S : k <= j
  BY <1>1, LeastExists
<1>3. k \in (i + 1)..6 /\ Fits(k) /\ \A j \in (i + 1)..(k - 1) : ~Fits(j)
  BY <1>1, <1>2
<1>4. \A j \in (i + 1)..(k - 1) : StartOrder[j] \notin Modules \cup {"rest"}
  BY <1>3
<1>5. \E m \in (i + 1)..6 :
        /\ m < 6 => StartOrder[m] \in Modules \cup {"rest"}
        /\ \A j \in (i + 1)..(m - 1) : StartOrder[j] \notin Modules \cup {"rest"}
  BY <1>3, <1>4
<1> QED BY <1>5 DEF NextStarted, AllStarted

LEMMA Moves ==
  ASSUME StType, main.at < 6
  PROVE  /\ GivesUp => /\ main'.at \in (main.at + 1)..6 /\ main'.step = 1
                       /\ main' = [at |-> main'.at, step |-> main'.step]
                       /\ main'.at < 6 => StartOrder[main'.at] \in Modules \cup {"rest"}
         /\ GoesOn => \/ GivesUp /\ main.step = Len(StepsOf(Starting))
                      \/ /\ main'.at = main.at /\ main'.step = main.step + 1
                         /\ main' = [at |-> main'.at, step |-> main'.step]
                         /\ main.step < Len(StepsOf(Starting))
<1>1. main.at \in 1..5 /\ main = [at |-> main.at, step |-> main.step] /\ main.step \in 1..6
  BY DEF StType
<1>2. LET k == NextStarted(main.at) IN k \in (main.at + 1)..6 /\ (k < 6 => StartOrder[k] \in Modules \cup {"rest"})
  BY <1>1, NextFacts
<1>3. ASSUME GivesUp
      PROVE  /\ main'.at \in (main.at + 1)..6 /\ main'.step = 1
             /\ main' = [at |-> main'.at, step |-> main'.step]
             /\ main'.at < 6 => StartOrder[main'.at] \in Modules \cup {"rest"}
  <2> HIDE DEF NextStarted
  <2> QED BY <1>2, <1>3 DEF GivesUp
<1>4. Len(StepsOf(Starting)) \in 1..6 /\ main.step <= Len(StepsOf(Starting))
  BY OrderFacts DEF StType
<1>5. ASSUME GoesOn, main.step < Len(StepsOf(Starting))
      PROVE  /\ main'.at = main.at /\ main'.step = main.step + 1
             /\ main' = [at |-> main'.at, step |-> main'.step]
  <2>1. main' = [main EXCEPT !.step = @ + 1]
    BY <1>5 DEF GoesOn
  <2> QED BY <1>1, <2>1
<1>6. ASSUME GoesOn, ~(main.step < Len(StepsOf(Starting)))
      PROVE  GivesUp /\ main.step = Len(StepsOf(Starting))
  <2> HIDE DEF StepsOf, GivesUp, Starting
  <2> QED BY <1>1, <1>4, <1>6 DEF GoesOn
<1> QED BY <1>3, <1>5, <1>6

\* What a step of the main thread in an application leaves of the others.
Moved(a) ==
  /\ \A b \in Modules : \A k \in 1..5 : Past(b, k) => Past(b, k)'
  /\ \A b \in Modules : \A k \in 1..5 : Within(b, k)' => b = a /\ main.step >= k /\ ~GivesUp
  /\ \A k \in 1..5 : main.step >= k => Past(a, k)'
  /\ main' = [at |-> main'.at, step |-> main'.step] /\ main'.at \in 1..6 /\ main'.step \in 1..6
  /\ main'.at < 6 => Starting' \in Modules \cup {"rest"} /\ main'.step <= Len(StepsOf(Starting'))

LEMMA Positions ==
  ASSUME StType, NEW a \in Modules, main.at \in 1..4, AtOf[a] = main.at, Starting = a, GoesOn \/ GivesUp
  PROVE  Moved(a)
<1>1. main.at \in 1..4 /\ main.at < 6 /\ main.step \in 1..6 /\ StartOrder[main.at] = a
  BY DEF StType, Starting
<1>2. \A b \in Modules : AtOf[b] \in 1..4 /\ (AtOf[b] = main.at => b = a)
  BY <1>1, OrderFacts
<1>3. \A x : Len(StepsOf(x)) \in 1..6
  BY OrderFacts
<1>4. CASE GivesUp
  <2>1. /\ main'.at \in (main.at + 1)..6 /\ main'.step = 1
        /\ main' = [at |-> main'.at, step |-> main'.step]
        /\ main'.at < 6 => StartOrder[main'.at] \in Modules \cup {"rest"}
    BY <1>1, <1>4, Moves
  <2>2. \A b \in Modules : \A k \in 1..5 : Past(b, k) => Past(b, k)'
    BY <1>1, <1>2, <2>1 DEF Past
  <2>3. \A b \in Modules : \A k \in 1..5 : ~Within(b, k)'
    BY <2>1 DEF Within
  <2>4. \A k \in 1..5 : Past(a, k)'
    BY <1>1, <1>2, <2>1 DEF Past
  <2>5. main'.at < 6 => Starting' \in Modules \cup {"rest"} /\ main'.step <= Len(StepsOf(Starting'))
    <3> HIDE DEF StepsOf
    <3> QED BY <1>3, <2>1 DEF Starting
  <2>6. main'.at \in 1..6 /\ main'.step \in 1..6
    BY <1>1, <2>1
  <2> QED BY <2>1, <2>2, <2>3, <2>4, <2>5, <2>6 DEF Moved
<1>5. CASE ~GivesUp
  <2>1. /\ main'.at = main.at /\ main'.step = main.step + 1
        /\ main' = [at |-> main'.at, step |-> main'.step]
        /\ main.step < Len(StepsOf(Starting))
    BY <1>1, <1>5, Moves
  <2>2. Starting' = a
    BY <1>1, <2>1 DEF Starting
  <2>3. \A b \in Modules : \A k \in 1..5 : Past(b, k) => Past(b, k)'
    BY <1>1, <1>2, <2>1 DEF Past
  <2>4. \A b \in Modules : \A k \in 1..5 : Within(b, k)' => b = a /\ main.step >= k
    BY <1>1, <1>2, <2>1 DEF Within
  <2>5. \A k \in 1..5 : main.step >= k => Past(a, k)'
    BY <1>1, <1>2, <2>1 DEF Past
  <2>6. main'.at \in 1..6 /\ main'.step \in 1..6 /\ main'.step <= Len(StepsOf(Starting'))
    <3>1. StepsOf(Starting') = StepsOf(a) /\ StepsOf(Starting) = StepsOf(a)
      BY <2>2
    <3>2. Len(StepsOf(a)) \in 1..6 /\ main.step < Len(StepsOf(a))
      BY <1>3, <2>1, <3>1
    <3>3. PICK l \in 1..6 : l = Len(StepsOf(a))
      BY <3>2
    <3>4. main.step < l
      BY <3>2, <3>3
    <3>5. main'.step <= l /\ main'.step \in 1..6
      BY <1>1, <2>1, <3>4
    <3> QED BY <1>1, <2>1, <3>1, <3>3, <3>5
  <2>7. main'.at < 6 => Starting' \in Modules \cup {"rest"} /\ main'.step <= Len(StepsOf(Starting'))
    BY <2>2, <2>6
  <2> QED BY <1>5, <2>1, <2>3, <2>4, <2>5, <2>6, <2>7 DEF Moved
<1> QED BY <1>4, <1>5

\* The queues' messages.
LEMMA OneMore ==
  ASSUME NEW s \in Seq(1..run), run \in Nat \ {0}
  PROVE  /\ s # Absent
         /\ Append(s, run) \in Seq(1..run)
         /\ (\A i \in DOMAIN s : s[i] = run) => \A i \in DOMAIN Append(s, run) : Append(s, run)[i] = run
<1>1. run \in 1..run
  OBVIOUS
<1>2. s # Absent
  <2>1. Absent[1] = 0 /\ Len(Absent) = 1
    BY DEF Absent
  <2>2. Len(s) = 1 => s[1] \in 1..run
    OBVIOUS
  <2> QED BY <2>1, <2>2
<1> QED BY <1>1, <1>2, AppendFacts

LEMMA OneLess ==
  ASSUME NEW s \in Seq(1..run), s # << >>
  PROVE  /\ Tail(s) \in Seq(1..run)
         /\ (\A i \in DOMAIN s : s[i] = run) => \A i \in DOMAIN Tail(s) : Tail(s)[i] = run
BY TailFacts

\* A step that touches only the messages of queues that are there.
LEMMA MessagesKeep ==
  ASSUME StInv, UNCHANGED <<main, memory, qid, thread, moduleData, found, rest, kept, refused, run>>,
         DOMAIN sysv' = Queues,
         \A q \in Queues :
           \/ sysv'[q] = sysv[q]
           \/ /\ Holds(q) /\ sysv'[q] \in Seq(1..run)
              /\ (\A i \in DOMAIN sysv[q] : sysv[q][i] = run) => \A i \in DOMAIN sysv'[q] : sysv'[q][i] = run
  PROVE  StInv'
<1>1. \A q \in Queues : Holds(q) <=> Holds(q)'
  <2> SUFFICES ASSUME NEW q \in Queues PROVE Holds(q) <=> Holds(q)'
    OBVIOUS
  <2>1. sysv'[q] \in Seq(1..run) => sysv'[q] # Absent
    BY OneMore DEF StInv, StType
  <2> QED BY <2>1 DEF Holds
<1>2. StType'
  BY DEF StInv, StType, Starting
<1>3. StProvided'
  <2>1. Modules \subseteq Queues
    BY DEF Queues
  <2>2. \A a \in Modules : Served(a) <=> Served(a)'
    BY <1>1, <2>1 DEF Served
  <2> QED BY <2>2 DEF StInv, StProvided, Past, Within
<1>4. StOwn'
  BY <1>1 DEF StInv, StOwn
<1>5. StSlots'
  BY DEF StInv, StSlots
<1> QED BY <1>2, <1>3, <1>4, <1>5 DEF StInv

\* What undoing leaves: of each queue what there was, or an empty one; no other
\* application's, and none that is read with what there was.
LeftAsUndone(left, apps) ==
  /\ memory' \in [Modules -> {"none", "held", "freed"}] /\ qid' \in [Queues -> {"zero", "own", "invalid"}]
  /\ DOMAIN sysv' = Queues /\ \A q \in Queues : sysv'[q] = left[q] \/ sysv'[q] = << >>
  /\ \A q \in Queues \ apps : qid'[q] = qid[q] /\ sysv'[q] = left[q]
  /\ \A q \in apps : qid'[q] = "invalid" \/ sysv'[q] = << >>
  /\ \A a \in Modules \ apps : memory'[a] = memory[a]
  /\ \A a \in apps : memory[a] = "held" => memory'[a] = "freed"

LEMMA UndoneLeaves ==
  ASSUME StType, NEW left, DOMAIN left = Queues, NEW apps \in SUBSET Modules, UndoneFrom(left, apps)
  PROVE  LeftAsUndone(left, apps)
<1>1. memory' = [a \in Modules |-> IF a \in apps /\ memory[a] = "held" THEN "freed" ELSE memory[a]]
  BY DEF UndoneFrom
<1>2. PICK remade \in SUBSET {a \in apps : left[a] = Absent} :
        /\ qid' = [q \in Queues |-> IF q \notin apps THEN qid[q] ELSE IF q \in remade THEN "own" ELSE "invalid"]
        /\ sysv' = [q \in Queues |-> IF q \in remade THEN << >> ELSE left[q]]
  BY DEF UndoneFrom
<1>3. remade \subseteq apps /\ apps \subseteq Modules /\ apps \subseteq Queues
  BY <1>2 DEF Queues
<1>4. memory' \in [Modules -> {"none", "held", "freed"}] /\ qid' \in [Queues -> {"zero", "own", "invalid"}]
  BY <1>1, <1>2 DEF StType
<1>5. /\ \A a \in Modules \ apps : memory'[a] = memory[a]
      /\ \A a \in apps : memory[a] = "held" => memory'[a] = "freed"
  BY <1>1, <1>3
<1>6. /\ DOMAIN sysv' = Queues /\ \A q \in Queues : sysv'[q] = left[q] \/ sysv'[q] = << >>
      /\ \A q \in Queues \ apps : qid'[q] = qid[q] /\ sysv'[q] = left[q]
      /\ \A q \in apps : qid'[q] = "invalid" \/ sysv'[q] = << >>
  BY <1>2, <1>3
<1> QED BY <1>4, <1>5, <1>6 DEF LeftAsUndone

LEMMA MemoryKeeps == StInv /\ MemoryStep => StInv'
<1> SUFFICES ASSUME StInv, MemoryStep PROVE StInv'
  OBVIOUS
<1>0. PICK a : a = Starting
  OBVIOUS
<1>1. StType /\ main.step = 1 /\ main.at \in 1..4 /\ a \in Modules /\ AtOf[a] = main.at /\ (GoesOn \/ GivesUp)
  <2>1. main.step = 1 /\ main.at \in 1..5 /\ a \in Modules /\ AtOf[a] = main.at
    BY <1>0, StepFacts DEF StInv, MemoryStep
  <2> QED BY <1>0, <2>1, OrderFacts DEF StInv, MemoryStep
<1>2. UNCHANGED <<thread, moduleData, found, callback, rest, kept, refused, run, asked>>
  BY <1>0 DEF MemoryStep
<1>3. Moved(a)
  BY <1>0, <1>1, Positions
<1>4. \/ memory' = [memory EXCEPT ![a] = "held"] /\ UNCHANGED <<sysv, qid>>
      \/ GivesUp /\ Undone({a})
      \/ GivesUp /\ UNCHANGED <<memory, sysv, qid>>
  BY <1>0 DEF MemoryStep
<1>5. Modules \subseteq Queues /\ "trigger" \in Queues /\ "trigger" \notin Modules
  BY OrderFacts DEF Queues
<1>u. ASSUME Undone({a}) PROVE LeftAsUndone(sysv, {a})
  <2>1. DOMAIN sysv = Queues /\ {a} \in SUBSET Modules
    BY <1>1 DEF StType
  <2> QED BY <1>1, <1>u, <2>1, UndoneLeaves DEF Undone
<1> HIDE DEF GivesUp, Undone
<1>6. /\ memory' \in [Modules -> {"none", "held", "freed"}] /\ qid' \in [Queues -> {"zero", "own", "invalid"}]
      /\ DOMAIN sysv' = Queues /\ \A q \in Queues : sysv'[q] = Absent \/ sysv'[q] \in Seq(1..run)
  <2>1. CASE memory' = [memory EXCEPT ![a] = "held"] /\ UNCHANGED <<sysv, qid>>
    BY <1>1, <2>1 DEF StType
  <2>2. CASE Undone({a})
    <3>1. << >> \in Seq(1..run)
      OBVIOUS
    <3>2. \A q \in Queues : sysv[q] = Absent \/ sysv[q] \in Seq(1..run)
      BY <1>1 DEF StType
    <3> QED BY <1>u, <2>2, <3>1, <3>2 DEF LeftAsUndone
  <2>3. CASE UNCHANGED <<memory, sysv, qid>>
    BY <1>1, <2>3 DEF StType
  <2> QED BY <1>4, <2>1, <2>2, <2>3
<1>7. \A b \in Queues \ {a} : qid'[b] = qid[b] /\ sysv'[b] = sysv[b] /\ (b \in Modules => memory'[b] = memory[b])
  BY <1>1, <1>4, <1>5, <1>u DEF StType, LeftAsUndone
<1>8. StType'
  BY <1>2, <1>3, <1>6 DEF Moved, StInv, StType
<1>9. StProvided'
  <2>1. ASSUME NEW b \in Modules, Within(b, 1)' PROVE memory'[b] = "held"
    BY <1>1, <1>3, <1>4, <2>1 DEF Moved, StType
  <2>2. ASSUME NEW b \in Modules PROVE ~Within(b, 3)'
    BY <1>1, <1>3 DEF Moved
  <2>3. ASSUME NEW b \in Modules, thread'[b] # "none"
        PROVE  /\ Past(b, 4)'
               /\ \/ memory'[b] = "held" /\ Served(b)'
                  \/ rest' = "failed"
                  \/ b = "bst" /\ memory'[b] = "freed" /\ qid'["trigger"] = "zero"
    <3>1. Past(b, 4)
      BY <1>2, <2>3 DEF StInv, StProvided
    <3>2. b # a
      BY <1>1, <3>1 DEF Past
    <3>3. memory'[b] = memory[b] /\ (Served(b)' <=> Served(b)) /\ qid'["trigger"] = qid["trigger"] /\ rest' = rest
      BY <1>1, <1>2, <1>5, <1>7, <3>2 DEF Served, Holds
    <3>4. \/ memory[b] = "held" /\ Served(b)
          \/ rest = "failed"
          \/ b = "bst" /\ memory[b] = "freed" /\ qid["trigger"] = "zero"
      BY <1>2, <2>3 DEF StInv, StProvided
    <3>5. Past(b, 4)'
      BY <1>3, <3>1 DEF Moved
    <3> QED BY <3>3, <3>4, <3>5
  <2>4. main'.at < 6 => rest' # "failed"
    BY <1>1, <1>2 DEF StInv, StProvided
  <2>5. "bst" \in Modules /\ ~Past("bst", 5)' => qid'["trigger"] = "zero"
    BY <1>1, <1>3, <1>5, <1>7 DEF Moved, StInv, StProvided
  <2> QED BY <2>1, <2>2, <2>3, <2>4, <2>5 DEF StProvided
<1>10. StOwn'
  <2> SUFFICES ASSUME NEW q \in Queues \ kept, Holds(q)' PROVE \A i \in DOMAIN sysv'[q] : sysv'[q][i] = run
    BY <1>2 DEF StOwn
  <2>1. CASE sysv'[q] = sysv[q] /\ qid'[q] = qid[q]
    BY <1>2, <2>1 DEF StInv, StOwn, Holds
  <2>2. CASE sysv'[q] = << >>
    BY <2>2
  <2>3. q = a /\ GivesUp /\ Undone({a}) => sysv'[q] = << >> \/ qid'[q] = "invalid"
    BY <1>u DEF LeftAsUndone
  <2> QED BY <1>4, <1>7, <2>1, <2>2, <2>3 DEF Holds
<1>11. StSlots'
  BY <1>2 DEF StInv, StSlots
<1> QED BY <1>8, <1>9, <1>10, <1>11 DEF StInv

LEMMA ConfigKeeps == StInv /\ ConfigStep => StInv'
<1> SUFFICES ASSUME StInv, ConfigStep PROVE StInv'
  OBVIOUS
<1>0. PICK a : a = Starting
  OBVIOUS
<1>1. StType /\ main.step = 2 /\ main.at \in 1..4 /\ a \in Modules /\ AtOf[a] = main.at /\ (GoesOn \/ GivesUp)
  <2>1. main.step = 2 /\ main.at \in 1..5 /\ a \in Modules /\ AtOf[a] = main.at
    BY <1>0, StepFacts DEF StInv, ConfigStep
  <2> QED BY <1>0, <2>1, OrderFacts DEF StInv, ConfigStep
<1>2. UNCHANGED <<memory, sysv, qid, thread, moduleData, found, callback, rest, kept, refused, run, asked>>
  BY DEF ConfigStep
<1>3. Moved(a)
  BY <1>0, <1>1, Positions
<1>4. memory[a] = "held"
  BY <1>1 DEF StInv, StProvided, Within
<1>5. StType'
  BY <1>2, <1>3 DEF Moved, StInv, StType
<1>6. StProvided'
  <2>1. ASSUME NEW b \in Modules
        PROVE  (thread'[b] # "none" => Past(b, 4)') /\ (Within(b, 1)' => memory'[b] = "held") /\ ~Within(b, 3)'
    BY <1>1, <1>2, <1>3, <1>4 DEF Moved, StInv, StProvided
  <2>2. \A b \in Modules : Served(b)' <=> Served(b)
    BY <1>2 DEF Served, Holds
  <2>3. ~Past("bst", 5)' /\ "bst" \in Modules => ~Past("bst", 5)
    BY <1>3 DEF Moved
  <2>4. main.at < 6
    BY <1>1
  <2> QED BY <1>2, <2>1, <2>2, <2>3, <2>4 DEF StInv, StProvided
<1>7. StOwn' /\ StSlots'
  BY <1>2 DEF StInv, StOwn, StSlots, Holds
<1> QED BY <1>5, <1>6, <1>7 DEF StInv

LEMMA ThreadKeeps == StInv /\ ThreadStep => StInv'
<1> SUFFICES ASSUME StInv, ThreadStep PROVE StInv'
  OBVIOUS
<1>0. PICK a : a = Starting
  OBVIOUS
<1>1. StType /\ main.step = 4 /\ main.at \in 1..4 /\ a \in Modules /\ AtOf[a] = main.at /\ (GoesOn \/ GivesUp)
  <2>1. main.step = 4 /\ main.at \in 1..5 /\ a \in Modules /\ AtOf[a] = main.at
    BY <1>0, StepFacts DEF StInv, ThreadStep
  <2> QED BY <1>0, <2>1, OrderFacts DEF StInv, ThreadStep
<1>2. UNCHANGED <<memory, sysv, qid, moduleData, found, callback, rest, kept, refused, run, asked>>
      /\ (thread' = [thread EXCEPT ![a] = "registers"] \/ thread' = thread)
  BY <1>0 DEF ThreadStep
<1>3. Moved(a)
  BY <1>0, <1>1, Positions
<1>4. memory[a] = "held" /\ Served(a) /\ thread[a] = "none"
  <2>1. Within(a, 1) /\ Within(a, 3) /\ ~Past(a, 4)
    BY <1>1 DEF Within, Past
  <2> QED BY <1>1, <2>1 DEF StInv, StProvided
<1>5. a \in Queues /\ \A b \in Queues \ {a} : thread'[b] = thread[b]
  BY <1>1, <1>2 DEF Queues, StType
<1>6. thread' \in [Queues -> {"none", "registers", "enters", "prepares", "serves", "ended"}]
      /\ thread'[a] \in {"none", "registers"} /\ Modules \subseteq Queues
  BY <1>1, <1>2, <1>4, <1>5 DEF StType, Queues
<1>7. StType'
  BY <1>2, <1>3, <1>6 DEF Moved, StInv, StType
<1>8. StProvided'
  <2>1. ASSUME NEW b \in Modules
        PROVE  /\ thread'[b] # "none" => Past(b, 4)'
               /\ Within(b, 1)' => memory'[b] = "held"
               /\ Within(b, 3)' => Served(b)'
               /\ thread'[b] # "none" =>
                    \/ memory'[b] = "held" /\ Served(b)'
                    \/ rest' = "failed"
                    \/ b = "bst" /\ memory'[b] = "freed" /\ qid'["trigger"] = "zero"
    <3>1. Served(b)' <=> Served(b)
      BY <1>2 DEF Served, Holds
    <3>2. CASE b = a
      <4>1. Past(a, 4)'
        BY <1>1, <1>3 DEF Moved
      <4>2. memory' = memory
        BY <1>2
      <4>4. Past(b, 4)'
        BY <3>2, <4>1 DEF Past
      <4>5. Served(b)' /\ memory'[b] = "held"
        BY <1>4, <3>1, <3>2, <4>2
      <4> QED BY <4>4, <4>5
    <3>3. CASE b # a
      <4>1. thread'[b] = thread[b] /\ memory' = memory /\ rest' = rest /\ qid' = qid
        BY <1>2, <1>5, <1>6, <3>3
      <4>2. (Past(b, 4) => Past(b, 4)') /\ ~Within(b, 1)' /\ ~Within(b, 3)'
        BY <1>3, <3>3 DEF Moved
      <4>3. /\ thread[b] # "none" => Past(b, 4)
            /\ thread[b] # "none" =>
                 \/ memory[b] = "held" /\ Served(b)
                 \/ rest = "failed"
                 \/ b = "bst" /\ memory[b] = "freed" /\ qid["trigger"] = "zero"
        BY DEF StInv, StProvided
      <4> QED BY <3>1, <4>1, <4>2, <4>3
    <3> QED BY <3>2, <3>3
  <2>3. ~Past("bst", 5)' /\ "bst" \in Modules => ~Past("bst", 5)
    BY <1>3 DEF Moved
  <2>4. main.at < 6
    BY <1>1
  <2> QED BY <1>2, <2>1, <2>3, <2>4 DEF StInv, StProvided
<1>9. StOwn'
  BY <1>2 DEF StInv, StOwn, Holds
<1>10. StSlots'
  <2>1. \A b \in Modules : /\ thread'[b] = "enters" <=> thread[b] = "enters"
                           /\ thread'[b] \in Entered <=> thread[b] \in Entered
    BY <1>4, <1>5, <1>6 DEF Entered
  <2> QED BY <1>2, <2>1 DEF StInv, StSlots
<1> QED BY <1>7, <1>8, <1>9, <1>10 DEF StInv

LEMMA TriggerThreadKeeps == StInv /\ TriggerThreadStep => StInv'
<1> SUFFICES ASSUME StInv, TriggerThreadStep PROVE StInv'
  OBVIOUS
<1>0. PICK a : a = Starting
  OBVIOUS
<1>1. StType /\ main.step = 6 /\ main.at \in 1..4 /\ a \in Modules /\ AtOf[a] = main.at /\ (GoesOn \/ GivesUp)
  <2>1. main.step = 6 /\ main.at \in 1..5 /\ a \in Modules /\ AtOf[a] = main.at
    BY <1>0, StepFacts DEF StInv, TriggerThreadStep
  <2> QED BY <1>0, <2>1, OrderFacts DEF StInv, TriggerThreadStep
<1>2. UNCHANGED <<memory, sysv, qid, moduleData, found, callback, rest, kept, refused, run, asked>>
      /\ (thread' = [thread EXCEPT !["trigger"] = "serves"] \/ thread' = thread)
  BY <1>0 DEF TriggerThreadStep
<1>3. Moved(a)
  BY <1>0, <1>1, Positions
<1>4. memory[a] = "held" /\ Served(a)
  <2>1. Within(a, 1) /\ Within(a, 3)
    BY <1>1 DEF Within
  <2> QED BY <1>1, <2>1 DEF StInv, StProvided
<1>5. Modules \subseteq Queues /\ \A b \in Modules : thread'[b] = thread[b]
  BY <1>1, <1>2, OrderFacts DEF Queues, StType
<1>6. thread' \in [Queues -> {"none", "registers", "enters", "prepares", "serves", "ended"}]
  BY <1>1, <1>2 DEF StType
<1>7. StType'
  BY <1>2, <1>3, <1>6 DEF Moved, StInv, StType
<1>8. StProvided'
  <2>1. ASSUME NEW b \in Modules
        PROVE  /\ thread'[b] # "none" => Past(b, 4)'
               /\ Within(b, 1)' => memory'[b] = "held"
               /\ Within(b, 3)' => Served(b)'
               /\ thread'[b] # "none" =>
                    \/ memory'[b] = "held" /\ Served(b)'
                    \/ rest' = "failed"
                    \/ b = "bst" /\ memory'[b] = "freed" /\ qid'["trigger"] = "zero"
    <3>1. Served(b)' <=> Served(b)
      BY <1>2 DEF Served, Holds
    <3>2. thread'[b] = thread[b] /\ memory' = memory /\ rest' = rest /\ qid' = qid
      BY <1>2, <1>5
    <3>3. (Past(b, 4) => Past(b, 4)') /\ (Within(b, 1)' => b = a) /\ (Within(b, 3)' => b = a)
      BY <1>3 DEF Moved
    <3>4. /\ thread[b] # "none" => Past(b, 4)
          /\ thread[b] # "none" =>
               \/ memory[b] = "held" /\ Served(b)
               \/ rest = "failed"
               \/ b = "bst" /\ memory[b] = "freed" /\ qid["trigger"] = "zero"
      BY DEF StInv, StProvided
    <3> QED BY <1>4, <3>1, <3>2, <3>3, <3>4
  <2>3. ~Past("bst", 5)' /\ "bst" \in Modules => ~Past("bst", 5)
    BY <1>3 DEF Moved
  <2>4. main.at < 6
    BY <1>1
  <2> QED BY <1>2, <2>1, <2>3, <2>4 DEF StInv, StProvided
<1>9. StOwn'
  BY <1>2 DEF StInv, StOwn, Holds
<1>10. StSlots'
  BY <1>2, <1>5 DEF StInv, StSlots
<1> QED BY <1>7, <1>8, <1>9, <1>10 DEF StInv

LEMMA RestKeeps == StInv /\ RestStep => StInv'
<1> SUFFICES ASSUME StInv, RestStep PROVE StInv'
  OBVIOUS
<1>1. /\ main.at = 5 /\ main.at < 6 /\ StType /\ Starting = "rest"
      /\ main.step \in 1..6 /\ main.step <= Len(StepsOf(Starting))
  BY StepFacts, OrderFacts DEF StInv, RestStep, StType, Starting
<1>2. main' = [at |-> main'.at, step |-> main'.step] /\ main'.at = 6 /\ main'.step = 1
  <2>1. Len(StepsOf(Starting)) = 1
    BY <1>1, OrderFacts
  <2> HIDE DEF StepsOf
  <2>2. main.step = 1
    <3>1. PICK l : l = Len(StepsOf(Starting)) /\ l = 1
      BY <2>1
    <3>2. main.step <= l
      BY <1>1, <3>1
    <3>3. main.step \in 1..6
      BY <1>1
    <3> QED BY <3>1, <3>2, <3>3
  <2>3. ~(main.step < Len(StepsOf(Starting)))
    BY <2>1, <2>2
  <2>4. GoesOn
    BY DEF RestStep
  <2>5. GivesUp
    BY <1>1, <2>3, <2>4, Moves
  <2> QED BY <1>1, <2>5, Moves
<1>3. /\ UNCHANGED <<thread, moduleData, found, callback, kept, refused, run, asked>>
      /\ \/ rest' = "up" /\ UNCHANGED <<memory, sysv, qid>>
         \/ rest' = "failed" /\ Undone(Modules)
  BY DEF RestStep
<1>4. Modules \subseteq Queues /\ "trigger" \notin Modules
  BY OrderFacts DEF Queues
<1>u. ASSUME Undone(Modules) PROVE LeftAsUndone(sysv, Modules)
  <2>1. DOMAIN sysv = Queues /\ Modules \in SUBSET Modules
    BY <1>1 DEF StType
  <2> QED BY <1>1, <1>u, <2>1, UndoneLeaves DEF Undone
<1> HIDE DEF Undone
<1>5. /\ memory' \in [Modules -> {"none", "held", "freed"}] /\ qid' \in [Queues -> {"zero", "own", "invalid"}]
      /\ DOMAIN sysv' = Queues /\ \A q \in Queues : sysv'[q] = sysv[q] \/ sysv'[q] = << >>
  <2>1. CASE UNCHANGED <<memory, sysv, qid>>
    BY <1>1, <2>1 DEF StType
  <2>2. CASE Undone(Modules)
    BY <1>u, <2>2 DEF LeftAsUndone
  <2> QED BY <1>3, <2>1, <2>2
<1>6. \A q \in Queues : sysv'[q] = Absent \/ sysv'[q] \in Seq(1..run)
  <2>1. \A q \in Queues : sysv[q] = Absent \/ sysv[q] \in Seq(1..run)
    BY <1>1 DEF StType
  <2>2. << >> \in Seq(1..run)
    OBVIOUS
  <2> QED BY <1>5, <2>1, <2>2
<1>7. StType'
  BY <1>2, <1>3, <1>5, <1>6 DEF StInv, StType
<1>8. StProvided'
  <2>1. \A b \in Modules : Past(b, 4)' /\ ~Within(b, 1)' /\ ~Within(b, 3)' /\ Past(b, 5)'
    BY <1>2, OrderFacts DEF Past, Within
  <2>2. ~(main'.at < 6)
    BY <1>2
  <2>3. CASE UNCHANGED <<memory, sysv, qid>>
    <3>1. rest # "failed"
      BY <1>1 DEF StInv, StProvided
    <3> QED BY <1>3, <2>1, <2>2, <2>3, <3>1 DEF StInv, StProvided, Served, Holds
  <2>4. CASE rest' = "failed"
    BY <2>1, <2>2, <2>4 DEF StProvided
  <2> QED BY <1>3, <2>3, <2>4
<1>9. StOwn'
  <2> SUFFICES ASSUME NEW q \in Queues \ kept, Holds(q)' PROVE \A i \in DOMAIN sysv'[q] : sysv'[q][i] = run
    BY <1>3 DEF StOwn
  <2>1. CASE sysv'[q] = sysv[q] /\ qid'[q] = qid[q]
    BY <1>3, <2>1 DEF StInv, StOwn, Holds
  <2>2. CASE sysv'[q] = << >>
    BY <2>2
  <2>3. Undone(Modules) => sysv'[q] = << >> \/ qid'[q] = "invalid" \/ (sysv'[q] = sysv[q] /\ qid'[q] = qid[q])
    BY <1>u DEF LeftAsUndone
  <2> QED BY <1>3, <2>1, <2>2, <2>3 DEF Holds
<1>10. StSlots'
  BY <1>3 DEF StInv, StSlots
<1> QED BY <1>7, <1>8, <1>9, <1>10 DEF StInv

\* What the queue step leaves of the queues: the new one is made, or found and
\* kept, or refused; or a queue that was found is lost, and the application
\* undone at most with what the operating system has of its queue.
LEMMA QueueKeeps == StInv /\ QueueStep => StInv'
<1> SUFFICES ASSUME StInv, QueueStep PROVE StInv'
  OBVIOUS
<1>0. PICK a, q : a = Starting /\ q = QueueToMake
  OBVIOUS
<1>1. /\ StType /\ main.step \in {3, 5} /\ main.at \in 1..4 /\ a \in Modules /\ AtOf[a] = main.at /\ (GoesOn \/ GivesUp)
      /\ (q = a /\ main.step = 3) \/ (q = "trigger" /\ a = "bst" /\ main.step = 5)
  <2>1. main.at \in 1..5 /\ a \in Modules /\ AtOf[a] = main.at
    BY <1>0, StepFacts DEF StInv, QueueStep
  <2>2. main.at \in 1..4 /\ StType /\ (GoesOn \/ GivesUp)
    BY <1>0, <2>1, OrderFacts DEF StInv, QueueStep, MsgGetRefused, FoundAndLost
  <2>3. CASE Next1("triggerQueue")
    BY <1>0, <2>1, <2>2, <2>3, StepFacts DEF QueueToMake
  <2>4. CASE Next1("queue") /\ ~Next1("triggerQueue")
    BY <1>0, <2>1, <2>2, <2>4, StepFacts DEF QueueToMake
  <2> QED BY <2>3, <2>4 DEF QueueStep
<1>2. UNCHANGED <<thread, moduleData, found, callback, rest, run, asked>>
  BY DEF QueueStep
<1>3. \/ GoesOn /\ MsgGet(q) /\ qid' = [qid EXCEPT ![q] = "own"] /\ UNCHANGED <<memory, refused>>
      \/ MsgGetRefused(q)
      \/ FoundAndLost(a, q)
  BY <1>0 DEF QueueStep
<1>4. Moved(a)
  BY <1>0, <1>1, Positions
<1>5. Modules \subseteq Queues /\ "trigger" \in Queues /\ "trigger" \notin Modules /\ a \in Queues /\ q \in Queues
  BY <1>1, OrderFacts DEF Queues
<1>6. memory[a] = "held" /\ (main.step = 5 => Served(a))
  <2>1. Within(a, 1) /\ (main.step = 5 => Within(a, 3))
    BY <1>1 DEF Within
  <2> QED BY <1>1, <2>1 DEF StInv, StProvided
<1>7. CASE \/ GoesOn /\ MsgGet(q) /\ qid' = [qid EXCEPT ![q] = "own"] /\ UNCHANGED <<memory, refused>>
           \/ MsgGetRefused(q)
  <2>0. memory' = memory
    BY <1>7 DEF MsgGetRefused
  <2>1. /\ qid' \in [Queues -> {"zero", "own", "invalid"}]
        /\ \A p \in Queues \ {q} : qid'[p] = qid[p] /\ (p \in refused' <=> p \in refused)
    BY <1>1, <1>5, <1>7 DEF StType, MsgGetRefused
  <2>2. \/ sysv' = [sysv EXCEPT ![q] = << >>] /\ kept' = kept /\ qid'[q] = "own"
        \/ sysv' = sysv /\ sysv[q] # Absent /\ kept' = kept \cup {q} /\ qid'[q] = "own"
        \/ sysv' = sysv /\ kept' = kept /\ qid'[q] = "invalid" /\ q \in refused'
    BY <1>1, <1>5, <1>7 DEF MsgGet, Fine, MsgGetRefused, StType
  <2>3. /\ DOMAIN sysv' = Queues /\ \A p \in Queues \ {q} : sysv'[p] = sysv[p]
        /\ sysv'[q] = << >> \/ sysv'[q] = sysv[q]
        /\ q \in kept' \/ sysv'[q] = << >> \/ ~Holds(q)'
        /\ kept \subseteq kept' /\ Served(q)'
    <3>1. << >> # Absent
      BY DEF Absent
    <3>2. DOMAIN sysv = Queues
      BY <1>1 DEF StType
    <3> QED BY <1>5, <2>2, <3>1, <3>2 DEF Served, Holds
  <2>4. \A p \in Queues : sysv'[p] = Absent \/ sysv'[p] \in Seq(1..run)
    <3>1. \A p \in Queues : sysv[p] = Absent \/ sysv[p] \in Seq(1..run)
      BY <1>1 DEF StType
    <3>2. << >> \in Seq(1..run)
      OBVIOUS
    <3> QED BY <1>5, <2>3, <3>1, <3>2
  <2>5. StType'
    BY <1>2, <1>4, <2>0, <2>1, <2>3, <2>4 DEF Moved, StInv, StType
  <2>6. \A b \in Modules \ {q} : Served(b)' <=> Served(b)
    BY <1>5, <2>1, <2>3 DEF Served, Holds
  <2>7. StProvided'
    <3>1. ASSUME NEW b \in Modules
          PROVE  /\ thread'[b] # "none" => Past(b, 4)'
                 /\ Within(b, 1)' => memory'[b] = "held"
                 /\ Within(b, 3)' => Served(b)'
                 /\ thread'[b] # "none" =>
                      \/ memory'[b] = "held" /\ Served(b)'
                      \/ rest' = "failed"
                      \/ b = "bst" /\ memory'[b] = "freed" /\ qid'["trigger"] = "zero"
      <4>1. thread'[b] = thread[b] /\ memory' = memory /\ rest' = rest
        BY <1>2, <2>0
      <4>2. (Past(b, 4) => Past(b, 4)') /\ (Within(b, 1)' => b = a) /\ (Within(b, 3)' => b = a)
        BY <1>4 DEF Moved
      <4>3. /\ thread[b] # "none" => Past(b, 4)
            /\ thread[b] # "none" =>
                 \/ memory[b] = "held" /\ Served(b)
                 \/ rest = "failed"
                 \/ b = "bst" /\ memory[b] = "freed" /\ qid["trigger"] = "zero"
        BY DEF StInv, StProvided
      <4>4. CASE b = q
        <5>1. Served(b)'
          BY <2>3, <4>4
        <5>2. b = a
          BY <1>1, <1>5, <4>4
        <5> QED BY <1>6, <4>1, <4>2, <4>3, <5>1, <5>2
      <4>5. CASE b # q
        <5>1. Served(b)' <=> Served(b)
          BY <2>6, <4>5
        <5>2. b = a => main.step = 5 /\ q = "trigger" /\ Served(b)
          BY <1>1, <1>6, <4>5
        <5>3. b = a => memory[b] = "held"
          BY <1>6
        <5>4. b = "bst" /\ q = "trigger" => b = a
          BY <1>1, <1>5
        <5>5. q # "trigger" => qid'["trigger"] = qid["trigger"]
          BY <1>5, <2>1
        <5> QED BY <4>1, <4>2, <4>3, <5>1, <5>2, <5>3, <5>4, <5>5
      <4> QED BY <4>4, <4>5
    <3>2. "bst" \in Modules /\ ~Past("bst", 5)' => qid'["trigger"] = "zero"
      <4>1. CASE q = "trigger"
        <5>1. Past("bst", 5)'
          BY <1>1, <1>4, <1>5, <4>1 DEF Moved
        <5> QED BY <5>1
      <4>2. CASE q # "trigger"
        <5>1. qid'["trigger"] = qid["trigger"]
          BY <1>5, <2>1, <4>2
        <5>2. "bst" \in Modules /\ ~Past("bst", 5)' => ~Past("bst", 5)
          BY <1>4 DEF Moved
        <5> QED BY <5>1, <5>2 DEF StInv, StProvided
      <4> QED BY <4>1, <4>2
    <3>3. rest' # "failed"
      BY <1>1, <1>2 DEF StInv, StProvided
    <3> QED BY <3>1, <3>2, <3>3 DEF StProvided
  <2>8. StOwn'
    <3> SUFFICES ASSUME NEW p \in Queues \ kept', Holds(p)' PROVE \A i \in DOMAIN sysv'[p] : sysv'[p][i] = run
      BY <1>2 DEF StOwn
    <3>1. CASE p = q
      BY <2>3, <3>1, SMTT(30)
    <3>2. CASE p # q
      <4>1. sysv'[p] = sysv[p] /\ qid'[p] = qid[p] /\ p \notin kept
        BY <2>1, <2>3, <3>2
      <4> QED BY <4>1 DEF StInv, StOwn, Holds
    <3> QED BY <3>1, <3>2
  <2>9. StSlots'
    BY <1>2 DEF StInv, StSlots
  <2> QED BY <2>5, <2>7, <2>8, <2>9 DEF StInv
<1>8. CASE FoundAndLost(a, q) /\ UNCHANGED <<memory, qid>> /\ (sysv' = sysv \/ sysv' = [sysv EXCEPT ![q] = << >>])
  <2>1. GivesUp /\ sysv[q] # Absent /\ UNCHANGED <<memory, qid, kept, refused>>
    BY <1>8 DEF FoundAndLost
  <2>2. DOMAIN sysv' = Queues /\ \A p \in Queues : sysv'[p] = sysv[p] \/ (p = q /\ sysv'[p] = << >>)
    BY <1>1, <1>5, <1>8 DEF StType
  <2>3. \A p \in Queues : Holds(p)' <=> Holds(p)
    <3>1. << >> # Absent
      BY DEF Absent
    <3> QED BY <2>1, <2>2, <3>1 DEF Holds
  <2>4. \A p \in Queues : sysv'[p] = Absent \/ sysv'[p] \in Seq(1..run)
    <3>1. \A p \in Queues : sysv[p] = Absent \/ sysv[p] \in Seq(1..run)
      BY <1>1 DEF StType
    <3>2. << >> \in Seq(1..run)
      OBVIOUS
    <3> QED BY <2>2, <3>1, <3>2
  <2>5. StType'
    BY <1>2, <1>4, <2>1, <2>2, <2>4 DEF Moved, StInv, StType
  <2>6. StProvided'
    <3>1. ASSUME NEW b \in Modules
          PROVE  (thread'[b] # "none" => Past(b, 4)') /\ ~Within(b, 1)' /\ ~Within(b, 3)'
      BY <1>2, <1>4, <2>1 DEF Moved, StInv, StProvided
    <3>2. \A b \in Modules : Served(b)' <=> Served(b)
      BY <1>5, <2>1, <2>3 DEF Served
    <3>3. ~Past("bst", 5)' /\ "bst" \in Modules => ~Past("bst", 5)
      BY <1>4 DEF Moved
    <3>4. main.at < 6
      BY <1>1
    <3> QED BY <1>2, <2>1, <3>1, <3>2, <3>3, <3>4 DEF StInv, StProvided
  <2>7. StOwn'
    <3> SUFFICES ASSUME NEW p \in Queues \ kept, Holds(p)' PROVE \A i \in DOMAIN sysv'[p] : sysv'[p][i] = run
      BY <1>2, <2>1 DEF StOwn
    <3>1. CASE sysv'[p] = << >>
      BY <3>1
    <3>2. CASE sysv'[p] = sysv[p]
      BY <2>3, <3>2 DEF StInv, StOwn
    <3> QED BY <2>2, <3>1, <3>2
  <2>8. StSlots'
    BY <1>2 DEF StInv, StSlots
  <2> QED BY <2>5, <2>6, <2>7, <2>8 DEF StInv
<1>9. CASE FoundAndLost(a, q) /\ \E left \in {sysv, [sysv EXCEPT ![q] = Absent]} : UndoneFrom(left, {a})
  <2>0. GivesUp /\ UNCHANGED <<kept, refused>>
    BY <1>9 DEF FoundAndLost
  <2>1. PICK left : /\ UndoneFrom(left, {a}) /\ DOMAIN left = Queues
                    /\ \A p \in Queues : left[p] = sysv[p] \/ (p = q /\ left[p] = Absent)
    BY <1>1, <1>5, <1>9 DEF StType
  <2>2. LeftAsUndone(left, {a})
    <3>1. {a} \in SUBSET Modules
      BY <1>1
    <3> QED BY <1>1, <2>1, <3>1, UndoneLeaves
  <2>3. \A p \in Queues : sysv'[p] = sysv[p] \/ sysv'[p] = << >> \/ sysv'[p] = Absent
    BY <2>1, <2>2 DEF LeftAsUndone
  <2>4. \A p \in Queues : sysv'[p] = Absent \/ sysv'[p] \in Seq(1..run)
    <3>1. \A p \in Queues : sysv[p] = Absent \/ sysv[p] \in Seq(1..run)
      BY <1>1 DEF StType
    <3>2. << >> \in Seq(1..run)
      OBVIOUS
    <3> QED BY <2>3, <3>1, <3>2
  <2>5. memory'[a] = "freed" /\ \A b \in Modules \ {a} : memory'[b] = memory[b]
    BY <1>6, <2>2 DEF LeftAsUndone
  <2>6. StType'
    BY <1>2, <1>4, <2>2, <2>4 DEF Moved, StInv, StType, LeftAsUndone
  <2>7. StProvided'
    <3>1. ASSUME NEW b \in Modules
          PROVE  (thread'[b] # "none" => Past(b, 4)') /\ ~Within(b, 1)' /\ ~Within(b, 3)'
      BY <1>2, <1>4, <2>0 DEF Moved, StInv, StProvided
    <3>2. qid'["trigger"] = qid["trigger"]
      BY <1>1, <1>5, <2>2 DEF LeftAsUndone
    <3>3. ASSUME NEW b \in Modules, thread'[b] # "none"
          PROVE  \/ memory'[b] = "held" /\ Served(b)'
                 \/ rest' = "failed"
                 \/ b = "bst" /\ memory'[b] = "freed" /\ qid'["trigger"] = "zero"
      <4>1. Past(b, 4) /\ \/ memory[b] = "held" /\ Served(b)
                          \/ rest = "failed"
                          \/ b = "bst" /\ memory[b] = "freed" /\ qid["trigger"] = "zero"
        BY <1>2, <3>3 DEF StInv, StProvided
      <4>2. CASE b # a
        <5>1. b # q /\ b \in Queues \ {a}
          BY <1>1, <1>5, <4>2
        <5>2. memory'[b] = memory[b] /\ sysv'[b] = sysv[b] /\ qid'[b] = qid[b] /\ rest' = rest
          BY <1>2, <2>1, <2>2, <2>5, <4>2, <5>1 DEF LeftAsUndone
        <5>3. Served(b)' <=> Served(b)
          BY <2>0, <5>2 DEF Served, Holds
        <5> QED BY <3>2, <4>1, <5>2, <5>3
      <4>3. CASE b = a
        <5>1. main.step = 5 /\ a = "bst"
          <6>1. main.step # 3
            BY <1>1, <4>1, <4>3 DEF Past
          <6> QED BY <1>1, <6>1
        <5>2. ~Past("bst", 5)
          BY <1>1, <5>1 DEF Past
        <5>3. qid["trigger"] = "zero"
          BY <1>1, <5>1, <5>2 DEF StInv, StProvided
        <5> QED BY <2>5, <3>2, <4>3, <5>1, <5>3
      <4> QED BY <4>2, <4>3
    <3>4. ~Past("bst", 5)' /\ "bst" \in Modules => ~Past("bst", 5)
      BY <1>4 DEF Moved
    <3>5. rest' # "failed"
      BY <1>1, <1>2 DEF StInv, StProvided
    <3> QED BY <3>1, <3>2, <3>3, <3>4, <3>5 DEF StInv, StProvided
  <2>8. StOwn'
    <3> SUFFICES ASSUME NEW p \in Queues \ kept, Holds(p)' PROVE \A i \in DOMAIN sysv'[p] : sysv'[p][i] = run
      BY <1>2, <2>0 DEF StOwn
    <3>1. CASE p = a
      <4>1. sysv'[p] = << >>
        BY <2>2, <3>1 DEF LeftAsUndone, Holds
      <4> QED BY <4>1
    <3>2. CASE p # a
      <4>1. qid'[p] = qid[p] /\ sysv'[p] = left[p] /\ sysv'[p] # Absent
        BY <2>2, <3>2 DEF LeftAsUndone, Holds
      <4>2. sysv'[p] = sysv[p]
        BY <2>1, <4>1
      <4> QED BY <4>1, <4>2 DEF StInv, StOwn, Holds
    <3> QED BY <3>1, <3>2
  <2>9. StSlots'
    BY <1>2 DEF StInv, StSlots
  <2> QED BY <2>6, <2>7, <2>8, <2>9 DEF StInv
<1> QED BY <1>3, <1>7, <1>8, <1>9 DEF FoundAndLost

\* There is a free slot for a thread that comes to register: four slots at
\* least, and at most three others that have one.
LEMMA RoomForModule ==
  ASSUME StInv, NEW a \in Modules, thread[a] = "registers"
  PROVE  FreeSlot1 \in 1..MaxModules /\ moduleData[FreeSlot1] = Free
<1> DEFINE S == {s \in 1..MaxModules : moduleData[s] = Free}
<1>1. MaxModules \in Nat /\ 1..4 \subseteq 1..MaxModules
  BY StartupAssumption
<1>2. \A s \in 1..MaxModules : moduleData[s] \in Modules \cup {Free} /\ moduleData[s] # a
  BY DEF StInv, StType, StSlots, Entered
<1>3. ASSUME NEW s \in 1..MaxModules, NEW t \in 1..MaxModules, moduleData[s] = moduleData[t], moduleData[s] # Free
      PROVE  s = t
  <2>1. moduleData[s] \in Modules
    BY <1>2, <1>3
  <2>2. thread[moduleData[s]] \in Entered
    BY <2>1 DEF StInv, StSlots
  <2> QED BY <1>3, <2>1, <2>2 DEF StInv, StSlots
<1>4. S # {}
  <2>1. SUFFICES ASSUME \A s \in 1..MaxModules : moduleData[s] # Free PROVE FALSE
    OBVIOUS
  <2>2. 1 \in 1..MaxModules /\ 2 \in 1..MaxModules /\ 3 \in 1..MaxModules /\ 4 \in 1..MaxModules
    BY <1>1
  <2>3. \A s \in {1, 2, 3, 4} : moduleData[s] \in {"bst", "pt", "bhd", "sys"} \ {a}
    BY <1>2, <2>1, <2>2, OrderFacts, ZenonT(60)
  <2>4. \A s, t \in {1, 2, 3, 4} : moduleData[s] = moduleData[t] => s = t
    BY <1>3, <2>1, <2>2
  <2>5. a \in {"bst", "pt", "bhd", "sys"}
    BY OrderFacts
  <2> QED BY <2>3, <2>4, <2>5
<1>5. PICK m \in S : \A s \in S : m <= s
  <2>1. S \in SUBSET Nat
    BY <1>1
  <2> QED BY <1>4, <2>1, LeastExists
<1>6. m \in 1..MaxModules /\ moduleData[m] = Free /\ \A t \in 1..(m - 1) : moduleData[t] # Free
  <2>1. ASSUME NEW t \in 1..(m - 1) PROVE t \in 1..MaxModules /\ ~(m <= t)
    BY <1>1, <1>5
  <2> QED BY <1>5, <2>1
<1> HIDE DEF S
<1> QED BY <1>6 DEF FreeSlot1

LEMMA SearchKeeps == ASSUME StInv, NEW a \in Modules, ModuleSearch(a) PROVE StInv'
<1>1. /\ thread[a] = "registers" /\ found.owner = Free /\ thread' = [thread EXCEPT ![a] = "enters"]
      /\ found' = [owner |-> a, slot |-> FreeSlot1]
      /\ UNCHANGED <<main, memory, sysv, qid, moduleData, rest, kept, refused, run>>
  BY DEF ModuleSearch
<1>2. FreeSlot1 \in 1..MaxModules /\ moduleData[FreeSlot1] = Free
  BY <1>1, RoomForModule
<1> HIDE DEF FreeSlot1
<1>3. /\ thread' \in [Queues -> {"none", "registers", "enters", "prepares", "serves", "ended"}]
      /\ thread'[a] = "enters" /\ \A b \in Queues \ {a} : thread'[b] = thread[b]
      /\ a \in Queues /\ Modules \subseteq Queues
  BY <1>1 DEF StInv, StType, Queues
<1>4. found' = [owner |-> found'.owner, slot |-> found'.slot] /\ found'.owner = a /\ found'.slot \in 1..MaxModules
      /\ moduleData'[found'.slot] = Free
  BY <1>1, <1>2
<1>5. StType'
  BY <1>1, <1>3, <1>4 DEF StInv, StType, Starting
<1>6. StProvided'
  <2>1. \A b \in Modules : thread'[b] # "none" <=> thread[b] # "none"
    BY <1>1, <1>3
  <2> QED BY <1>1, <2>1 DEF StInv, StProvided, Past, Within, Served, Holds
<1>7. StOwn'
  BY <1>1 DEF StInv, StOwn, Holds
<1>8. StSlots'
  <2>1. \A b \in Modules : thread'[b] = "enters" <=> found'.owner = b
    BY <1>1, <1>3, <1>4, OrderFacts DEF StInv, StSlots
  <2>2. \A b \in Modules : thread'[b] \in Entered <=> thread[b] \in Entered
    BY <1>1, <1>3 DEF Entered
  <2> QED BY <1>1, <1>4, <2>1, <2>2 DEF StInv, StSlots
<1> QED BY <1>5, <1>6, <1>7, <1>8 DEF StInv

LEMMA EnterKeeps == ASSUME StInv, NEW a \in Modules, ModuleEnter(a) PROVE StInv'
<1>1. /\ thread[a] = "enters" /\ thread' = [thread EXCEPT ![a] = "prepares"]
      /\ moduleData' = [moduleData EXCEPT ![found.slot] = a] /\ found' = NoOne
      /\ UNCHANGED <<main, memory, sysv, qid, rest, kept, refused, run>>
  BY DEF ModuleEnter
<1>2. /\ thread' \in [Queues -> {"none", "registers", "enters", "prepares", "serves", "ended"}]
      /\ thread'[a] = "prepares" /\ \A b \in Queues \ {a} : thread'[b] = thread[b]
      /\ a \in Queues /\ Modules \subseteq Queues
  BY <1>1 DEF StInv, StType, Queues
<1>3. found.owner = a /\ a # Free /\ found.slot \in 1..MaxModules /\ moduleData[found.slot] = Free
  BY <1>1, OrderFacts DEF StInv, StSlots, StType
<1>4. /\ moduleData' \in [1..MaxModules -> Modules \cup {Free}] /\ moduleData'[found.slot] = a
      /\ \A s \in 1..MaxModules \ {found.slot} : moduleData'[s] = moduleData[s]
  BY <1>1, <1>3 DEF StInv, StType
<1>5. found' = [owner |-> found'.owner, slot |-> found'.slot] /\ found'.owner = Free /\ found'.slot \in 1..MaxModules
  BY <1>1, StartupAssumption DEF NoOne
<1>6. StType'
  BY <1>1, <1>2, <1>4, <1>5 DEF StInv, StType, Starting
<1>7. StProvided'
  <2>1. \A b \in Modules : thread'[b] # "none" <=> thread[b] # "none"
    BY <1>1, <1>2
  <2> QED BY <1>1, <2>1 DEF StInv, StProvided, Past, Within, Served, Holds
<1>8. StOwn'
  BY <1>1 DEF StInv, StOwn, Holds
<1>9. StSlots'
  <2>1. \A b \in Modules : thread'[b] = "enters" <=> found'.owner = b
    BY <1>1, <1>2, <1>3, <1>5, OrderFacts DEF StInv, StSlots
  <2>2. \A b \in Modules \ {a} : thread'[b] \in Entered <=> thread[b] \in Entered
    BY <1>2
  <2>3. thread[a] \notin Entered /\ thread'[a] \in Entered
    BY <1>1, <1>2 DEF Entered
  <2>4. \A s \in 1..MaxModules : moduleData[s] # a
    BY <2>3 DEF StInv, StSlots
  <2>5. \A t \in 1..MaxModules : moduleData'[t] = a <=> t = found.slot
    BY <1>4, <2>4
  <2>6. \A b \in Modules \ {a} : \A t \in 1..MaxModules : moduleData'[t] = b <=> moduleData[t] = b
    BY <1>3, <1>4, OrderFacts
  <2>7. ASSUME NEW b \in Modules, thread'[b] \in Entered
        PROVE  \E s \in 1..MaxModules : \A t \in 1..MaxModules : moduleData'[t] = b <=> t = s
    <3>1. CASE b = a
      BY <1>3, <2>5, <3>1
    <3>2. CASE b # a
      <4>1. thread[b] \in Entered
        BY <2>2, <2>7, <3>2
      <4>2. PICK s \in 1..MaxModules : \A t \in 1..MaxModules : moduleData[t] = b <=> t = s
        BY <4>1 DEF StInv, StSlots
      <4> QED BY <2>6, <3>2, <4>2
    <3> QED BY <3>1, <3>2
  <2>8. ASSUME NEW b \in Modules, thread'[b] \notin Entered
        PROVE  \A s \in 1..MaxModules : moduleData'[s] # b
    <3>1. b # a /\ thread[b] \notin Entered
      BY <2>2, <2>3, <2>8
    <3>2. \A s \in 1..MaxModules : moduleData[s] # b
      BY <3>1 DEF StInv, StSlots
    <3> QED BY <2>6, <3>1, <3>2
  <2> QED BY <1>5, <2>1, <2>7, <2>8 DEF StSlots
<1> QED BY <1>6, <1>7, <1>8, <1>9 DEF StInv

LEMMA PrepareKeeps == ASSUME StInv, NEW a \in Modules, Prepare(a) PROVE StInv'
<1>1. /\ thread[a] = "prepares"
      /\ thread' = [thread EXCEPT ![a] = "serves"] \/ thread' = [thread EXCEPT ![a] = "ended"]
      /\ UNCHANGED <<main, memory, sysv, qid, moduleData, found, rest, kept, refused, run>>
  BY DEF Prepare
<1>2. /\ thread' \in [Queues -> {"none", "registers", "enters", "prepares", "serves", "ended"}]
      /\ thread'[a] \in {"serves", "ended"} /\ \A b \in Queues \ {a} : thread'[b] = thread[b]
      /\ a \in Queues /\ Modules \subseteq Queues
  BY <1>1 DEF StInv, StType, Queues
<1>3. \A b \in Modules : /\ thread'[b] # "none" <=> thread[b] # "none"
                         /\ thread'[b] = "enters" <=> thread[b] = "enters"
                         /\ thread'[b] \in Entered <=> thread[b] \in Entered
  BY <1>1, <1>2 DEF Entered
<1>4. StType'
  BY <1>1, <1>2 DEF StInv, StType, Starting
<1>5. StProvided'
  BY <1>1, <1>3 DEF StInv, StProvided, Past, Within, Served, Holds
<1>6. StOwn'
  BY <1>1 DEF StInv, StOwn, Holds
<1>7. StSlots'
  BY <1>1, <1>3 DEF StInv, StSlots
<1> QED BY <1>4, <1>5, <1>6, <1>7 DEF StInv

LEMMA ReadsFailKeeps == ASSUME StInv, NEW q \in Queues, ReadsFail(q) PROVE StInv'
<1>1. /\ thread[q] = "serves" /\ thread' = [thread EXCEPT ![q] = "ended"]
      /\ UNCHANGED <<main, memory, sysv, qid, moduleData, found, rest, kept, refused, run>>
  BY DEF ReadsFail
<1>2. /\ thread' \in [Queues -> {"none", "registers", "enters", "prepares", "serves", "ended"}]
      /\ thread'[q] = "ended" /\ \A b \in Queues \ {q} : thread'[b] = thread[b]
      /\ Modules \subseteq Queues
  BY <1>1 DEF StInv, StType, Queues
<1>3. \A b \in Modules : /\ thread'[b] # "none" <=> thread[b] # "none"
                         /\ thread'[b] = "enters" <=> thread[b] = "enters"
                         /\ thread'[b] \in Entered <=> thread[b] \in Entered
  BY <1>1, <1>2 DEF Entered
<1>4. StType'
  BY <1>1, <1>2 DEF StInv, StType, Starting
<1>5. StProvided'
  BY <1>1, <1>3 DEF StInv, StProvided, Past, Within, Served, Holds
<1>6. StOwn'
  BY <1>1 DEF StInv, StOwn, Holds
<1>7. StSlots'
  BY <1>1, <1>3 DEF StInv, StSlots
<1> QED BY <1>4, <1>5, <1>6, <1>7 DEF StInv

\* A request, a trigger, or a message that is served.
LEMMA PostKeeps ==
  ASSUME StInv, NEW q \in Queues, Room(q), Post(q),
         UNCHANGED <<main, memory, qid, thread, moduleData, found, rest, kept, refused, run>>
  PROVE  StInv'
<1>1. Holds(q) /\ sysv[q] \in Seq(1..run) /\ run \in Nat \ {0} /\ DOMAIN sysv = Queues
  BY DEF Room, Holds, StInv, StType
<1>2. sysv' = [sysv EXCEPT ![q] = Append(sysv[q], run)]
  BY DEF Post
<1>3. DOMAIN sysv' = Queues /\ sysv'[q] = Append(sysv[q], run) /\ \A p \in Queues \ {q} : sysv'[p] = sysv[p]
  BY <1>1, <1>2
<1>4. /\ Append(sysv[q], run) \in Seq(1..run)
      /\ (\A i \in DOMAIN sysv[q] : sysv[q][i] = run)
           => \A i \in DOMAIN Append(sysv[q], run) : Append(sysv[q], run)[i] = run
  BY <1>1, OneMore
<1> QED BY <1>1, <1>3, <1>4, MessagesKeep

LEMMA ServeKeeps == ASSUME StInv, NEW a \in Modules, Serve(a) PROVE StInv'
<1>1. a \in Queues /\ Holds(a) /\ sysv[a] # << >> /\ sysv' = [sysv EXCEPT ![a] = Tail(@)]
      /\ UNCHANGED <<main, memory, qid, thread, moduleData, found, rest, kept, refused, run>>
  BY DEF Serve, Queues
<1>2. sysv[a] \in Seq(1..run) /\ DOMAIN sysv = Queues
  BY <1>1 DEF Holds, StInv, StType
<1>3. DOMAIN sysv' = Queues /\ sysv'[a] = Tail(sysv[a]) /\ \A p \in Queues \ {a} : sysv'[p] = sysv[p]
  BY <1>1, <1>2
<1>4. /\ Tail(sysv[a]) \in Seq(1..run)
      /\ (\A i \in DOMAIN sysv[a] : sysv[a][i] = run) => \A i \in DOMAIN Tail(sysv[a]) : Tail(sysv[a])[i] = run
  BY <1>1, <1>2, OneLess
<1> QED BY <1>1, <1>3, <1>4, MessagesKeep, ZenonT(60)

LEMMA TriggerKeeps == StInv /\ TriggerServed => StInv'
<1> SUFFICES ASSUME StInv, TriggerServed PROVE StInv'
  OBVIOUS
<1> DEFINE t == sysv["trigger"]
<1>1. /\ "trigger" \in Queues /\ Holds("trigger") /\ t # << >>
      /\ UNCHANGED <<main, memory, qid, thread, moduleData, found, rest, kept, refused, run>>
      /\ \/ /\ Room("bst")
            /\ sysv' = [sysv EXCEPT !["trigger"] = Tail(t), !["bst"] = Append(sysv["bst"], run)]
         \/ sysv' = [sysv EXCEPT !["trigger"] = Tail(t)]
  BY DEF TriggerServed, Queues
<1>2. t \in Seq(1..run) /\ DOMAIN sysv = Queues /\ run \in Nat \ {0}
  BY <1>1 DEF Holds, StInv, StType
<1>3. /\ Tail(t) \in Seq(1..run)
      /\ (\A i \in DOMAIN t : t[i] = run) => \A i \in DOMAIN Tail(t) : Tail(t)[i] = run
  BY <1>1, <1>2, OneLess
<1>4. CASE sysv' = [sysv EXCEPT !["trigger"] = Tail(t)]
  <2>1. DOMAIN sysv' = Queues /\ sysv'["trigger"] = Tail(t) /\ \A p \in Queues \ {"trigger"} : sysv'[p] = sysv[p]
    BY <1>1, <1>2, <1>4
  <2> QED BY <1>1, <1>3, <2>1, MessagesKeep
<1>5. CASE Room("bst") /\ sysv' = [sysv EXCEPT !["trigger"] = Tail(t), !["bst"] = Append(sysv["bst"], run)]
  <2> DEFINE b == sysv["bst"]
  <2>1. CASE "bst" \in Queues
    <3>1. b \in Seq(1..run) /\ Holds("bst")
      BY <1>5, <2>1 DEF Room, Holds, StInv, StType
    <3>2. /\ Append(b, run) \in Seq(1..run)
          /\ (\A i \in DOMAIN b : b[i] = run) => \A i \in DOMAIN Append(b, run) : Append(b, run)[i] = run
      BY <1>2, <3>1, OneMore
    <3>3. /\ DOMAIN sysv' = Queues /\ sysv'["trigger"] = Tail(t) /\ sysv'["bst"] = Append(b, run)
          /\ \A p \in Queues \ {"trigger", "bst"} : sysv'[p] = sysv[p]
      BY <1>1, <1>2, <1>5, <2>1
    <3> HIDE DEF b, t
    <3>4. ASSUME NEW p \in Queues
          PROVE  \/ sysv'[p] = sysv[p]
                 \/ /\ Holds(p) /\ sysv'[p] \in Seq(1..run)
                    /\ (\A i \in DOMAIN sysv[p] : sysv[p][i] = run) => \A i \in DOMAIN sysv'[p] : sysv'[p][i] = run
      BY <1>1, <1>3, <3>1, <3>2, <3>3 DEF b, t
    <3> QED BY <1>1, <3>3, <3>4, MessagesKeep
  <2>2. CASE "bst" \notin Queues
    <3>1. DOMAIN sysv' = Queues /\ sysv'["trigger"] = Tail(t) /\ \A p \in Queues \ {"trigger"} : sysv'[p] = sysv[p]
      BY <1>1, <1>2, <1>5, <2>2
    <3> QED BY <1>1, <1>3, <3>1, MessagesKeep
  <2> QED BY <2>1, <2>2
<1> QED BY <1>1, <1>4, <1>5

\* The start of the process, the first and every later one.
LEMMA FirstPlace ==
  ASSUME NEW m, m = InitPh2 \/ m = [at |-> AllStarted, step |-> 1]
  PROVE  /\ m = [at |-> m.at, step |-> m.step] /\ m.at \in 1..6 /\ m.step = 1
         /\ m.at < 6 => StartOrder[m.at] \in Modules \cup {"rest"}
<1>1. CASE m = InitPh2
  <2>1. LET k == NextStarted(0) IN k \in 1..6 /\ (k < 6 => StartOrder[k] \in Modules \cup {"rest"})
    BY NextFacts
  <2> HIDE DEF NextStarted
  <2> QED BY <1>1, <2>1 DEF InitPh2
<1>2. CASE m = [at |-> AllStarted, step |-> 1]
  BY <1>2 DEF AllStarted
<1> QED BY <1>1, <1>2

LEMMA RestartKeeps == StInv /\ Restart => StInv'
<1> SUFFICES ASSUME StInv, Restart PROVE StInv'
  OBVIOUS
<1>1. /\ main' = [at |-> main'.at, step |-> main'.step] /\ main'.at \in 1..6 /\ main'.step = 1
      /\ main'.at < 6 => StartOrder[main'.at] \in Modules \cup {"rest"}
  BY FirstPlace DEF Restart
<1>2. /\ memory' = [a \in Modules |-> "none"] /\ qid' = [q \in Queues |-> "zero"] /\ thread' = [q \in Queues |-> "none"]
      /\ moduleData' = [s \in 1..MaxModules |-> Free] /\ found' = NoOne /\ rest' = "off" /\ sysv' = sysv
      /\ run' = run + 1 /\ Modules \subseteq Queues /\ "trigger" \in Queues
  BY DEF Restart, Queues
<1>3. found' = [owner |-> found'.owner, slot |-> found'.slot] /\ found'.owner = Free /\ found'.slot \in 1..MaxModules
  BY <1>2, StartupAssumption DEF NoOne
<1>4. StType'
  <2>1. run \in Nat \ {0} /\ DOMAIN sysv = Queues /\ \A q \in Queues : sysv[q] = Absent \/ sysv[q] \in Seq(1..run)
    BY DEF StInv, StType
  <2>2. run' \in Nat \ {0} /\ 1..run \subseteq 1..run'
    BY <1>2, <2>1
  <2>3. \A q \in Queues : sysv'[q] = Absent \/ sysv'[q] \in Seq(1..run')
    BY <1>2, <2>1, <2>2
  <2>4. \A a : Len(StepsOf(a)) \in 1..6
    BY OrderFacts
  <2>5. main'.step <= Len(StepsOf(Starting'))
    <3>1. PICK l \in 1..6 : l = Len(StepsOf(Starting'))
      BY <2>4
    <3> QED BY <1>1, <3>1
  <2> QED BY <1>1, <1>2, <1>3, <2>1, <2>2, <2>3, <2>5 DEF StType, Starting
<1>5. StProvided'
  BY <1>1, <1>2 DEF StProvided, Within, Served, Holds
<1>6. StOwn'
  BY <1>2 DEF StOwn, Holds
<1>7. StSlots'
  BY <1>2, <1>3, OrderFacts DEF StSlots, Entered
<1> QED BY <1>4, <1>5, <1>6, <1>7 DEF StInv

LEMMA StInitial == ASSUME NEW m, m = InitPh2 \/ m = [at |-> AllStarted, step |-> 1], StartsWith(m) PROVE StInv
<1>1. main = m /\ main = [at |-> main.at, step |-> main.step] /\ main.at \in 1..6 /\ main.step = 1
      /\ (main.at < 6 => StartOrder[main.at] \in Modules \cup {"rest"})
  BY FirstPlace DEF StartsWith
<1>2. /\ memory = [a \in Modules |-> "none"] /\ qid = [q \in Queues |-> "zero"] /\ thread = [q \in Queues |-> "none"]
      /\ moduleData = [s \in 1..MaxModules |-> Free] /\ found = NoOne /\ rest = "off"
      /\ sysv = [q \in Queues |-> Absent] /\ run = 1 /\ Modules \subseteq Queues /\ "trigger" \in Queues
  BY DEF StartsWith, Queues
<1>3. found = [owner |-> found.owner, slot |-> found.slot] /\ found.owner = Free /\ found.slot \in 1..MaxModules
  BY <1>2, StartupAssumption DEF NoOne
<1>4. StType
  <2>1. \A a : Len(StepsOf(a)) \in 1..6
    BY OrderFacts
  <2>2. main.step <= Len(StepsOf(Starting))
    <3> HIDE DEF StepsOf
    <3> QED BY <1>1, <2>1, SMTT(30)
  <2> QED BY <1>1, <1>2, <1>3, <2>2 DEF StType, Starting
<1>5. StProvided
  BY <1>1, <1>2 DEF StProvided, Within, Served, Holds
<1>6. StOwn
  BY <1>2 DEF StOwn, Holds
<1>7. StSlots
  BY <1>2, <1>3, OrderFacts DEF StSlots, Entered
<1> QED BY <1>4, <1>5, <1>6, <1>7 DEF StInv

LEMMA StStep == StInv /\ [StartupNext]_startVars => StInv'
<1> SUFFICES ASSUME StInv, [StartupNext]_startVars PROVE StInv'
  OBVIOUS
<1>1. CASE MainStep
  BY <1>1, MemoryKeeps, ConfigKeeps, QueueKeeps, ThreadKeeps, TriggerThreadKeeps, RestKeeps DEF MainStep
<1>2. ASSUME NEW a \in Modules, AppStep(a) PROVE StInv'
  BY <1>2, SearchKeeps, EnterKeeps, PrepareKeeps, ServeKeeps DEF AppStep
<1>3. ASSUME NEW a \in Modules, RestRequest(a) PROVE StInv'
  <2>1. a \in Queues
    BY DEF Queues
  <2> QED BY <1>3, <2>1, PostKeeps DEF RestRequest
<1>4. CASE SwitchTrigger
  <2>1. "trigger" \in Queues
    BY DEF Queues
  <2> QED BY <1>4, <2>1, PostKeeps DEF SwitchTrigger
<1>5. CASE TriggerServed
  BY <1>5, TriggerKeeps
<1>6. CASE Restart
  BY <1>6, RestartKeeps
<1>8. ASSUME NEW q \in Queues, ReadsFail(q) PROVE StInv'
  BY <1>8, ReadsFailKeeps
<1>7. CASE UNCHANGED startVars
  <2>1. UNCHANGED <<main, memory, qid, thread, moduleData, found, rest, kept, refused, run>> /\ sysv' = sysv
    BY <1>7 DEF startVars
  <2>2. DOMAIN sysv' = Queues
    BY <2>1 DEF StInv, StType
  <2> QED BY <2>1, <2>2, MessagesKeep
<1> QED BY <1>1, <1>2, <1>3, <1>4, <1>5, <1>6, <1>7, <1>8 DEF StartupNext

LEMMA StInvMeans == StInv => OwnRunOnly /\ ThreadsProvided /\ EachRegisteredOnce
<1> SUFFICES ASSUME StInv PROVE OwnRunOnly /\ ThreadsProvided /\ EachRegisteredOnce
  OBVIOUS
<1>1. OwnRunOnly
  BY DEF StInv, StOwn, OwnRunOnly, ToSet
<1>2. ThreadsProvided
  BY DEF StInv, StProvided, Served, ThreadsProvided, UndoneRunning
<1>3. EachRegisteredOnce
  <2> SUFFICES ASSUME NEW a \in Modules
               PROVE  Cardinality({s \in 1..MaxModules : moduleData[s] = a}) = IF thread[a] \in Entered THEN 1 ELSE 0
    BY DEF EachRegisteredOnce, Entered
  <2>1. CASE thread[a] \in Entered
    <3>1. PICK s \in 1..MaxModules : \A t \in 1..MaxModules : moduleData[t] = a <=> t = s
      BY <2>1 DEF StInv, StSlots
    <3>2. {t \in 1..MaxModules : moduleData[t] = a} = {s}
      BY <3>1
    <3> QED BY <2>1, <3>2, FS_Singleton
  <2>2. CASE thread[a] \notin Entered
    <3>1. {t \in 1..MaxModules : moduleData[t] = a} = {}
      BY <2>2 DEF StInv, StSlots
    <3> QED BY <2>2, <3>1, FS_EmptySet
  <2> QED BY <2>1, <2>2
<1> QED BY <1>1, <1>2, <1>3

\* Whatever fails while the agent starts, and however often it is started
\* again: a queue the agent reads holds nothing of an earlier run, unless it
\* could not be removed; a thread that runs has its memory, and its queue unless
\* msgget refused it, but where an application was undone with its thread
\* running; and each application that registered has one slot of the module
\* manager (system.c, bst_main.c, modulemgr.c).
THEOREM StartupSafeHolds == MCSpec => []StartupSafe
<1>1. MCInit => StInv
  BY StInitial DEF MCInit
<1>2. [MCNext]_agentVars => [StartupNext]_startVars
  BY DEF MCNext, StartupRuns, HeartbeatRuns, RedirectorRuns, OvsdbRuns, agentVars
<1>3. StInv /\ [MCNext]_agentVars => StInv'
  BY <1>2, StStep
<1>4. StInv => StartupSafe
  BY StInvMeans DEF StartupSafe
<1> QED BY <1>1, <1>3, <1>4, PTL DEF MCSpec

-----------------------------------------------------------------------------
(* What a call has found: the entry that serves it best.                    *)

\* The search is behind a call that comes to the plug-in; from the search on it
\* takes no lock and asks for no chip.
Searched(todo) == \E i \in 1 .. Len(todo) : todo[i] = "call" /\ \A j \in 1..i : todo[j] # "handle"
SearchedLast(todo) ==
  \A i \in 1 .. Len(todo) : todo[i] = "call" =>
    \A k \in 1..i : todo[k] \in {"chip", "lock"} => \E j \in k..i : todo[j] = "handle"

\* The entry that serves a chip best, of a list of plug-ins.
EntryIn(list, x) == list[x[1]].features[x[2]]
BestIn(list, chip, f) ==
  LET places == {x \in UNION {{p} \X DOMAIN list[p].features : p \in DOMAIN list} : EntryIn(list, x).featureId = f}
      all == {x \in places : AllChips \in EntryIn(list, x).mask}
      exact == {x \in places : IF x \in all THEN \E y \in all : Earlier(y, x) ELSE chip \in EntryIn(list, x).mask}
      fit == IF exact # {} THEN exact ELSE all
  IN IF fit = {} THEN NoEntry ELSE EntryIn(list, First1(fit))

LEMMA BestIsIn == \A chip, f : FeatureHandleGet(chip, f) = BestIn(plugins, chip, f)
  BY DEF FeatureHandleGet, BestEntry, Entries, EntryOf, EntryAt, BestIn, EntryIn

Plugins == {Registrations[i] : i \in DOMAIN Registrations}
Finds(r) ==
  /\ r.name \in DOMAIN Apis \cup {"none"}
  /\ SearchedLast(r.todo)
  /\ Searched(r.todo) => r.handle = BestIn(plugins, r.chip, Apis[r.name].featureId)

FoundInv ==
  /\ plugins \in Seq(Plugins) /\ Len(plugins) <= MaxPlugins
  /\ registrar = [left |-> registrar.left, at |-> registrar.at]
  /\ registrar.left \in Seq(Plugins) /\ registrar.at \in {"idle", "waits"}
  /\ registrar.at = "waits" => registrar.left # << >>
  /\ \A c \in Callers : Finds(calls[c])

\* The rest of a call: what was behind it before, or what it finds now.
LEMMA RestFinds ==
  ASSUME NEW todo \in Seq(Steps), todo # << >>, SearchedLast(todo)
  PROVE  /\ SearchedLast(Tail(todo))
         /\ Searched(Tail(todo)) => Head(todo) = "handle" \/ (Searched(todo) /\ Head(todo) \in {"unlock", "call"})
<1> DEFINE t == Tail(todo)
<1>1. /\ Head(todo) = todo[1] /\ todo[1] \in Steps /\ Len(todo) >= 1 /\ Len(todo) \in Nat
      /\ Len(t) = Len(todo) - 1 /\ \A i \in 1 .. Len(todo) - 1 : t[i] = todo[i + 1]
  BY TailFacts
<1> HIDE DEF t
<1>2. ASSUME NEW i \in 1 .. Len(t), t[i] = "call", NEW k \in 1..i, t[k] \in {"chip", "lock"}
      PROVE  \E j \in k..i : t[j] = "handle"
  <2>1. i + 1 \in 1 .. Len(todo) /\ todo[i + 1] = "call" /\ k + 1 \in 1 .. i + 1 /\ todo[k + 1] \in {"chip", "lock"}
    <3>1. i \in 1 .. Len(todo) - 1 /\ k \in 1 .. Len(todo) - 1 /\ k <= i
      BY <1>1, <1>2
    <3>2. todo[i + 1] = "call" /\ todo[k + 1] \in {"chip", "lock"}
      BY <1>1, <1>2, <3>1
    <3> QED BY <1>1, <3>1, <3>2
  <2>2. PICK j \in k + 1 .. i + 1 : todo[j] = "handle"
    BY <2>1 DEF SearchedLast
  <2>3. j - 1 \in k..i /\ j - 1 \in 1 .. Len(todo) - 1 /\ (j - 1) + 1 = j
    BY <1>1, <1>2, <2>2
  <2> QED BY <1>1, <2>2, <2>3
<1>3. SearchedLast(t)
  BY <1>2 DEF SearchedLast
<1>4. ASSUME Searched(t), todo[1] # "handle" PROVE Searched(todo) /\ todo[1] \in {"unlock", "call"}
  <2>1. PICK i \in 1 .. Len(t) : t[i] = "call" /\ \A j \in 1..i : t[j] # "handle"
    BY <1>4 DEF Searched
  <2>2. i + 1 \in 1 .. Len(todo) /\ todo[i + 1] = "call"
    BY <1>1, <2>1
  <2>3. ASSUME NEW j \in 1 .. i + 1 PROVE todo[j] # "handle"
    <3>1. CASE j = 1
      BY <1>4, <3>1
    <3>2. CASE j # 1
      <4>1. j - 1 \in 1..i /\ j - 1 \in 1 .. Len(todo) - 1 /\ (j - 1) + 1 = j
        BY <1>1, <2>1, <3>2
      <4> QED BY <1>1, <2>1, <4>1
    <3> QED BY <3>1, <3>2
  <2>4. Searched(todo)
    BY <2>2, <2>3 DEF Searched
  <2>5. todo[1] \notin {"chip", "lock"}
    <3>1. 1 \in 1 .. i + 1
      BY <2>2
    <3> QED BY <2>2, <2>3, <3>1 DEF SearchedLast
  <2> QED BY <1>1, <1>4, <2>4, <2>5 DEF Steps
<1> QED BY <1>1, <1>3, <1>4 DEF t

LEMMA ScriptsFind == \A s \in Scripts : SearchedLast(s) /\ ~Searched(s)
<1>1. SearchedLast(PlatformCall) /\ ~Searched(PlatformCall)
  <2>1. /\ Len(PlatformCall) = 6 /\ PlatformCall[3] = "handle"
        /\ \A i \in 1..6 : PlatformCall[i] = "call" => i >= 4
        /\ \A i \in 1..6 : PlatformCall[i] \in {"chip", "lock"} => i <= 3
    BY DEF PlatformCall
  <2> HIDE DEF PlatformCall
  <2> QED BY <2>1 DEF SearchedLast, Searched
<1>2. SearchedLast(UnitCall) /\ ~Searched(UnitCall)
  <2>1. /\ Len(UnitCall) = 11 /\ UnitCall[8] = "handle"
        /\ \A i \in 1..11 : UnitCall[i] = "call" => i >= 9
        /\ \A i \in 1..11 : UnitCall[i] \in {"chip", "lock"} => i <= 8
    BY DEF UnitCall
  <2> HIDE DEF UnitCall
  <2> QED BY <2>1 DEF SearchedLast, Searched
<1>3. SearchedLast(CapabilityCall) /\ ~Searched(CapabilityCall)
  <2>1. /\ Len(CapabilityCall) = 13 /\ CapabilityCall[9] = "handle"
        /\ \A i \in 1..13 : CapabilityCall[i] = "call" => i >= 10
        /\ \A i \in 1..13 : CapabilityCall[i] \in {"chip", "lock"} => i <= 9
    BY DEF CapabilityCall
  <2> HIDE DEF CapabilityCall
  <2> QED BY <2>1 DEF SearchedLast, Searched
<1> QED BY <1>1, <1>2, <1>3 DEF Scripts

LEMMA NothingFinds ==
  ASSUME NEW r, r.name \in DOMAIN Apis \cup {"none"}, r.todo \in Seq(Steps), \A i \in 1 .. Len(r.todo) : r.todo[i] # "call"
  PROVE  Finds(r)
  BY DEF Finds, SearchedLast, Searched

LEMMA NoCallFinds == ASSUME NEW n PROVE Finds([NoCall EXCEPT !.depth = n])
<1> DEFINE r == [NoCall EXCEPT !.depth = n]
<1>1. r.name = "none" /\ r.todo = << >>
  BY DEF NoCall
<1> HIDE DEF r
<1>2. r.todo \in Seq(Steps) /\ \A i \in 1 .. Len(r.todo) : r.todo[i] # "call"
  BY <1>1
<1>3. Finds(r)
  BY <1>1, <1>2, NothingFinds
<1> QED BY <1>3 DEF r

LEMMA CallerFinds ==
  ASSUME RedInv, FoundInv, NEW c \in Callers, CallerStep(c) \/ \E name \in MayCall[c] : Call(c, name)
  PROVE  \E r : Finds(r) /\ calls' = [calls EXCEPT ![c] = r]
<1> DEFINE r == calls[c]
           rest1 == Tail(r.todo)
           is == Head(r.todo)
           best == BestIn(plugins, r.chip, Apis[r.name].featureId)
<1>1. /\ c \in DOMAIN calls /\ CallKeeps(r) /\ Finds(r)
      /\ r = [name |-> r.name, todo |-> r.todo, depth |-> r.depth, chip |-> r.chip, handle |-> r.handle]
      /\ r.todo \in Seq(Steps) /\ r.name \in DOMAIN Apis \cup {"none"} /\ SearchedLast(r.todo)
      /\ Searched(r.todo) => r.handle = best
  BY DEF RedInv, FoundInv, CallKeeps, Finds
<1>2. r.todo # << >> =>
        /\ SearchedLast(rest1) /\ rest1 \in Seq(Steps)
        /\ Searched(rest1) => is = "handle" \/ (Searched(r.todo) /\ is \in {"unlock", "call"})
  BY <1>1, RestFinds, TailFacts
\* A step that leaves the chip, the function and the entry alone.
<1>3. ASSUME NEW q, NEW n, r.todo # << >>, is # "handle",
             q = [name |-> r.name, todo |-> rest1, depth |-> n, chip |-> r.chip, handle |-> r.handle]
      PROVE  Finds(q)
  <2>1. q.name = r.name /\ q.todo = rest1 /\ q.chip = r.chip /\ q.handle = r.handle
    BY <1>3
  <2>2. SearchedLast(rest1) /\ (Searched(rest1) => r.handle = best)
    BY <1>1, <1>2, <1>3
  <2> HIDE DEF r, rest1
  <2> QED BY <1>1, <2>1, <2>2 DEF Finds
<1>4. CASE RdLock(c)
  <2>1. r.todo # << >> /\ is = "lock" /\ calls' = [calls EXCEPT ![c].todo = rest1, ![c].depth = r.depth + 1]
    BY <1>4 DEF RdLock, Goes
  <2>2. PICK q : q = [r EXCEPT !.todo = rest1, !.depth = r.depth + 1]
    OBVIOUS
  <2>3. calls' = [calls EXCEPT ![c] = q]
    BY <1>1, <2>1, <2>2, CallsUpdated
  <2>4. q = [name |-> r.name, todo |-> rest1, depth |-> r.depth + 1, chip |-> r.chip, handle |-> r.handle]
    <3> HIDE DEF r, rest1
    <3> QED BY <1>1, <2>2, CallUpdated
  <2>5. Finds(q)
    <3> HIDE DEF r, rest1
    <3> QED BY <1>3, <2>1, <2>4
  <2> QED BY <2>3, <2>5
<1>5. CASE RdUnlock(c)
  <2>1. r.todo # << >> /\ is = "unlock"
        /\ calls' = [calls EXCEPT ![c] = IF Len(@.todo) = 1 THEN [NoCall EXCEPT !.depth = calls[c].depth - 1]
                                         ELSE [calls[c] EXCEPT !.todo = Tail(@), !.depth = @ - 1]]
    BY <1>5 DEF RdUnlock, Goes
  <2> DEFINE y == [r EXCEPT !.todo = rest1, !.depth = r.depth - 1]
             x == [NoCall EXCEPT !.depth = r.depth - 1]
  <2>2. calls' = [calls EXCEPT ![c] = IF Len(r.todo) = 1 THEN x ELSE y]
    BY <2>1
  <2>3. Finds(x)
    BY NoCallFinds
  <2>4. Finds(y)
    <3>0. PICK q : q = [r EXCEPT !.todo = rest1, !.depth = r.depth - 1]
      OBVIOUS
    <3>1. y = q /\ q = [name |-> r.name, todo |-> rest1, depth |-> r.depth - 1, chip |-> r.chip, handle |-> r.handle]
      <4>1. y = q
        BY <3>0
      <4> HIDE DEF r, rest1, y
      <4> QED BY <1>1, <3>0, <4>1, CallUpdated
    <3> HIDE DEF r, rest1, y
    <3> QED BY <1>3, <2>1, <3>1
  <2> HIDE DEF x, y, r
  <2> QED BY <2>2, <2>3, <2>4
<1>6. CASE PluginCall(c)
  <2>1. r.todo # << >> /\ is = "call"
        /\ calls' = [calls EXCEPT ![c] = IF Len(@.todo) = 1 THEN [NoCall EXCEPT !.depth = calls[c].depth]
                                         ELSE [calls[c] EXCEPT !.todo = Tail(@)]]
    BY <1>6 DEF PluginCall, Goes
  <2> DEFINE y == [r EXCEPT !.todo = rest1]
             x == [NoCall EXCEPT !.depth = r.depth]
  <2>2. calls' = [calls EXCEPT ![c] = IF Len(r.todo) = 1 THEN x ELSE y]
    BY <2>1
  <2>3. Finds(x)
    BY NoCallFinds
  <2>4. Finds(y)
    <3>0. PICK q : q = [r EXCEPT !.todo = rest1]
      OBVIOUS
    <3>1. y = q /\ q = [name |-> r.name, todo |-> rest1, depth |-> r.depth, chip |-> r.chip, handle |-> r.handle]
      <4>1. y = q
        BY <3>0
      <4> HIDE DEF r, rest1, y
      <4> QED BY <1>1, <3>0, <4>1, CallUpdated
    <3> HIDE DEF r, rest1, y
    <3> QED BY <1>3, <2>1, <3>1
  <2> HIDE DEF x, y, r
  <2> QED BY <2>2, <2>3, <2>4
<1>7. CASE HandleGet(c)
  <2>1. r.todo # << >> /\ is = "handle" /\ calls' = [calls EXCEPT ![c].todo = rest1, ![c].handle = best]
    BY <1>7, BestIsIn DEF HandleGet, Goes
  <2> HIDE DEF best
  <2>2. PICK q : q = [r EXCEPT !.todo = rest1, !.handle = best]
    OBVIOUS
  <2>3. calls' = [calls EXCEPT ![c] = q]
    BY <1>1, <2>1, <2>2, CallsUpdated
  <2>4. q = [name |-> r.name, todo |-> rest1, depth |-> r.depth, chip |-> r.chip, handle |-> best]
    <3> HIDE DEF r, rest1
    <3> QED BY <1>1, <2>2, CallUpdated
  <2>5. q.name = r.name /\ q.todo = rest1 /\ q.chip = r.chip /\ q.handle = best
    BY <2>4
  <2>6. Finds(q)
    <3>1. BestIn(plugins, q.chip, Apis[q.name].featureId) = best
      BY <2>5 DEF best
    <3> HIDE DEF rest1, r
    <3> QED BY <1>1, <1>2, <2>1, <2>5, <3>1 DEF Finds
  <2> QED BY <2>3, <2>6
<1>8. CASE UnitToAsicType(c)
  <2> DEFINE lost == [i \in 1 .. r.depth |-> "unlock"]
  <2>1. /\ r.todo # << >> /\ is = "chip"
        /\ \E left, chip :
             /\ left = rest1 \/ left = lost
             /\ calls' = [calls EXCEPT ![c] = [name |-> r.name, todo |-> left, depth |-> r.depth,
                                              chip |-> chip, handle |-> r.handle]]
    BY <1>1, <1>8, ChipFound
  <2>2. PICK left, chip :
          /\ left = rest1 \/ left = lost
          /\ calls' = [calls EXCEPT ![c] = [name |-> r.name, todo |-> left, depth |-> r.depth,
                                           chip |-> chip, handle |-> r.handle]]
    BY <2>1
  <2> DEFINE q == [name |-> r.name, todo |-> left, depth |-> r.depth, chip |-> chip, handle |-> r.handle]
  <2>4. calls' = [calls EXCEPT ![c] = q]
    BY <2>2
  <2>6. q.name = r.name /\ q.todo = left
    OBVIOUS
  <2> HIDE DEF q
  <2>7. SearchedLast(left) /\ ~Searched(left)
    <3>1. CASE left = lost
      <4>1. PICK d : LocksHeld(r.todo, r.depth, d)
        BY <1>1 DEF CallKeeps
      <4>2. r.depth \in Nat
        <5>1. Len(r.todo) \in Nat
          BY <1>1
        <5> QED BY <4>1, <5>1 DEF LocksHeld
      <4>3. Len(lost) = r.depth /\ \A i \in 1 .. r.depth : lost[i] = "unlock"
        BY <4>2
      <4> HIDE DEF lost, r
      <4> QED BY <3>1, <4>3 DEF SearchedLast, Searched
    <3>2. CASE left = rest1
      BY <1>2, <2>1, <3>2
    <3> QED BY <2>2, <3>1, <3>2
  <2>8. Finds(q)
    <3> HIDE DEF r
    <3> QED BY <1>1, <2>6, <2>7 DEF Finds
  <2> QED BY <2>4, <2>8
<1>9. ASSUME NEW name \in MayCall[c], Call(c, name)
      PROVE  \E q : Finds(q) /\ calls' = [calls EXCEPT ![c] = q]
  <2> DEFINE script == Apis[name].script
             q == [NoCall EXCEPT !.name = name, !.todo = script]
  <2>1. calls' = [calls EXCEPT ![c] = q]
    BY <1>9 DEF Call
  <2>2. name \in DOMAIN Apis
    BY RedirectorAssumption
  <2>3. SearchedLast(script) /\ ~Searched(script)
    BY <2>2, ApisScripted, ScriptsFind
  <2> HIDE DEF script
  <2>4. q = [name |-> name, todo |-> script, depth |-> 0, chip |-> AllChips, handle |-> NoEntry]
    BY NoCallUpdated
  <2> HIDE DEF q
  <2>5. q.name = name /\ q.todo = script
    BY <2>4
  <2>6. Finds(q)
    BY <2>2, <2>3, <2>5 DEF Finds
  <2> QED BY <2>1, <2>6
<1> QED BY <1>4, <1>5, <1>6, <1>7, <1>8, <1>9 DEF CallerStep

-----------------------------------------------------------------------------
\* A call that has searched keeps the lock, so that the list does not change.
LEMMA SearchedReads ==
  ASSUME NEW c \in Callers, CallKeeps(calls[c]), SearchedLast(calls[c].todo), Searched(calls[c].todo)
  PROVE  c \in Readers
<1> DEFINE todo == calls[c].todo
<1>1. todo \in Seq(Steps) /\ Len(todo) \in Nat
  BY DEF CallKeeps
<1>2. PICK d : LocksHeld(todo, calls[c].depth, d)
  BY DEF CallKeeps
<1>3. PICK i \in 1 .. Len(todo) : todo[i] = "call" /\ \A j \in 1..i : todo[j] # "handle"
  BY DEF Searched
<1>4. 1 \in 1..i /\ 1 \in 1 .. Len(todo) /\ todo[1] \in Steps
  BY <1>1, <1>3
<1>5. todo[1] \notin {"chip", "lock"}
  BY <1>3, <1>4 DEF SearchedLast
<1>6. todo[1] \in {"unlock", "call"}
  BY <1>3, <1>4, <1>5 DEF Steps
<1>7. d[1] = calls[c].depth /\ d[1] \in 0..3 /\ d[2] \in 0..3 /\ (todo[1] = "unlock" => d[1] = d[2] + 1) /\ (todo[1] = "call" => d[1] >= 1)
  <2>1. 1 \in 1 .. Len(todo) + 1 /\ 2 \in 1 .. Len(todo) + 1 /\ 1 + 1 = 2
    BY <1>1, <1>4
  <2> HIDE DEF todo
  <2> QED BY <1>2, <1>4, <2>1 DEF LocksHeld
<1>8. calls[c].depth > 0
  BY <1>6, <1>7
<1> QED BY <1>8 DEF Readers

LEMMA FoundStep == RedInv /\ FoundInv /\ [RedNext]_redVars => FoundInv'
<1> SUFFICES ASSUME RedInv, FoundInv, [RedNext]_redVars PROVE FoundInv'
  OBVIOUS
<1>1. CASE UNCHANGED redVars
  BY <1>1 DEF FoundInv, redVars, Finds
<1>2. ASSUME NEW c \in Callers, CallerStep(c) \/ \E name \in MayCall[c] : Call(c, name)
      PROVE  FoundInv'
  <2>1. UNCHANGED <<plugins, registrar>>
    BY <1>2 DEF CallerStep, RdLock, RdUnlock, UnitToAsicType, HandleGet, PluginCall, Call
  <2>2. PICK r : Finds(r) /\ calls' = [calls EXCEPT ![c] = r]
    BY <1>2, CallerFinds
  <2>3. \A b \in Callers : calls'[b] = IF b = c THEN r ELSE calls[b]
    BY <2>2 DEF RedInv
  <2>4. \A b \in Callers : Finds(calls'[b])
    BY <2>2, <2>3 DEF FoundInv
  <2>5. \A b \in Callers : Finds(calls[b])'
    BY <2>1, <2>4 DEF Finds
  <2> QED BY <2>1, <2>5 DEF FoundInv
<1>3. CASE RegisterWait
  <2>1. UNCHANGED <<plugins, calls>> /\ registrar' = [registrar EXCEPT !.at = "waits"] /\ registrar.left # << >>
    BY <1>3 DEF RegisterWait
  <2>2. \A b \in Callers : Finds(calls[b])'
    BY <2>1 DEF FoundInv, Finds
  <2>3. registrar' = [left |-> registrar.left, at |-> "waits"]
    <3>1. registrar = [left |-> registrar.left, at |-> registrar.at]
      BY DEF FoundInv
    <3> DEFINE left == registrar.left
               at == registrar.at
    <3>2. registrar = [left |-> left, at |-> at]
      BY <3>1
    <3> HIDE DEF left, at
    <3>3. registrar' = [left |-> left, at |-> "waits"]
      BY <2>1, <3>2
    <3> QED BY <3>3 DEF left
  <2> QED BY <2>1, <2>2, <2>3 DEF FoundInv
<1>4. CASE RegisterInvalid
  <2>1. UNCHANGED <<plugins, calls>> /\ registrar' = [registrar EXCEPT !.left = Tail(@)] /\ registrar.left # << >>
        /\ registrar.at = "idle"
    BY <1>4 DEF RegisterInvalid
  <2>2. \A b \in Callers : Finds(calls[b])'
    BY <2>1 DEF FoundInv, Finds
  <2>3. registrar' = [left |-> Tail(registrar.left), at |-> registrar.at]
    <3>1. registrar = [left |-> registrar.left, at |-> registrar.at]
      BY DEF FoundInv
    <3> DEFINE left == registrar.left
               at == registrar.at
               rest1 == Tail(registrar.left)
    <3>2. registrar = [left |-> left, at |-> at] /\ registrar' = [registrar EXCEPT !.left = rest1]
      BY <2>1, <3>1
    <3> HIDE DEF left, at, rest1
    <3>3. registrar' = [left |-> rest1, at |-> at]
      BY <3>2
    <3> QED BY <3>3 DEF at, rest1
  <2>4. Tail(registrar.left) \in Seq(Plugins)
    BY <2>1, TailFacts DEF FoundInv
  <2> QED BY <2>1, <2>2, <2>3, <2>4 DEF FoundInv
<1>5. CASE Register
  <2>1. UNCHANGED calls /\ Readers = {} /\ registrar' = [left |-> Tail(registrar.left), at |-> "idle"] /\ registrar.at = "waits"
        /\ plugins' = IF Len(plugins) < MaxPlugins THEN Append(plugins, Head(registrar.left)) ELSE plugins
    BY <1>5 DEF Register
  <2>2. registrar.left \in Seq(Plugins) /\ registrar.left # << >> /\ plugins \in Seq(Plugins) /\ Len(plugins) <= MaxPlugins
    BY <2>1 DEF FoundInv
  <2>3. Tail(registrar.left) \in Seq(Plugins) /\ Head(registrar.left) \in Plugins
    BY <2>2, TailFacts
  <2>4. Len(Append(plugins, Head(registrar.left))) = Len(plugins) + 1 /\ Append(plugins, Head(registrar.left)) \in Seq(Plugins)
    BY <2>2, <2>3, AppendFacts
  <2>5. plugins' \in Seq(Plugins) /\ Len(plugins') <= MaxPlugins
    BY <2>1, <2>2, <2>4, RedirectorAssumption
  <2>6. \A b \in Callers : ~Searched(calls[b].todo) /\ Finds(calls[b])
    BY <2>1, SearchedReads DEF RedInv, FoundInv, Finds
  <2>7. \A b \in Callers : Finds(calls[b])'
    BY <2>1, <2>6 DEF Finds, Searched, SearchedLast
  <2> QED BY <2>1, <2>3, <2>5, <2>7 DEF FoundInv
<1> QED BY <1>1, <1>2, <1>3, <1>4, <1>5 DEF RedNext

LEMMA FoundInitial == RedInit => FoundInv
<1> SUFFICES ASSUME RedInit PROVE FoundInv
  OBVIOUS
<1>1. Registrations \in Seq(Plugins) /\ Registrations # << >> /\ Len(Registrations) >= 1 /\ Registrations[1] \in Plugins
  <2>1. Registrations \in Seq(Plugins) /\ Registrations # << >>
    BY RedirectorAssumption DEF Plugins
  <2> QED BY <2>1, TailFacts
<1>2. plugins = <<Registrations[1]>> /\ registrar = [left |-> Tail(Registrations), at |-> "idle"]
      /\ \A c \in Callers : calls[c] = NoCall
  BY DEF RedInit
<1>3. plugins \in Seq(Plugins) /\ Len(plugins) = 1
  <2>1. ASSUME NEW S, NEW m \in S PROVE <<m>> \in Seq(S) /\ Len(<<m>>) = 1
    OBVIOUS
  <2> QED BY <1>1, <1>2, <2>1
<1>4. Tail(Registrations) \in Seq(Plugins)
  BY <1>1, TailFacts
<1>5. Finds(NoCall)
  <2>1. [NoCall EXCEPT !.depth = 0] = NoCall
    BY NoCallUpdated
  <2> QED BY <2>1, NoCallFinds
<1> QED BY <1>2, <1>3, <1>4, <1>5, RedirectorAssumption DEF FoundInv

-----------------------------------------------------------------------------
(* The entry that is found: the first of those that fit, plug-in by         *)
(* plug-in.                                                                 *)

LEMMA PlacesAre ==
  ASSUME FoundInv, NEW f
  PROVE  /\ Entries(f) \subseteq Nat \X Nat /\ IsFiniteSet(Entries(f))
         /\ OfFeature(f) = {EntryAt(x) : x \in Entries(f)}
<1> DEFINE listed == UNION {{p} \X DOMAIN plugins[p].features : p \in DOMAIN plugins}
<1>1. plugins \in Seq(Plugins) /\ DOMAIN plugins = 1 .. Len(plugins) /\ Len(plugins) \in Nat
  BY DEF FoundInv
<1>2. ASSUME NEW p \in DOMAIN plugins
      PROVE  DOMAIN plugins[p].features \subseteq Nat /\ IsFiniteSet(DOMAIN plugins[p].features)
  <2>1. PICK r \in DOMAIN Registrations : plugins[p] = Registrations[r]
    BY <1>1 DEF Plugins
  <2> DEFINE fs == Registrations[r].features
             S == {fs[i] : i \in DOMAIN fs}
  <2>2. fs \in Seq(S)
    BY RedirectorAssumption
  <2> HIDE DEF S
  <2>3. DOMAIN fs = 1 .. Len(fs) /\ Len(fs) \in Nat
    BY <2>2
  <2> QED BY <2>1, <2>3, FS_Interval
<1>3. listed \subseteq Nat \X Nat
  BY <1>1, <1>2
<1>4. IsFiniteSet(listed)
  <2>1. ASSUME NEW p \in DOMAIN plugins PROVE IsFiniteSet({p} \X DOMAIN plugins[p].features)
    BY <1>2, FS_Product, FS_Singleton
  <2>2. IsFiniteSet({{p} \X DOMAIN plugins[p].features : p \in DOMAIN plugins})
    <3> DEFINE S == DOMAIN plugins
               T == {{p} \X DOMAIN plugins[p].features : p \in S}
               g == [p \in S |-> {p} \X DOMAIN plugins[p].features]
    <3>1. IsFiniteSet(S)
      BY <1>1, FS_Interval
    <3>2. g \in Surjection(S, T)
      BY DEF Surjection
    <3> HIDE DEF S, T, g
    <3>3. IsFiniteSet(T)
      BY <3>1, <3>2, FS_Surjection
    <3> QED BY <3>3 DEF S, T
  <2> QED BY <2>1, <2>2, FS_UNION
<1>5. Entries(f) \subseteq listed
  BY DEF Entries
<1>6. IsFiniteSet(Entries(f))
  BY <1>4, <1>5, FS_Subset
<1>7. OfFeature(f) = {EntryAt(x) : x \in Entries(f)}
  <2>1. ASSUME NEW e \in OfFeature(f) PROVE \E x \in Entries(f) : e = EntryAt(x)
    <3>1. PICK p \in DOMAIN plugins : e \in ToSet(plugins[p].features)
      BY DEF OfFeature
    <3>2. PICK i \in DOMAIN plugins[p].features : e = plugins[p].features[i]
      BY <3>1 DEF ToSet
    <3>3. EntryAt(<<p, i>>) = e /\ <<p, i>> \in listed /\ e.featureId = f
      BY <3>2 DEF EntryAt, OfFeature
    <3> QED BY <3>3 DEF Entries
  <2>2. ASSUME NEW x \in Entries(f) PROVE EntryAt(x) \in OfFeature(f)
    <3>1. PICK p \in DOMAIN plugins : x \in {p} \X DOMAIN plugins[p].features
      BY DEF Entries
    <3>2. EntryAt(x) \in ToSet(plugins[p].features)
      BY <3>1 DEF EntryAt, ToSet
    <3> QED BY <3>2 DEF OfFeature, Entries
  <2> QED BY <2>1, <2>2
<1> QED BY <1>3, <1>5, <1>6, <1>7

LEMMA FirstIsOne ==
  ASSUME NEW places \in SUBSET (Nat \X Nat), places # {}
  PROVE  First1(places) \in places
<1> DEFINE A == {x[1] : x \in places}
<1>1. A \in SUBSET Nat /\ A # {}
  OBVIOUS
<1>2. PICK a \in A : \A b \in A : a <= b
  BY <1>1, LeastExists
<1> DEFINE B == {x[2] : x \in {y \in places : y[1] = a}}
<1>3. B \in SUBSET Nat /\ B # {}
  BY <1>2
<1>4. PICK b \in B : \A c \in B : b <= c
  BY <1>3, LeastExists
<1>5. PICK x \in places : x[1] = a /\ x[2] = b
  BY <1>4
<1>6. ASSUME NEW y \in places PROVE ~Earlier(y, x)
  <2>1. y[1] \in A /\ y[1] \in Nat /\ y[2] \in Nat /\ a \in Nat /\ b \in Nat /\ a <= y[1]
    BY <1>1, <1>2, <1>3
  <2>2. y[1] = a => b <= y[2]
    BY <1>4
  <2> QED BY <1>5, <2>1, <2>2 DEF Earlier
<1> QED BY <1>5, <1>6 DEF First1

LEMMA AtMostOne ==
  ASSUME NEW S, IsFiniteSet(S), Cardinality(S) <= 1, NEW x \in S, NEW y \in S
  PROVE  x = y
<1>1. SUFFICES ASSUME x # y PROVE FALSE
  OBVIOUS
<1>2. IsFiniteSet({x}) /\ Cardinality({x}) = 1
  BY FS_Singleton
<1>3. Cardinality({x} \cup {y}) = 2
  BY <1>1, <1>2, FS_AddElement
<1>4. Cardinality({x} \cup {y}) <= Cardinality(S) /\ Cardinality(S) \in Nat
  BY FS_Subset, FS_CardinalityType
<1> QED BY <1>3, <1>4

LEMMA FoundMeans == RedInv /\ FoundInv => RedTypeOK /\ BestMatch
<1> SUFFICES ASSUME RedInv, FoundInv PROVE RedTypeOK /\ BestMatch
  OBVIOUS
<1>1. ASSUME NEW c \in Callers PROVE calls[c].depth \in 0..3
  <2>1. CallKeeps(calls[c])
    BY DEF RedInv
  <2>2. PICK d : LocksHeld(calls[c].todo, calls[c].depth, d)
    BY <2>1 DEF CallKeeps
  <2>3. Len(calls[c].todo) \in Nat
    BY <2>1 DEF CallKeeps
  <2> QED BY <2>2, <2>3 DEF LocksHeld
<1>2. RedTypeOK
  BY <1>1 DEF RedTypeOK, FoundInv, Finds
<1>3. ASSUME NEW c \in Callers, Goes(c, "call")
      PROVE  LET f == Apis[calls[c].name].featureId
                 es == OfFeature(f)
                 exact == {e \in es : calls[c].chip \in e.mask /\ AllChips \notin e.mask}
                 all == {e \in es : AllChips \in e.mask}
             IN Cardinality({x \in Entries(f) : AllChips \in EntryAt(x).mask}) <= 1 =>
                  calls[c].handle \in (IF exact # {} THEN exact ELSE IF all # {} THEN all ELSE {NoEntry})
  <2> DEFINE f == Apis[calls[c].name].featureId
             chip == calls[c].chip
             P == Entries(f)
             A == {x \in P : AllChips \in EntryAt(x).mask}
             X == {x \in P : chip \in EntryAt(x).mask /\ AllChips \notin EntryAt(x).mask}
             firsts == {x \in P : IF x \in A THEN \E y \in A : Earlier(y, x) ELSE chip \in EntryAt(x).mask}
  <2> SUFFICES ASSUME Cardinality(A) <= 1
               PROVE  LET es == OfFeature(f)
                          exact == {e \in es : chip \in e.mask /\ AllChips \notin e.mask}
                          all == {e \in es : AllChips \in e.mask}
                      IN calls[c].handle \in (IF exact # {} THEN exact ELSE IF all # {} THEN all ELSE {NoEntry})
    OBVIOUS
  <2>1. calls[c].handle = FeatureHandleGet(chip, f)
    <3>1. calls[c].todo \in Seq(Steps) /\ calls[c].todo # << >> /\ Head(calls[c].todo) = "call"
      BY <1>3 DEF RedInv, CallKeeps, Goes
    <3>2. 1 \in 1 .. Len(calls[c].todo) /\ calls[c].todo[1] = "call"
      BY <3>1, TailFacts
    <3>3. Searched(calls[c].todo)
      BY <3>2 DEF Searched
    <3> QED BY <3>3, BestIsIn DEF FoundInv, Finds
  <2>2. P \subseteq Nat \X Nat /\ IsFiniteSet(P) /\ OfFeature(f) = {EntryAt(x) : x \in P}
    BY PlacesAre
  <2>3. \A x, y \in A : x = y
    BY <2>2, FS_Subset, AtMostOne
  <2>4. firsts = X
    <3>1. ASSUME NEW x \in A, NEW y \in A PROVE ~Earlier(y, x)
      <4>1. x = y /\ x[1] \in Nat /\ x[2] \in Nat
        BY <2>2, <2>3
      <4> QED BY <4>1 DEF Earlier
    <3> QED BY <3>1
  <2>5. FeatureHandleGet(chip, f) = EntryOf(IF firsts # {} THEN firsts ELSE A)
    BY DEF FeatureHandleGet, BestEntry
  <2>6. X \in SUBSET (Nat \X Nat) /\ A \in SUBSET (Nat \X Nat)
    BY <2>2
  <2>7. X # {} => First1(X) \in X
    BY <2>6, FirstIsOne
  <2>8. A # {} => First1(A) \in A
    BY <2>6, FirstIsOne
  <2> HIDE DEF firsts, P
  <2>9. CASE X # {}
    <3>1. calls[c].handle = EntryAt(First1(X)) /\ First1(X) \in X
      BY <2>1, <2>4, <2>5, <2>7, <2>9 DEF EntryOf
    <3> QED BY <2>2, <3>1
  <2>10. CASE X = {} /\ A # {}
    <3>1. calls[c].handle = EntryAt(First1(A)) /\ First1(A) \in A
      BY <2>1, <2>4, <2>5, <2>8, <2>10 DEF EntryOf
    <3> QED BY <2>2, <2>10, <3>1
  <2>11. CASE X = {} /\ A = {}
    <3>1. calls[c].handle = NoEntry
      BY <2>1, <2>4, <2>5, <2>11 DEF EntryOf
    <3> QED BY <2>2, <2>11, <3>1
  <2> QED BY <2>9, <2>10, <2>11
<1> QED BY <1>2, <1>3 DEF BestMatch

-----------------------------------------------------------------------------
(* The start: every queue within its size, and the counters of the model.   *)

QueueLen == \A q \in Queues : sysv[q] = Absent \/ Len(sysv[q]) <= MsgQueueSize
Counted(n, most) == n \in Nat /\ n <= most
StBounds ==
  /\ QueueLen /\ callback \in BOOLEAN /\ kept \cup refused \subseteq Queues /\ rest \in {"off", "up", "failed"}
  /\ Counted(run, MaxRuns) /\ Counted(failures, MaxFailures) /\ Counted(asked, MaxAsked)

\* What a step does to a queue: nothing, a new one, none, one message more
\* where there is room, or one less.
QueueMoves(q) ==
  \/ sysv'[q] \in {sysv[q], << >>, Absent}
  \/ Holds(q) /\ Len(sysv[q]) < MsgQueueSize /\ sysv'[q] = Append(sysv[q], run)
  \/ Holds(q) /\ sysv[q] # << >> /\ sysv'[q] = Tail(sysv[q])

LEMMA QueuesBounded ==
  ASSUME StInv, QueueLen, \A q \in Queues : QueueMoves(q)
  PROVE  QueueLen'
<1> SUFFICES ASSUME NEW q \in Queues PROVE sysv'[q] = Absent \/ Len(sysv'[q]) <= MsgQueueSize
  BY DEF QueueLen
<1>1. MsgQueueSize \in Nat /\ (sysv[q] = Absent \/ sysv[q] \in Seq(1..run)) /\ run \in Nat \ {0}
      /\ (sysv[q] = Absent \/ Len(sysv[q]) <= MsgQueueSize)
  BY StartupAssumption DEF StInv, StType, QueueLen
<1>2. CASE sysv'[q] \in {sysv[q], << >>, Absent}
  BY <1>1, <1>2
<1>3. CASE Holds(q) /\ Len(sysv[q]) < MsgQueueSize /\ sysv'[q] = Append(sysv[q], run)
  <2>1. sysv[q] \in Seq(1..run) /\ run \in 1..run
    BY <1>1, <1>3 DEF Holds
  <2>2. Len(sysv'[q]) = Len(sysv[q]) + 1 /\ Len(sysv[q]) \in Nat
    BY <1>3, <2>1, AppendFacts
  <2> QED BY <1>1, <1>3, <2>2
<1>4. CASE Holds(q) /\ sysv[q] # << >> /\ sysv'[q] = Tail(sysv[q])
  <2>1. sysv[q] \in Seq(1..run)
    BY <1>1, <1>4 DEF Holds
  <2>2. Len(sysv'[q]) = Len(sysv[q]) - 1 /\ Len(sysv[q]) \in Nat
    BY <1>4, <2>1, TailFacts
  <2> QED BY <1>1, <1>4, <2>2 DEF Holds
<1> QED BY <1>2, <1>3, <1>4 DEF QueueMoves

LEMMA UndoneMoves ==
  ASSUME NEW left, \A q \in Queues : left[q] \in {sysv[q], Absent}, NEW apps, UndoneFrom(left, apps)
  PROVE  \A q \in Queues : QueueMoves(q)
<1>1. PICK remade : sysv' = [q \in Queues |-> IF q \in remade THEN << >> ELSE left[q]]
  BY DEF UndoneFrom
<1> QED BY <1>1 DEF QueueMoves

LEMMA SameQueues == sysv' = sysv => \A q \in Queues : QueueMoves(q)
  BY DEF QueueMoves

\* One queue that is made, removed, posted to or read.
LEMMA OneQueueMoves ==
  ASSUME StInv, NEW p \in Queues, NEW s, sysv' = [sysv EXCEPT ![p] = s],
         \/ s \in {<< >>, Absent}
         \/ Holds(p) /\ Len(sysv[p]) < MsgQueueSize /\ s = Append(sysv[p], run)
         \/ Holds(p) /\ sysv[p] # << >> /\ s = Tail(sysv[p])
  PROVE  \A q \in Queues : QueueMoves(q)
<1>1. DOMAIN sysv = Queues
  BY DEF StInv, StType
<1>2. sysv'[p] = s /\ \A q \in Queues \ {p} : sysv'[q] = sysv[q]
  BY <1>1
<1> QED BY <1>2 DEF QueueMoves

LEMMA QueueStepMoves ==
  ASSUME StInv, QueueStep
  PROVE  /\ \A q \in Queues : QueueMoves(q)
         /\ \E q \in Queues : kept' \subseteq kept \cup {q} /\ refused' \subseteq refused \cup {q}
<1> DEFINE a == Starting
           q == QueueToMake
<1>1. DOMAIN sysv = Queues /\ a \in Queues /\ q \in Queues
  <2>1. a \in Modules
    BY StepFacts DEF QueueStep, StInv
  <2>2. DOMAIN sysv = Queues
    BY DEF StInv, StType
  <2> HIDE DEF a
  <2> QED BY <2>1, <2>2 DEF Queues, QueueToMake, a
<1> HIDE DEF a, q
<1>2. \/ MsgGet(q) /\ UNCHANGED refused
      \/ MsgGetRefused(q)
      \/ FoundAndLost(a, q)
  BY DEF QueueStep, a, q
<1>3. CASE MsgGet(q) /\ UNCHANGED refused
  <2>1. CASE sysv' = [sysv EXCEPT ![q] = << >>] /\ UNCHANGED kept
    BY <1>1, <1>3, <2>1, OneQueueMoves
  <2>2. CASE sysv' = sysv /\ kept' = kept \cup {q}
    BY <1>1, <1>3, <2>2, SameQueues
  <2> QED BY <1>3, <2>1, <2>2 DEF MsgGet
<1>4. CASE MsgGetRefused(q)
  BY <1>1, <1>4, SameQueues DEF MsgGetRefused
<1>5. CASE FoundAndLost(a, q)
  <2>1. kept' = kept /\ refused' = refused
    BY <1>5 DEF FoundAndLost
  <2>2. CASE sysv' = sysv
    BY <1>1, <2>1, <2>2, SameQueues
  <2>3. CASE sysv' = [sysv EXCEPT ![q] = << >>]
    BY <1>1, <2>1, <2>3, OneQueueMoves
  <2>4. CASE \E left \in {sysv, [sysv EXCEPT ![q] = Absent]} : UndoneFrom(left, {a})
    <3>1. PICK left \in {sysv, [sysv EXCEPT ![q] = Absent]} : UndoneFrom(left, {a})
      BY <2>4
    <3>2. \A p \in Queues : left[p] \in {sysv[p], Absent}
      BY <1>1, <3>1
    <3>3. \A p \in Queues : QueueMoves(p)
      BY <3>1, <3>2, UndoneMoves
    <3> QED BY <1>1, <2>1, <3>3
  <2> QED BY <1>5, <2>2, <2>3, <2>4 DEF FoundAndLost
<1> QED BY <1>2, <1>3, <1>4, <1>5

LEMMA MainBounds == StInv /\ StBounds /\ MainStep => StBounds'
<1> SUFFICES ASSUME StInv, StBounds, MainStep PROVE StBounds'
  OBVIOUS
<1>1. UNCHANGED <<callback, run, asked>> /\ (Fine \/ Fails)
  BY DEF MainStep, MemoryStep, ConfigStep, QueueStep, ThreadStep, TriggerThreadStep, RestStep, MsgGet, MsgGetRefused, FoundAndLost
<1>2. Counted(failures, MaxFailures)'
  BY <1>1, StartupAssumption DEF Fine, Fails, StBounds, Counted
<1>3. rest' \in {"off", "up", "failed"}
  BY DEF MainStep, MemoryStep, ConfigStep, QueueStep, ThreadStep, TriggerThreadStep, RestStep, StBounds
<1>4. (\A q \in Queues : QueueMoves(q)) /\ kept' \cup refused' \subseteq Queues
  <2>1. CASE QueueStep
    BY <2>1, QueueStepMoves DEF StBounds
  <2>2. CASE MemoryStep
    <3>1. UNCHANGED <<kept, refused>> /\ (UNCHANGED sysv \/ \E apps : UndoneFrom(sysv, apps))
      BY <2>2 DEF MemoryStep, Undone
    <3> QED BY <3>1, SameQueues, UndoneMoves DEF StBounds
  <2>3. CASE RestStep
    <3>1. UNCHANGED <<kept, refused>> /\ (UNCHANGED sysv \/ \E apps : UndoneFrom(sysv, apps))
      BY <2>3 DEF RestStep, Undone
    <3> QED BY <3>1, SameQueues, UndoneMoves DEF StBounds
  <2>4. CASE ConfigStep \/ ThreadStep \/ TriggerThreadStep
    <3>1. UNCHANGED <<kept, refused, sysv>>
      BY <2>4 DEF ConfigStep, ThreadStep, TriggerThreadStep
    <3> QED BY <3>1, SameQueues DEF StBounds
  <2> QED BY <2>1, <2>2, <2>3, <2>4 DEF MainStep
<1>5. QueueLen'
  BY <1>4, QueuesBounded DEF StBounds
<1> QED BY <1>1, <1>2, <1>3, <1>4, <1>5 DEF StBounds, Counted

LEMMA StBoundsStep == StInv /\ StBounds /\ [StartupNext]_startVars => StBounds'
<1> SUFFICES ASSUME StInv, StBounds, [StartupNext]_startVars PROVE StBounds'
  OBVIOUS
<1>1. QueueLen /\ callback \in BOOLEAN /\ kept \cup refused \subseteq Queues /\ rest \in {"off", "up", "failed"}
      /\ Counted(run, MaxRuns) /\ Counted(failures, MaxFailures) /\ Counted(asked, MaxAsked)
  BY DEF StBounds
<1>2. ASSUME UNCHANGED <<kept, refused, rest, run>>, callback' \in BOOLEAN, Counted(failures, MaxFailures)', Counted(asked, MaxAsked)',
             \A q \in Queues : QueueMoves(q)
      PROVE  StBounds'
  BY <1>1, <1>2, QueuesBounded DEF StBounds, Counted
<1>3. CASE MainStep
  BY <1>3, MainBounds
<1>4. ASSUME NEW a \in Modules, ModuleSearch(a) \/ ModuleEnter(a) PROVE StBounds'
  <2>1. UNCHANGED <<kept, refused, rest, run, callback, failures, asked, sysv>>
    BY <1>4 DEF ModuleSearch, ModuleEnter
  <2> QED BY <1>1, <1>2, <2>1, SameQueues DEF Counted
<1>5. ASSUME NEW a \in Modules, Prepare(a) PROVE StBounds'
  <2>1. UNCHANGED <<kept, refused, rest, run, asked, sysv>> /\ (Fine \/ Fails) /\ callback' \in BOOLEAN
    BY <1>1, <1>5 DEF Prepare
  <2>2. Counted(failures, MaxFailures)'
    BY <1>1, <2>1, StartupAssumption DEF Fine, Fails, Counted
  <2> QED BY <1>1, <1>2, <2>1, <2>2, SameQueues DEF Counted
<1>6. ASSUME NEW a \in Modules, Serve(a) PROVE StBounds'
  <2>1. UNCHANGED <<kept, refused, rest, run, callback, failures, asked>> /\ Holds(a) /\ sysv[a] # << >> /\ a \in Queues
        /\ sysv' = [sysv EXCEPT ![a] = Tail(sysv[a])]
    BY <1>6 DEF Serve, Queues
  <2>2. \A q \in Queues : QueueMoves(q)
    BY <2>1, OneQueueMoves
  <2> QED BY <1>1, <1>2, <2>1, <2>2 DEF Counted
<1>7. ASSUME NEW p \in Queues, Room(p), asked < MaxAsked, asked' = asked + 1, Post(p),
             UNCHANGED <<kept, refused, rest, run, callback, failures>>
      PROVE  StBounds'
  <2>1. \A q \in Queues : QueueMoves(q)
    BY <1>7, OneQueueMoves DEF Room, Post
  <2>2. Counted(asked, MaxAsked)'
    BY <1>1, <1>7, StartupAssumption DEF Counted
  <2> QED BY <1>1, <1>2, <1>7, <2>1, <2>2 DEF Counted
<1>8. ASSUME NEW a \in Modules, RestRequest(a) PROVE StBounds'
  BY <1>7, <1>8 DEF RestRequest, Queues
<1>9. CASE SwitchTrigger
  BY <1>7, <1>9 DEF SwitchTrigger, Queues
<1>10. CASE TriggerServed
  <2> DEFINE t == sysv["trigger"]
             b == sysv["bst"]
  <2>1. /\ UNCHANGED <<kept, refused, rest, run, callback, failures, asked>> /\ "trigger" \in Queues /\ Holds("trigger") /\ t # << >>
        /\ \/ Room("bst") /\ sysv' = [sysv EXCEPT !["trigger"] = Tail(t), !["bst"] = Append(b, run)]
           \/ sysv' = [sysv EXCEPT !["trigger"] = Tail(t)]
    BY <1>10 DEF TriggerServed, Queues
  <2>2. DOMAIN sysv = Queues
    BY DEF StInv, StType
  <2>3. \A q \in Queues : QueueMoves(q)
    <3>1. CASE sysv' = [sysv EXCEPT !["trigger"] = Tail(t)]
      BY <2>1, <3>1, OneQueueMoves
    <3>2. CASE Room("bst") /\ sysv' = [sysv EXCEPT !["trigger"] = Tail(t), !["bst"] = Append(b, run)]
      <4>1. /\ sysv'["trigger"] = Tail(t) /\ ("bst" \in Queues => sysv'["bst"] = Append(b, run))
            /\ \A q \in Queues \ {"trigger", "bst"} : sysv'[q] = sysv[q]
        BY <2>1, <2>2, <3>2
      <4> QED BY <2>1, <3>2, <4>1 DEF QueueMoves, Room
    <3> QED BY <2>1, <3>1, <3>2
  <2> QED BY <1>1, <1>2, <2>1, <2>3 DEF Counted
<1>11. CASE Restart
  <2>1. callback' = FALSE /\ rest' = "off" /\ kept' = {} /\ refused' = {} /\ asked' = 0 /\ sysv' = sysv /\ failures' = 0
        /\ run < MaxRuns /\ run' = run + 1
    BY <1>11 DEF Restart
  <2>2. QueueLen'
    BY <1>1, <2>1, SameQueues, QueuesBounded
  <2>3. callback' \in BOOLEAN /\ kept' \cup refused' \subseteq Queues' /\ rest' \in {"off", "up", "failed"}
    BY <2>1
  <2>4. Counted(run, MaxRuns)' /\ Counted(failures, MaxFailures)' /\ Counted(asked, MaxAsked)'
    BY <1>1, <2>1, StartupAssumption DEF Counted
  <2> QED BY <2>2, <2>3, <2>4 DEF StBounds
<1>12. CASE UNCHANGED startVars
  <2>1. UNCHANGED <<kept, refused, rest, run, callback, failures, asked, sysv>>
    BY <1>12 DEF startVars
  <2> QED BY <1>1, <1>2, <2>1, SameQueues DEF Counted
<1>13. ASSUME NEW a \in Modules, AppStep(a) PROVE StBounds'
  BY <1>4, <1>5, <1>6, <1>13 DEF AppStep
<1>14. ASSUME NEW q \in Queues, ReadsFail(q) PROVE StBounds'
  <2>1. UNCHANGED <<kept, refused, rest, run, callback, failures, asked, sysv>>
    BY <1>14 DEF ReadsFail
  <2> QED BY <1>1, <1>2, <2>1, SameQueues DEF Counted
<1> QED BY <1>3, <1>8, <1>9, <1>10, <1>11, <1>12, <1>13, <1>14 DEF StartupNext

LEMMA StBoundsInitial == ASSUME NEW m, StartsWith(m) PROVE StBounds
<1>1. /\ callback = FALSE /\ rest = "off" /\ kept = {} /\ refused = {} /\ asked = 0 /\ run = 1 /\ failures = 0
      /\ \A q \in Queues : sysv[q] = Absent
  BY DEF StartsWith
<1>2. Counted(run, MaxRuns) /\ Counted(failures, MaxFailures) /\ Counted(asked, MaxAsked)
  BY <1>1, StartupAssumption DEF Counted
<1> QED BY <1>1, <1>2 DEF StBounds, QueueLen

LEMMA StBoundsMean == StInv /\ StBounds => StartupTypeOK
<1> SUFFICES ASSUME StInv, StBounds PROVE StartupTypeOK
  OBVIOUS
<1>1. main.at < AllStarted => main.step \in DOMAIN StepsOf(Starting)
  <2>1. ASSUME NEW a PROVE DOMAIN StepsOf(a) = 1 .. Len(StepsOf(a))
    <3>1. \/ StepsOf(a) = <<"memory", "config", "queue", "thread", "triggerQueue", "triggerThread">>
          \/ StepsOf(a) = <<"rest">>
          \/ StepsOf(a) = <<"memory", "config", "queue", "thread">>
      BY DEF StepsOf, QueueThenThread
    <3> QED BY <3>1
  <2>2. main.at < 6 => main.step <= Len(StepsOf(Starting)) /\ main.step \in 1..6 /\ Len(StepsOf(Starting)) \in 1..6
    BY OrderFacts DEF StInv, StType
  <2> QED BY <2>1, <2>2 DEF AllStarted
<1>2. ASSUME NEW q \in Queues PROVE sysv[q] = Absent \/ (Len(sysv[q]) <= MsgQueueSize /\ ToSet(sysv[q]) \subseteq 1..run)
  <2>1. sysv[q] = Absent \/ (sysv[q] \in Seq(1..run) /\ Len(sysv[q]) <= MsgQueueSize)
    BY DEF StInv, StType, StBounds, QueueLen
  <2>2. ASSUME NEW S, NEW s \in Seq(S) PROVE \A i \in DOMAIN s : s[i] \in S
    OBVIOUS
  <2>3. sysv[q] \in Seq(1..run) => ToSet(sysv[q]) \subseteq 1..run
    BY <2>2 DEF ToSet
  <2> QED BY <2>1, <2>3
<1>3. run \in 1..MaxRuns
  BY StartupAssumption DEF StInv, StType, StBounds, Counted
<1> QED BY <1>1, <1>2, <1>3 DEF StInv, StType, StBounds, Counted, StartupTypeOK, AllStarted

-----------------------------------------------------------------------------
(* The plug-in over a database: a row's name, taken apart, is the place of  *)
(* its statistic, and what is told of a row is what the database had in it. *)

LEMMA BidsAre ==
  /\ DOMAIN PortBids = {"DEVICE", "PRI_GROUP_SHARED", "PRI_GROUP_HEADROOM"}
  /\ DOMAIN PoolBids = {"EGR_POOL", "EGR_MCAST_POOL", "ING_POOL", "PORT_POOL", "EGR_UCAST_PORT_SHARED", "EGR_PORT_SHARED"}
  /\ DOMAIN QueueBids = {"UCAST", "MCAST", "UCAST_GROUP", "RQE_QUEUE", "RQE_POOL", "CPU_QUEUE"}
<1>1. DOMAIN PortBids = {"DEVICE", "PRI_GROUP_SHARED", "PRI_GROUP_HEADROOM"}
  BY DEF PortBids
<1>2. DOMAIN PoolBids = {"EGR_POOL", "EGR_MCAST_POOL", "ING_POOL", "PORT_POOL", "EGR_UCAST_PORT_SHARED", "EGR_PORT_SHARED"}
  BY DEF PoolBids
<1>3. DOMAIN QueueBids = {"UCAST", "MCAST", "UCAST_GROUP", "RQE_QUEUE", "RQE_POOL", "CPU_QUEUE"}
  BY DEF QueueBids
<1> QED BY <1>1, <1>2, <1>3

LEMMA BidIs ==
  ASSUME NEW realm, NEW counter, NEW indexes, NEW columns
  PROVE  /\ Bid(realm, counter, indexes, columns).realm = realm
         /\ Bid(realm, counter, indexes, columns).counter = counter
         /\ Bid(realm, counter, indexes, columns).indexes = indexes
  BY DEF Bid

\* A row of the table: the number of its indexes, and the two parts of its name
\* that no other row has.
Entry(b, realm, counter, indexes) ==
  BidTable[b].realm = realm /\ BidTable[b].counter = counter /\ BidTable[b].indexes = indexes

LEMMA PortEntries ==
  /\ Entry("DEVICE", "device", "data", 0)
  /\ Entry("PRI_GROUP_SHARED", "ingress-port-priority-group", "um-share-buffer-count", 2)
  /\ Entry("PRI_GROUP_HEADROOM", "ingress-port-priority-group", "um-headroom-buffer-count", 2)
<1>1. \A b \in DOMAIN PortBids : BidTable[b] = PortBids[b]
  BY BidsAre DEF BidTable, Bids
<1>2. /\ PortBids["DEVICE"] = Bid("device", "data", 0, 1)
      /\ PortBids["PRI_GROUP_SHARED"] = Bid("ingress-port-priority-group", "um-share-buffer-count", 2, Largest.pgs)
      /\ PortBids["PRI_GROUP_HEADROOM"] = Bid("ingress-port-priority-group", "um-headroom-buffer-count", 2, Largest.pgs)
  BY DEF PortBids
<1> QED BY <1>1, <1>2, BidsAre, BidIs DEF Entry

LEMMA PoolEntries ==
  /\ Entry("EGR_POOL", "egress-service-pool", "um-share-buffer-count", 1)
  /\ Entry("EGR_MCAST_POOL", "egress-service-pool", "mc-share-buffer-count", 1)
  /\ Entry("ING_POOL", "ingress-service-pool", "um-share-buffer-count", 1)
  /\ Entry("PORT_POOL", "ingress-port-service-pool", "um-share-buffer-count", 2)
  /\ Entry("EGR_UCAST_PORT_SHARED", "egress-port-service-pool", "uc-share-buffer-count", 2)
  /\ Entry("EGR_PORT_SHARED", "egress-port-service-pool", "um-share-buffer-count", 2)
<1>1. \A b \in DOMAIN PoolBids : BidTable[b] = PoolBids[b]
  BY BidsAre DEF BidTable, Bids
<1>2. /\ PoolBids["EGR_POOL"] = Bid("egress-service-pool", "um-share-buffer-count", 1, Largest.sps)
      /\ PoolBids["EGR_MCAST_POOL"] = Bid("egress-service-pool", "mc-share-buffer-count", 1, Largest.sps)
      /\ PoolBids["ING_POOL"] = Bid("ingress-service-pool", "um-share-buffer-count", 1, Largest.isps)
      /\ PoolBids["PORT_POOL"] = Bid("ingress-port-service-pool", "um-share-buffer-count", 2, Largest.isps)
      /\ PoolBids["EGR_UCAST_PORT_SHARED"] = Bid("egress-port-service-pool", "uc-share-buffer-count", 2, Largest.sps)
      /\ PoolBids["EGR_PORT_SHARED"] = Bid("egress-port-service-pool", "um-share-buffer-count", 2, Largest.sps)
  BY DEF PoolBids
<1> QED BY <1>1, <1>2, BidsAre, BidIs DEF Entry

LEMMA QueueEntries ==
  /\ Entry("UCAST", "egress-uc-queue", "uc-buffer-count", 1)
  /\ Entry("MCAST", "egress-mc-queue", "mc-buffer-count", 1)
  /\ Entry("UCAST_GROUP", "egress-uc-queue-group", "uc-buffer-count", 1)
  /\ Entry("RQE_QUEUE", "egress-rqe-queue", "rqe-buffer-count", 1)
  /\ Entry("RQE_POOL", "egress-rqe-queue", "rqe-queue-count", 1)
  /\ Entry("CPU_QUEUE", "egress-cpu-queue", "cpu-buffer-count", 1)
<1>1. \A b \in DOMAIN QueueBids : BidTable[b] = QueueBids[b]
  BY BidsAre DEF BidTable, Bids
<1>2. /\ QueueBids["UCAST"] = Bid("egress-uc-queue", "uc-buffer-count", 1, Largest.ucqs)
      /\ QueueBids["MCAST"] = Bid("egress-mc-queue", "mc-buffer-count", 1, Largest.mcqs)
      /\ QueueBids["UCAST_GROUP"] = Bid("egress-uc-queue-group", "uc-buffer-count", 1, Largest.groups)
      /\ QueueBids["RQE_QUEUE"] = Bid("egress-rqe-queue", "rqe-buffer-count", 1, Largest.rqes)
      /\ QueueBids["RQE_POOL"] = Bid("egress-rqe-queue", "rqe-queue-count", 1, Largest.rqes)
      /\ QueueBids["CPU_QUEUE"] = Bid("egress-cpu-queue", "cpu-buffer-count", 1, Largest.cpus)
  BY DEF QueueBids
<1> QED BY <1>1, <1>2, BidsAre, BidIs DEF Entry

LEMMA BidFacts ==
  /\ \A b \in Bids : BidTable[b].indexes \in {0, 1, 2}
  /\ \A b, c \in Bids : BidTable[b].realm = BidTable[c].realm /\ BidTable[b].counter = BidTable[c].counter => b = c
<1>1. /\ Bids = {"DEVICE", "PRI_GROUP_SHARED", "PRI_GROUP_HEADROOM", "EGR_POOL", "EGR_MCAST_POOL", "ING_POOL", "PORT_POOL",
                 "EGR_UCAST_PORT_SHARED", "EGR_PORT_SHARED", "UCAST", "MCAST", "UCAST_GROUP", "RQE_QUEUE", "RQE_POOL",
                 "CPU_QUEUE"}
  BY BidsAre DEF Bids
<1>2. \A b \in Bids : BidTable[b].indexes \in {0, 1, 2}
  BY <1>1, PortEntries, PoolEntries, QueueEntries DEF Entry
<1>3. ASSUME NEW b \in Bids, NEW c \in Bids, BidTable[b].realm = BidTable[c].realm, BidTable[b].counter = BidTable[c].counter
      PROVE  b = c
  BY <1>1, <1>3, PortEntries, PoolEntries, QueueEntries DEF Entry
<1> QED BY <1>2, <1>3

-----------------------------------------------------------------------------
Rows1 == Bids \X Nat \X Nat

LEMMA RowNameIs ==
  ASSUME NEW o \in Rows1
  PROVE  LET b == BidTable[o[1]]
             n == RowName(o)
         IN  /\ n[1] = <<b.realm>> /\ n[2] = <<b.counter>>
             /\ b.indexes = 2 => Len(n) = 4 /\ n[3] = <<o[2]>> /\ n[4] = <<o[3]>>
             /\ b.indexes = 1 => Len(n) = 5 /\ n[3] = << >> /\ n[4] = <<o[3]>> /\ n[5] = None
             /\ b.indexes = 0 => Len(n) = 4 /\ n[3] = None /\ n[4] = None
<1> DEFINE b == BidTable[o[1]]
           n == RowName(o)
<1>1. ASSUME NEW v, NEW w, NEW x, NEW y
      PROVE  LET s == <<v, w>> \o <<x, y>> IN Len(s) = 4 /\ s[1] = v /\ s[2] = w /\ s[3] = x /\ s[4] = y
  <2> DEFINE S == {v, w, x, y}
  <2>1. <<v, w>> \in Seq(S) /\ <<x, y>> \in Seq(S)
    OBVIOUS
  <2> HIDE DEF S
  <2> QED BY <2>1
<1>2. ASSUME NEW v, NEW w, NEW x, NEW y, NEW z
      PROVE  LET s == <<v, w>> \o <<x, y, z>>
             IN  Len(s) = 5 /\ s[1] = v /\ s[2] = w /\ s[3] = x /\ s[4] = y /\ s[5] = z
  <2> DEFINE S == {v, w, x, y, z}
  <2>1. <<v, w>> \in Seq(S) /\ <<x, y, z>> \in Seq(S)
    OBVIOUS
  <2> HIDE DEF S
  <2> QED BY <2>1
<1>3. /\ b.indexes = 2 => n = <<<<b.realm>>, <<b.counter>>>> \o <<<<o[2]>>, <<o[3]>>>>
      /\ b.indexes = 1 => n = <<<<b.realm>>, <<b.counter>>>> \o << << >>, <<o[3]>>, None>>
      /\ b.indexes = 0 => n = <<<<b.realm>>, <<b.counter>>>> \o <<None, None>>
  BY DEF RowName
<1>4. b.indexes \in {0, 1, 2}
  BY BidFacts DEF Rows1
<1> HIDE DEF b, n
<1>5. CASE b.indexes = 2
  BY <1>1, <1>3, <1>5 DEF b, n
<1>6. CASE b.indexes = 1
  BY <1>2, <1>3, <1>6 DEF b, n
<1>7. CASE b.indexes = 0
  BY <1>1, <1>3, <1>7 DEF b, n
<1> QED BY <1>4, <1>5, <1>6, <1>7 DEF b, n

LEMMA TokensAre ==
  ASSUME NEW o \in Rows1
  PROVE  LET b == BidTable[o[1]]
             t == Tokens(RowName(o))
         IN  /\ Len(t) = 4 /\ t[1] = <<b.realm>> /\ t[2] = <<b.counter>>
             /\ b.indexes = 2 => t[3][1] = o[2] /\ t[4][1] = o[3]
             /\ b.indexes = 1 => t[3][1] = o[3]
<1>1. BidTable[o[1]].indexes \in {0, 1, 2}
  BY BidFacts DEF Rows1
<1>2. CASE BidTable[o[1]].indexes = 2
  BY <1>2, RowNameIs DEF Tokens
<1>3. CASE BidTable[o[1]].indexes = 1
  BY <1>3, RowNameIs DEF Tokens
<1>4. CASE BidTable[o[1]].indexes = 0
  BY <1>4, RowNameIs DEF Tokens, None
<1> QED BY <1>1, <1>2, <1>3, <1>4

LEMMA NamesTell ==
  ASSUME NEW o \in Rows1, NEW x \in Rows1, RowName(x) = RowName(o)
  PROVE  /\ x[1] = o[1]
         /\ BidTable[o[1]].indexes = 2 => x[2] = o[2]
         /\ BidTable[o[1]].indexes # 0 => x[3] = o[3]
<1>1. Tokens(RowName(x)) = Tokens(RowName(o))
  OBVIOUS
<1>2. /\ <<BidTable[x[1]].realm>> = <<BidTable[o[1]].realm>>
      /\ <<BidTable[x[1]].counter>> = <<BidTable[o[1]].counter>>
  BY <1>1, TokensAre
<1>3. x[1] = o[1]
  BY <1>2, BidFacts DEF Rows1
<1>4. BidTable[o[1]].indexes \in {0, 1, 2}
  BY BidFacts DEF Rows1
<1> QED BY <1>1, <1>3, <1>4, TokensAre

\* A name is taken apart to the place where the statistic is read.
LEMMA RowGetIs ==
  ASSUME NEW o \in Rows1, BidTable[o[1]].indexes = 0 => o[3] = 0
  PROVE  RowGet(RowName(o)) \subseteq {<<o[1], DbIndex(o)>>}
<1> DEFINE t == Tokens(RowName(o))
           At(b) == CASE BidTable[b].indexes = 2 -> (t[3][1] - 1) * BidTable[b].columns + t[4][1]
                      [] BidTable[b].indexes = 1 -> t[3][1]
                      [] OTHER -> 0
           fits == {b \in Bids : t[1] = <<BidTable[b].realm>> /\ t[2] = <<BidTable[b].counter>>}
<1>1. RowGet(RowName(o)) \subseteq {<<b, At(b)>> : b \in fits}
  BY DEF RowGet
<1>2. /\ t[1] = <<BidTable[o[1]].realm>> /\ t[2] = <<BidTable[o[1]].counter>>
      /\ BidTable[o[1]].indexes = 2 => t[3][1] = o[2] /\ t[4][1] = o[3]
      /\ BidTable[o[1]].indexes = 1 => t[3][1] = o[3]
  BY TokensAre
<1> HIDE DEF t
<1>3. fits \subseteq {o[1]}
  BY <1>2, BidFacts DEF Rows1
<1>4. At(o[1]) = DbIndex(o)
  BY <1>2, BidFacts DEF DbIndex, Rows1
<1> QED BY <1>1, <1>3, <1>4

-----------------------------------------------------------------------------
(* What the database, the messages, the cache and a call may hold.          *)
StatsOf(o) == {Stat(o, 1), Stat(o, 2)}
ThresholdsOf(o) ==
  {FirstThreshold(o)} \cup {Wanted(x) : x \in {y \in Objects : y[1] = o[1] /\ y[1] \in IgnoresQueue}} \cup {Wanted(o)}
RowsOf(o) == [stat : StatsOf(o), threshold : ThresholdsOf(o)]
Configs == {Config(enabled, mode) : enabled \in BOOLEAN, mode \in {"peak", "current"}}
RowUpdates(o) ==
  {Inserted(o, r) : r \in RowsOf(o)} \cup {Deleted(o, r) : r \in RowsOf(o)} \cup {Modified(o, r, t) : r \in RowsOf(o), t \in RowsOf(o)}
Updates ==
  (UNION {RowUpdates(o) : o \in Objects}) \cup {SystemRow(c) : c \in Configs} \cup {SystemModified(c, d) : c \in Configs, d \in Configs}

\* The tables that are set with another have as many indexes; the two whose
\* calls leave the queue are set alone.
Alike(b) ==
  {c \in Bids : BidTable[c].indexes = BidTable[b].indexes /\ (c \in IgnoresQueue \/ b \in IgnoresQueue => c = b)}
SetsObject(c, o) ==
  /\ c = [what |-> "set", todo |-> c.todo, port |-> o[2], index |-> o[3]]
  /\ c.todo \in Seq(Alike(o[1])) \ {<< >>}
CallOk(c) ==
  \/ c = Idle
  \/ \E o \in Objects : SetsObject(c, o)
  \/ c = [what |-> "config", todo |-> c.todo] /\ c.todo \in Seq(Configs) \ {<< >>}
  \/ \E what \in {"data", "thresholds"} : c = [what |-> what, todo |-> c.todo]

DbOk == DOMAIN db \subseteq Objects /\ \A o \in DOMAIN db : db[o] \in RowsOf(o)
CacheOk == \A a \in DOMAIN cache : cache[a] = Zero \/ \E o \in Objects : a = <<o[1], DbIndex(o)>> /\ cache[a] \in RowsOf(o)

OvInv ==
  /\ DbOk /\ dbConfig \in Configs
  /\ CacheOk /\ cacheConfig \in [bst_enable : BOOLEAN, bst_tracking_mode : 0..2]
  /\ wire \in Seq(SUBSET Updates)
  /\ CallOk(call)
  /\ monitor \in {"starting", "serving", "lost", "ended"} /\ uuid \in BOOLEAN
  /\ readLocks \in Nat /\ changes \in Nat /\ changes <= MaxDbChanges /\ made \in Nat /\ made <= MaxCalls

LEMMA ObjectFacts ==
  ASSUME NEW o \in Objects
  PROVE  /\ o \in Rows1 /\ o = <<o[1], o[2], o[3]>> /\ NumberOf(o) \in Nat
         /\ BidTable[o[1]].indexes # 2 => o[2] = 0
         /\ BidTable[o[1]].indexes = 0 => o[3] = 0
<1>1. PICK n \in DOMAIN Watched : o = Watched[n]
  BY DEF Objects
<1>2. NumberOf(o) \in DOMAIN Watched
  BY <1>1 DEF NumberOf
<1> QED BY <1>1, <1>2, OvsdbAssumption DEF Rows1

LEMMA RowFacts ==
  ASSUME NEW o \in Objects
  PROVE  /\ StatsOf(o) \subseteq Nat /\ ThresholdsOf(o) \subseteq Nat
         /\ RowsOf(o) \subseteq [stat : Nat, threshold : Nat]
         /\ FirstRow(o) \in RowsOf(o) /\ Wanted(o) \in ThresholdsOf(o)
         /\ \A s \in StatsOf(o) : Stat(o, 1) + Stat(o, 2) - s \in StatsOf(o)
<1>1. \A x \in Objects : NumberOf(x) \in Nat
  BY ObjectFacts
<1>2. StatsOf(o) \subseteq Nat /\ \A s \in StatsOf(o) : Stat(o, 1) + Stat(o, 2) - s \in StatsOf(o)
  BY <1>1 DEF StatsOf, Stat
<1>3. ThresholdsOf(o) \subseteq Nat
  BY <1>1 DEF ThresholdsOf, FirstThreshold, Wanted
<1>4. FirstRow(o) \in RowsOf(o) /\ Wanted(o) \in ThresholdsOf(o)
  BY DEF FirstRow, RowsOf, StatsOf, ThresholdsOf
<1>5. RowsOf(o) \subseteq [stat : Nat, threshold : Nat]
  BY <1>2, <1>3 DEF RowsOf
<1> QED BY <1>2, <1>3, <1>4, <1>5

LEMMA SetsAlike ==
  ASSUME NEW s \in ThresholdSets, NEW i \in DOMAIN s
  PROVE  s \in Seq(Alike(s[i])) \ {<< >>}
<1>1. \A b \in Bids : b \in Alike(b)
  BY DEF Alike
<1>2. ASSUME NEW b \in Bids, s = <<b>> PROVE s \in Seq(Alike(s[i])) \ {<< >>}
  BY <1>1, <1>2
<1>3. ASSUME NEW b \in Bids, NEW c \in Bids, s = <<b, c>>, BidTable[b].indexes = BidTable[c].indexes, b \notin IgnoresQueue,
             c \notin IgnoresQueue
      PROVE  s \in Seq(Alike(s[i])) \ {<< >>}
  <2>1. s[i] \in {b, c}
    BY <1>3
  <2>2. b \in Alike(s[i]) /\ c \in Alike(s[i])
    BY <1>3, <2>1 DEF Alike
  <2> QED BY <1>3, <2>2
<1>4. s \in IngressSets \/ s \in PoolSets \/ s \in QueueSets
  BY DEF ThresholdSets
<1>5. CASE s \in IngressSets
  BY <1>2, <1>3, <1>5, BidsAre, PortEntries, PoolEntries DEF IngressSets, Bids, Entry, IgnoresQueue
<1>6. CASE s \in PoolSets
  BY <1>2, <1>3, <1>6, BidsAre, PoolEntries DEF PoolSets, Bids, Entry, IgnoresQueue
<1>7. CASE s \in QueueSets
  BY <1>2, <1>7, BidsAre DEF QueueSets, Bids
<1> QED BY <1>4, <1>5, <1>6, <1>7

\* What the cache takes of an update: nothing, or the row of the statistic
\* that the update names.
LEMMA UpdateFacts ==
  ASSUME NEW u \in Updates
  PROVE  \/ u.table = "System" /\ Column(u, "bufmon_config") \subseteq Configs
         \/ u.table = "bufmon" /\ Column(u, "hw_unit_id") = {}
         \/ /\ u.table = "bufmon"
            /\ \E o \in Objects : /\ Column(u, "name") = {RowName(o)}
                                  /\ ColumnOr0(u, "counter_value") \in StatsOf(o)
                                  /\ ColumnOr0(u, "trigger_threshold") \in ThresholdsOf(o)
<1>1. CASE \E o \in Objects : \E r \in RowsOf(o) : u = Inserted(o, r) \/ u = Deleted(o, r)
  <2>0. PICK o \in Objects : \E r \in RowsOf(o) : u = Inserted(o, r) \/ u = Deleted(o, r)
    BY <1>1
  <2>1. PICK r \in RowsOf(o) : u = Inserted(o, r) \/ u = Deleted(o, r)
    BY <2>0
  <2>2. /\ u.table = "bufmon"
        /\ \A c \in {"name", "hw_unit_id", "counter_value", "trigger_threshold"} : Column(u, c) = {Columns(o, r)[c]}
    BY <2>1 DEF Inserted, Deleted, Column, Columns
  <2>3. Column(u, "name") = {RowName(o)} /\ Column(u, "counter_value") = {r.stat} /\ Column(u, "trigger_threshold") = {r.threshold}
    BY <2>2 DEF Columns
  <2>4. ColumnOr0(u, "counter_value") = r.stat /\ ColumnOr0(u, "trigger_threshold") = r.threshold
    BY <2>3 DEF ColumnOr0
  <2> QED BY <2>2, <2>3, <2>4 DEF RowsOf
<1>2. CASE \E o \in Objects : \E r \in RowsOf(o) : \E t \in RowsOf(o) : u = Modified(o, r, t)
  <2>1. \E o, r, t : u = Modified(o, r, t)
    BY <1>2
  <2>2. u.table = "bufmon" /\ "old" \in DOMAIN u /\ "hw_unit_id" \notin DOMAIN u.old
    BY <2>1 DEF Modified
  <2> QED BY <2>2 DEF Column
<1>3. CASE \E c \in Configs : u = SystemRow(c)
  BY <1>3 DEF SystemRow, Column
<1>4. CASE \E c \in Configs : \E d \in Configs : u = SystemModified(c, d)
  BY <1>4 DEF SystemModified, Column
<1>5. CASE \E o \in Objects : u \in RowUpdates(o)
  <2>1. PICK o \in Objects : u \in RowUpdates(o)
    BY <1>5
  <2>2. \/ \E r \in RowsOf(o) : u = Inserted(o, r) \/ u = Deleted(o, r)
        \/ \E r \in RowsOf(o) : \E t \in RowsOf(o) : u = Modified(o, r, t)
    BY <2>1 DEF RowUpdates
  <2> QED BY <1>1, <1>2, <2>2
<1>6. (\E o \in Objects : u \in RowUpdates(o)) \/ (\E c \in Configs : u = SystemRow(c))
        \/ \E c \in Configs : \E d \in Configs : u = SystemModified(c, d)
  <2>1. \/ u \in UNION {RowUpdates(o) : o \in Objects} \/ u \in {SystemRow(c) : c \in Configs}
        \/ u \in {SystemModified(c, d) : c \in Configs, d \in Configs}
    BY DEF Updates
  <2> HIDE DEF Configs
  <2> QED BY <2>1
<1> QED BY <1>3, <1>4, <1>5, <1>6

-----------------------------------------------------------------------------
LEMMA RowUpdatesAre ==
  ASSUME NEW o \in Objects, NEW r \in RowsOf(o)
  PROVE  /\ Inserted(o, r) \in Updates /\ Deleted(o, r) \in Updates
         /\ \A t \in RowsOf(o) : Modified(o, r, t) \in Updates
<1>1. Inserted(o, r) \in RowUpdates(o) /\ Deleted(o, r) \in RowUpdates(o)
  BY DEF RowUpdates
<1>2. ASSUME NEW t \in RowsOf(o) PROVE Modified(o, r, t) \in RowUpdates(o)
  BY DEF RowUpdates
<1>3. RowUpdates(o) \subseteq Updates
  BY DEF Updates
<1> QED BY <1>1, <1>2, <1>3

LEMMA Told ==
  ASSUME wire \in Seq(SUBSET Updates), NEW told \in SUBSET Updates, Tell(told)
  PROVE  wire' \in Seq(SUBSET Updates)
  BY DEF Tell

LEMMA ConfigsAre == \A enabled \in BOOLEAN : \A mode \in {"peak", "current"} : Config(enabled, mode) \in Configs
<1> TAKE enabled \in BOOLEAN
<1> TAKE mode \in {"peak", "current"}
<1> QED BY DEF Configs

LEMMA OvInitial == ASSUME NEW at \in {"starting", "ended"}, OvStarts(at) PROVE OvInv
<1>1. DbOk
  <2>1. \A o \in {Watched[i] : i \in 1 .. Len(Watched) - 1} : o \in DOMAIN db /\ db[o] = FirstRow(o)
    BY DEF OvStarts
  <2>2. DOMAIN db = {Watched[i] : i \in 1 .. Len(Watched) - 1}
    BY DEF OvStarts
  <2> QED BY <2>1, <2>2, RowFacts, OvsdbAssumption DEF DbOk, Objects
<1>2. dbConfig \in Configs
  BY ConfigsAre DEF OvStarts
<1>3. CacheOk
  BY DEF OvStarts, CacheOk
<1>4. wire \in Seq(SUBSET Updates)
  BY DEF OvStarts
<1>5. /\ cacheConfig \in [bst_enable : BOOLEAN, bst_tracking_mode : 0..2] /\ CallOk(call)
      /\ monitor \in {"starting", "serving", "lost", "ended"} /\ uuid \in BOOLEAN /\ readLocks \in Nat
  <2>1. cacheConfig \in [bst_enable : BOOLEAN, bst_tracking_mode : 0..2]
    BY DEF OvStarts
  <2>2. CallOk(call)
    BY DEF OvStarts, CallOk
  <2> QED BY <2>1, <2>2 DEF OvStarts
<1>6. changes \in Nat /\ changes <= MaxDbChanges /\ made \in Nat /\ made <= MaxCalls
  BY OvsdbAssumption DEF OvStarts
<1> QED BY <1>1, <1>2, <1>3, <1>4, <1>5, <1>6 DEF OvInv

LEMMA DaemonKeeps == OvInv /\ DbChange => OvInv'
<1> SUFFICES ASSUME OvInv, DbChange PROVE OvInv'
  OBVIOUS
<1>1. DbOk /\ wire \in Seq(SUBSET Updates) /\ changes \in Nat /\ changes < MaxDbChanges /\ changes' = changes + 1
  BY DEF OvInv, DbChange
<1>2. UNCHANGED <<dbConfig, cache, cacheConfig, uuid, monitor, call, readLocks, made>>
  BY DEF DbChange
<1>3. ASSUME NEW o \in DOMAIN db, NEW to, to = [db[o] EXCEPT !.stat = Stat(o, 1) + Stat(o, 2) - @],
             db' = [db EXCEPT ![o] = to], Tell({Modified(o, db[o], to)})
      PROVE  DbOk' /\ wire' \in Seq(SUBSET Updates)
  <2>1. o \in Objects /\ db[o] \in RowsOf(o)
    BY <1>1 DEF DbOk
  <2>2. to \in RowsOf(o)
    BY <1>3, <2>1, RowFacts DEF RowsOf
  <2>3. DbOk'
    BY <1>1, <1>3, <2>2 DEF DbOk
  <2> QED BY <1>1, <1>3, <2>1, <2>2, <2>3, RowUpdatesAre, Told
<1>4. ASSUME NEW o \in Objects \ DOMAIN db, db' = [x \in DOMAIN db \cup {o} |-> IF x = o THEN FirstRow(o) ELSE db[x]],
             Tell({Inserted(o, FirstRow(o))})
      PROVE  DbOk' /\ wire' \in Seq(SUBSET Updates)
  <2>1. FirstRow(o) \in RowsOf(o)
    BY RowFacts
  <2>2. DbOk'
    BY <1>1, <1>4, <2>1 DEF DbOk
  <2> QED BY <1>1, <1>4, <2>1, <2>2, RowUpdatesAre, Told
<1>5. ASSUME NEW o \in DOMAIN db, db' = [x \in DOMAIN db \ {o} |-> db[x]], Tell({Deleted(o, db[o])})
      PROVE  DbOk' /\ wire' \in Seq(SUBSET Updates)
  <2>1. o \in Objects /\ db[o] \in RowsOf(o)
    BY <1>1 DEF DbOk
  <2>2. DbOk'
    BY <1>1, <1>5 DEF DbOk
  <2> QED BY <1>1, <1>5, <2>1, <2>2, RowUpdatesAre, Told
<1>6. DbOk' /\ wire' \in Seq(SUBSET Updates)
  BY <1>3, <1>4, <1>5 DEF DbChange
<1> QED BY <1>1, <1>2, <1>6, OvsdbAssumption DEF OvInv, CacheOk

LEMMA MonitorKeeps == OvInv /\ (MonitorOpen \/ MonitorLost) => OvInv'
<1> SUFFICES ASSUME OvInv, MonitorOpen \/ MonitorLost PROVE OvInv'
  OBVIOUS
<1>1. UNCHANGED <<db, dbConfig, cache, cacheConfig, uuid, call, readLocks, changes, made>>
  BY DEF MonitorOpen, MonitorLost
<1>2. monitor' \in {"starting", "serving", "lost", "ended"}
  BY DEF MonitorOpen, MonitorLost
<1>3. wire' \in Seq(SUBSET Updates)
  <2>1. {SystemRow(dbConfig)} \cup {Inserted(o, db[o]) : o \in DOMAIN db} \in SUBSET Updates
    <3>1. SystemRow(dbConfig) \in Updates
      BY DEF Updates, OvInv
    <3>2. \A o \in DOMAIN db : Inserted(o, db[o]) \in Updates
      BY RowUpdatesAre DEF OvInv, DbOk
    <3> QED BY <3>1, <3>2
  <2>2. wire \in Seq(SUBSET Updates)
    BY DEF OvInv
  <2>3. wire' \in {wire, << >>, <<{SystemRow(dbConfig)} \cup {Inserted(o, db[o]) : o \in DOMAIN db}>>}
    BY DEF MonitorOpen, MonitorLost
  <2>4. ASSUME NEW S, NEW m \in S PROVE <<m>> \in Seq(S) /\ << >> \in Seq(S)
    OBVIOUS
  <2> QED BY <2>1, <2>2, <2>3, <2>4
<1> QED BY <1>1, <1>2, <1>3 DEF OvInv, DbOk, CacheOk

LEMMA ParsedType ==
  ASSUME NEW c \in Configs PROVE Parsed(c) \in [bst_enable : BOOLEAN, bst_tracking_mode : 0..2]
  BY DEF Configs, Config, Parsed

\* What is taken of a message is the row that the update names, or nothing.
LEMMA TakenKeeps == OvInv /\ CacheUpdate => OvInv'
<1> SUFFICES ASSUME OvInv, CacheUpdate PROVE OvInv'
  OBVIOUS
<1>1. UNCHANGED <<db, dbConfig, monitor, call, readLocks, changes, made>> /\ wire \in Seq(SUBSET Updates) /\ wire # << >>
  BY DEF CacheUpdate, OvInv
<1>2. PICK u \in Head(wire) :
        /\ wire' = IF Head(wire) = {u} THEN Tail(wire) ELSE [wire EXCEPT ![1] = @ \ {u}]
        /\ IF u.table = "System"
           THEN /\ uuid' = TRUE
                /\ cacheConfig' = IF Column(u, "bufmon_config") = {} THEN cacheConfig
                                  ELSE Parsed(CHOOSE c \in Column(u, "bufmon_config") : TRUE)
                /\ UNCHANGED cache
           ELSE RowUpdate(u) /\ UNCHANGED <<uuid, cacheConfig>>
  BY DEF CacheUpdate
<1>3. Head(wire) \in SUBSET Updates /\ Len(wire) >= 1 /\ Len(wire) \in Nat /\ Head(wire) = wire[1] /\ Tail(wire) \in Seq(SUBSET Updates)
  BY <1>1, TailFacts
<1>4. u \in Updates
  BY <1>3
<1>5. wire' \in Seq(SUBSET Updates)
  <2>1. [wire EXCEPT ![1] = wire[1] \ {u}] \in Seq(SUBSET Updates)
    <3> DEFINE S == SUBSET Updates
    <3>1. wire \in Seq(S) /\ wire[1] \ {u} \in S
      BY <1>1, <1>3
    <3>2. ASSUME NEW T, NEW q \in Seq(T), NEW m \in T, q # << >>
          PROVE  [q EXCEPT ![1] = m] \in Seq(T)
      <4>1. q \in [1 .. Len(q) -> T] /\ Len(q) \in Nat
        BY <3>2
      <4>2. [q EXCEPT ![1] = m] \in [1 .. Len(q) -> T]
        BY <3>2, <4>1
      <4> QED BY <4>1, <4>2
    <3> HIDE DEF S
    <3>3. [wire EXCEPT ![1] = wire[1] \ {u}] \in Seq(S)
      BY <1>1, <3>1, <3>2
    <3> QED BY <3>3 DEF S
  <2> QED BY <1>2, <1>3, <2>1
<1>6. CASE u.table = "System"
  <2>1. Column(u, "bufmon_config") \subseteq Configs
    BY <1>4, <1>6, UpdateFacts
  <2>2. cacheConfig' \in [bst_enable : BOOLEAN, bst_tracking_mode : 0..2]
    BY <1>2, <1>6, <2>1, ParsedType DEF OvInv
  <2>3. uuid' \in BOOLEAN /\ UNCHANGED cache
    BY <1>2, <1>6
  <2> QED BY <1>1, <1>5, <2>2, <2>3 DEF OvInv, DbOk, CacheOk
<1>7. CASE u.table # "System"
  <2>1. RowUpdate(u) /\ UNCHANGED <<uuid, cacheConfig>>
    BY <1>2, <1>7
  <2>2. CacheOk /\ cacheConfig \in [bst_enable : BOOLEAN, bst_tracking_mode : 0..2] /\ uuid \in BOOLEAN
    BY DEF OvInv
  <2>3. CacheOk'
    <3>1. CASE Column(u, "hw_unit_id") = {}
      BY <2>1, <2>2, <3>1 DEF RowUpdate, CacheOk
    <3>2. CASE Column(u, "hw_unit_id") # {}
      <4>1. PICK o \in Objects : /\ Column(u, "name") = {RowName(o)}
                                 /\ ColumnOr0(u, "counter_value") \in StatsOf(o)
                                 /\ ColumnOr0(u, "trigger_threshold") \in ThresholdsOf(o)
        BY <1>4, <1>7, <3>2, UpdateFacts
      <4> DEFINE at == UNION {RowGet(name) : name \in Column(u, "name")}
                 row == [stat |-> ColumnOr0(u, "counter_value"), threshold |-> ColumnOr0(u, "trigger_threshold")]
      <4>2. row \in RowsOf(o)
        BY <4>1 DEF RowsOf
      <4>3. at \subseteq {<<o[1], DbIndex(o)>>}
        <5>1. RowGet(RowName(o)) \subseteq {<<o[1], DbIndex(o)>>}
          BY RowGetIs, ObjectFacts
        <5> QED BY <4>1, <5>1
      <4>4. cache' = [a \in DOMAIN cache |-> IF a \in at THEN row ELSE cache[a]]
        BY <2>1, <3>2 DEF RowUpdate
      <4> HIDE DEF at, row
      <4> QED BY <2>2, <4>2, <4>3, <4>4 DEF CacheOk
    <3> QED BY <3>1, <3>2
  <2> QED BY <1>1, <1>5, <2>1, <2>2, <2>3 DEF OvInv, DbOk
<1> QED BY <1>6, <1>7

-----------------------------------------------------------------------------
LEMMA CallStarted == OvInv /\ CallStarts => OvInv'
<1> SUFFICES ASSUME OvInv, CallStarts PROVE OvInv'
  OBVIOUS
<1>1. /\ UNCHANGED <<db, dbConfig, cache, cacheConfig, uuid, monitor, wire, readLocks, changes>>
      /\ made' = made + 1 /\ made < MaxCalls
  BY DEF CallStarts
<1>2. ASSUME NEW o \in Objects, NEW bids \in ThresholdSets, o[1] \in {bids[i] : i \in DOMAIN bids},
             call' = [what |-> "set", todo |-> bids, port |-> o[2], index |-> o[3]]
      PROVE  CallOk(call')
  <2>1. bids \in Seq(Alike(o[1])) \ {<< >>}
    BY <1>2, SetsAlike
  <2> QED BY <1>2, <2>1 DEF CallOk, SetsObject
<1>3. ASSUME NEW c \in {Config(TRUE, "peak"), Config(TRUE, "current")}, call' = [what |-> "config", todo |-> <<c>>]
      PROVE  CallOk(call')
  <2>1. c \in Configs
    BY ConfigsAre
  <2>2. ASSUME NEW S, NEW m \in S PROVE <<m>> \in Seq(S) \ {<< >>}
    OBVIOUS
  <2> QED BY <1>3, <2>1, <2>2 DEF CallOk
<1>4. ASSUME NEW p, call' = [what |-> "data", todo |-> p] \/ call' = [what |-> "thresholds", todo |-> p] \/ call' = Idle
      PROVE  CallOk(call')
  BY <1>4 DEF CallOk
<1>5. CallOk(call')
  BY <1>2, <1>3, <1>4 DEF CallStarts
<1>6. CallOk(call)' /\ made' \in Nat /\ made' <= MaxCalls
  BY <1>1, <1>5, OvsdbAssumption DEF OvInv, CallOk, SetsObject
<1> QED BY <1>1, <1>6 DEF OvInv, DbOk, CacheOk

\* What remains of a call is a call of the same kind.
LEMMA CallGoes ==
  ASSUME CallOk(call), NEW ok \in BOOLEAN, Goes1(ok)
  PROVE  CallOk(call')
<1>1. CASE call' = Idle
  BY <1>1 DEF CallOk
<1>2. CASE ok /\ Len(call.todo) > 1 /\ call' = [call EXCEPT !.todo = Tail(@)]
  <2> DEFINE left1 == Tail(call.todo)
  <2>0. Len(call.todo) > 1 /\ call' = [call EXCEPT !.todo = left1]
    BY <1>2
  <2>5. ASSUME NEW S, NEW q \in Seq(S), Len(q) > 1 PROVE Tail(q) \in Seq(S) \ {<< >>}
    <3>1. q # << >> /\ Len(<< >>) = 0
      BY <2>5
    <3>2. Tail(q) \in Seq(S) /\ Len(Tail(q)) = Len(q) - 1
      BY <3>1, TailFacts
    <3>3. Len(Tail(q)) # 0
      BY <2>5, <3>2
    <3> QED BY <3>1, <3>2, <3>3
  <2>6. ASSUME NEW w, NEW q, NEW r PROVE [[what |-> w, todo |-> q] EXCEPT !.todo = r] = [what |-> w, todo |-> r]
    OBVIOUS
  <2>7. ASSUME NEW w, NEW q, NEW r, NEW p, NEW i
        PROVE  [[what |-> w, todo |-> q, port |-> p, index |-> i] EXCEPT !.todo = r] = [what |-> w, todo |-> r, port |-> p, index |-> i]
    OBVIOUS
  <2>1. CASE call = Idle
    BY <1>2, <2>1 DEF CallOk, Idle, SetsObject
  <2>2. ASSUME NEW o \in Objects, SetsObject(call, o) PROVE CallOk(call')
    <3>1. left1 \in Seq(Alike(o[1])) \ {<< >>}
      BY <2>0, <2>2, <2>5 DEF SetsObject
    <3> DEFINE todo == call.todo
    <3>2. call = [what |-> "set", todo |-> todo, port |-> o[2], index |-> o[3]]
      BY <2>2 DEF SetsObject
    <3> HIDE DEF todo, left1
    <3>3. call' = [what |-> "set", todo |-> left1, port |-> o[2], index |-> o[3]]
      BY <2>0, <2>7, <3>2
    <3> QED BY <3>1, <3>3 DEF CallOk, SetsObject
  <2>3. CASE call = [what |-> "config", todo |-> call.todo] /\ call.todo \in Seq(Configs) \ {<< >>}
    <3>1. left1 \in Seq(Configs) \ {<< >>}
      BY <2>0, <2>3, <2>5
    <3> DEFINE todo == call.todo
    <3>2. call = [what |-> "config", todo |-> todo]
      BY <2>3
    <3> HIDE DEF todo, left1
    <3>3. call' = [what |-> "config", todo |-> left1]
      BY <2>0, <2>6, <3>2
    <3> QED BY <3>1, <3>3 DEF CallOk
  <2>4. ASSUME NEW what \in {"data", "thresholds"}, call = [what |-> what, todo |-> call.todo] PROVE CallOk(call')
    <3> DEFINE todo == call.todo
    <3>1. call = [what |-> what, todo |-> todo]
      BY <2>4
    <3> HIDE DEF todo, left1
    <3>2. call' = [what |-> what, todo |-> left1]
      BY <2>0, <2>6, <3>1
    <3> QED BY <3>2 DEF CallOk
  <2> QED BY <2>1, <2>2, <2>3, <2>4 DEF CallOk
<1> QED BY <1>1, <1>2 DEF Goes1

\* A threshold comes to the row of its name: that of the statistic it was
\* asked for, but for a queue the call leaves out.
LEMMA CommittedRow ==
  ASSUME DbOk, NEW o \in Objects, SetsObject(call, o), NEW x \in DOMAIN db,
         LET given == <<Head(call.todo), call.port, call.index>>
         IN  RowName(x) = RowName(IF given[1] \in IgnoresQueue THEN <<given[1], 0, 0>> ELSE given)
  PROVE  [db[x] EXCEPT !.threshold = Wanted(<<Head(call.todo), call.port, call.index>>)] \in RowsOf(x)
<1> DEFINE b == Head(call.todo)
           given == <<b, call.port, call.index>>
           set == IF b \in IgnoresQueue THEN <<b, 0, 0>> ELSE given
<1>1. b \in Alike(o[1]) /\ call.port = o[2] /\ call.index = o[3]
  <2> DEFINE S == Alike(o[1])
  <2>1. call.todo \in Seq(S) \ {<< >>} /\ call.port = o[2] /\ call.index = o[3]
    BY DEF SetsObject
  <2> HIDE DEF S
  <2>2. Head(call.todo) \in S
    BY <2>1
  <2> QED BY <2>1, <2>2 DEF S
<1>2. x \in Objects /\ db[x] \in RowsOf(x)
  BY DEF DbOk
<1>3. o \in Rows1 /\ x \in Rows1 /\ b \in Bids
  BY <1>1, <1>2, ObjectFacts DEF Alike
<1>4. set \in Rows1 /\ RowName(x) = RowName(set)
  BY <1>1, <1>3 DEF Rows1
<1>5. x[1] = b /\ (BidTable[b].indexes = 2 => x[2] = set[2]) /\ (BidTable[b].indexes # 0 => x[3] = set[3])
  BY <1>3, <1>4, NamesTell
<1>6. Wanted(given) \in ThresholdsOf(x)
  <2>1. CASE b \in IgnoresQueue
    <3>1. b = o[1]
      BY <1>1, <2>1 DEF Alike
    <3>2. given = o
      BY <1>1, <3>1, ObjectFacts
    <3> QED BY <1>5, <2>1, <3>1, <3>2 DEF ThresholdsOf
  <2>2. CASE b \notin IgnoresQueue
    <3>1. BidTable[o[1]].indexes = BidTable[b].indexes
      BY <1>1 DEF Alike
    <3>2. x[2] = o[2] /\ x[3] = o[3]
      BY <1>1, <1>2, <1>5, <2>2, <3>1, ObjectFacts
    <3>3. given = x
      BY <1>1, <1>2, <1>5, <3>2, ObjectFacts
    <3> QED BY <1>2, <3>3, RowFacts
  <2> QED BY <2>1, <2>2
<1> QED BY <1>2, <1>6 DEF RowsOf

LEMMA CommitKeeps == OvInv /\ ThresholdCommit => OvInv'
<1> SUFFICES ASSUME OvInv, ThresholdCommit PROVE OvInv'
  OBVIOUS
<1>1. /\ UNCHANGED <<dbConfig, cache, cacheConfig, uuid, monitor, readLocks, changes, made>>
      /\ DbOk /\ CallOk(call) /\ wire \in Seq(SUBSET Updates) /\ call.what = "set"
  BY DEF ThresholdCommit, OvInv
<1> DEFINE given == <<Head(call.todo), call.port, call.index>>
           set == IF given[1] \in IgnoresQueue THEN <<given[1], 0, 0>> ELSE given
           named == {x \in DOMAIN db : RowName(x) = RowName(set)}
           Given(x) == [db[x] EXCEPT !.threshold = Wanted(given)]
           differ == {x \in named : Given(x) # db[x]}
<1>2. PICK o \in Objects : SetsObject(call, o)
  BY <1>1 DEF CallOk, Idle
<1>3. ASSUME NEW x \in named PROVE x \in Objects /\ db[x] \in RowsOf(x) /\ Given(x) \in RowsOf(x)
  BY <1>1, <1>2, CommittedRow DEF DbOk
<1>4. \/ /\ db' = [x \in DOMAIN db |-> IF x \in named THEN Given(x) ELSE db[x]]
         /\ UNCHANGED wire \/ Tell({Modified(x, db[x], Given(x)) : x \in differ})
         /\ Goes1(TRUE)
      \/ (Goes1(TRUE) \/ Goes1(FALSE)) /\ UNCHANGED <<db, wire>>
  BY DEF ThresholdCommit
<1>5. {Modified(x, db[x], Given(x)) : x \in differ} \in SUBSET Updates
  <2>1. ASSUME NEW x \in differ PROVE Modified(x, db[x], Given(x)) \in Updates
    <3>1. x \in Objects /\ db[x] \in RowsOf(x) /\ Given(x) \in RowsOf(x)
      BY <1>3
    <3> HIDE DEF Given
    <3> QED BY <3>1, RowUpdatesAre
  <2> HIDE DEF differ, Given
  <2> QED BY <2>1
<1>6. named \subseteq DOMAIN db
  OBVIOUS
<1> HIDE DEF named, Given, differ
<1>7. DbOk'
  BY <1>1, <1>3, <1>4, <1>6 DEF DbOk
<1>8. wire' \in Seq(SUBSET Updates)
  BY <1>1, <1>4, <1>5, Told
<1>9. CallOk(call')
  BY <1>1, <1>4, CallGoes
<1>10. CallOk(call)'
  BY <1>9 DEF CallOk, SetsObject
<1> QED BY <1>1, <1>7, <1>8, <1>10 DEF OvInv, CacheOk

LEMMA SystemCommitKeeps == OvInv /\ ConfigCommit => OvInv'
<1> SUFFICES ASSUME OvInv, ConfigCommit PROVE OvInv'
  OBVIOUS
<1>1. /\ UNCHANGED <<db, cache, cacheConfig, uuid, monitor, readLocks, changes, made>>
      /\ CallOk(call) /\ wire \in Seq(SUBSET Updates) /\ call.what = "config" /\ dbConfig \in Configs
  BY DEF ConfigCommit, OvInv
<1> DEFINE c == Head(call.todo)
<1>2. c \in Configs
  <2>1. call.todo \in Seq(Configs) \ {<< >>}
    BY <1>1 DEF CallOk, Idle, SetsObject
  <2> DEFINE S == Configs
  <2>2. call.todo \in Seq(S) \ {<< >>}
    BY <2>1
  <2> HIDE DEF S
  <2>3. Head(call.todo) \in S
    BY <2>2
  <2> QED BY <2>3 DEF S
<1>3. /\ (dbConfig' = c /\ Tell({SystemModified(dbConfig, c)})) \/ UNCHANGED <<dbConfig, wire>>
      /\ \E opens \in Opening : Goes1(opens)
  BY DEF ConfigCommit
<1>4. SystemModified(dbConfig, c) \in Updates
  BY <1>1, <1>2 DEF Updates
<1>5. dbConfig' \in Configs /\ wire' \in Seq(SUBSET Updates)
  <2>1. ASSUME Tell({SystemModified(dbConfig, c)}) PROVE wire' \in Seq(SUBSET Updates)
    BY <1>1, <1>4, <2>1, Told
  <2> QED BY <1>1, <1>2, <1>3, <2>1
<1>6. Opening \subseteq BOOLEAN
  BY DEF Opening
<1>7. CallOk(call')
  BY <1>1, <1>3, <1>6, CallGoes
<1>8. CallOk(call)'
  BY <1>7 DEF CallOk, SetsObject
<1> QED BY <1>1, <1>5, <1>8 DEF OvInv, DbOk, CacheOk

LEMMA GetKeeps == OvInv /\ (DataGet \/ ThresholdGet) => OvInv'
<1> SUFFICES ASSUME OvInv, DataGet \/ ThresholdGet PROVE OvInv'
  OBVIOUS
<1>1. /\ UNCHANGED <<db, dbConfig, cache, cacheConfig, uuid, monitor, wire, changes, made>>
      /\ \E ok \in BOOLEAN : Goes1(ok)
      /\ readLocks' \in {readLocks, readLocks + 1}
  BY DEF DataGet, ThresholdGet
<1>2. CallOk(call')
  BY <1>1, CallGoes DEF OvInv
<1>3. CallOk(call)'
  BY <1>2 DEF CallOk, SetsObject
<1> QED BY <1>1, <1>3 DEF OvInv, DbOk, CacheOk

LEMMA OvStep == OvInv /\ [OvNext]_ovVars => OvInv'
<1>1. OvInv /\ UNCHANGED ovVars => OvInv'
  BY DEF OvInv, ovVars, DbOk, CacheOk, CallOk, SetsObject
<1> QED BY <1>1, DaemonKeeps, MonitorKeeps, TakenKeeps, CallStarted, CommitKeeps, SystemCommitKeeps, GetKeeps DEF OvNext,
        CallGoesOn

LEMMA OvInvMeans == OvInv => OvTypeOK /\ CacheFromDatabase /\ SetWhereAsked
<1> SUFFICES ASSUME OvInv PROVE OvTypeOK /\ CacheFromDatabase /\ SetWhereAsked
  OBVIOUS
<1>1. OvTypeOK
  <2>1. \A o \in Objects : RowsOf(o) \subseteq [stat : Nat, threshold : Nat]
    BY RowFacts
  <2>2. Zero \in [stat : Nat, threshold : Nat]
    BY DEF Zero
  <2>3. \A a \in DOMAIN cache : cache[a] \in [stat : Nat, threshold : Nat]
    BY <2>1, <2>2 DEF OvInv, CacheOk
  <2>4. DOMAIN db \subseteq Objects /\ \A o \in DOMAIN db : db[o] \in [stat : Nat, threshold : Nat]
    BY <2>1 DEF OvInv, DbOk
  <2> QED BY <2>3, <2>4 DEF OvInv, OvTypeOK
<1>2. CacheFromDatabase
  <2>1. ASSUME NEW a \in DOMAIN cache, NEW o \in Objects, a = <<o[1], DbIndex(o)>>, cache[a] \in RowsOf(o)
        PROVE  /\ cache[a].stat \in {Stat(o, 1), Stat(o, 2)}
               /\ cache[a].threshold \in {FirstThreshold(o)} \cup {Wanted(x) : x \in {y \in Objects : y[1] = o[1] /\ y[1] \in IgnoresQueue}}
                                 \cup {Wanted(o)}
    BY <2>1 DEF RowsOf, StatsOf, ThresholdsOf
  <2> QED BY <2>1 DEF OvInv, CacheOk, CacheFromDatabase
<1>3. SetWhereAsked
  <2>1. ASSUME NEW o \in DOMAIN db, o[1] \notin IgnoresQueue PROVE db[o].threshold \in {FirstThreshold(o), Wanted(o)}
    <3>1. db[o].threshold \in ThresholdsOf(o)
      BY DEF OvInv, DbOk, RowsOf
    <3> QED BY <2>1, <3>1 DEF ThresholdsOf
  <2> QED BY <2>1 DEF SetWhereAsked
<1> QED BY <1>1, <1>2, <1>3

-----------------------------------------------------------------------------
(* The four parts together: of a step of one, the others stay as they are.  *)

LEMMA PartsStep ==
  [MCNext]_agentVars => [StartupNext]_startVars /\ [HbNext]_hbVars /\ [RedNext]_redVars /\ [OvNext]_ovVars
  BY DEF MCNext, StartupRuns, HeartbeatRuns, RedirectorRuns, OvsdbRuns, agentVars

LEMMA PartsInitial == MCInit => StInv /\ StBounds /\ HbInv /\ RedInv /\ FoundInv /\ OvInv
<1> SUFFICES ASSUME MCInit PROVE StInv /\ StBounds /\ HbInv /\ RedInv /\ FoundInv /\ OvInv
  OBVIOUS
<1>1. StInv /\ StBounds
  BY StInitial, StBoundsInitial DEF MCInit
<1>2. OvInv
  BY OvInitial DEF MCInit
<1> QED BY <1>1, <1>2, HbInitial, RedInitial, FoundInitial DEF MCInit

\* A call goes to the plug-in that lists its chip or, when none does, to the
\* one for all chips; a threshold set through the database comes to the row of
\* the statistic it was asked for, and what the cache tells of a statistic is
\* what the database had in its row (sbplugin_redirect_core.c, sb_ovsdb/bst).
THEOREM PluginsRightHold == MCSpec => []PluginsRight
<1>1. RedInv /\ FoundInv /\ OvInv /\ [MCNext]_agentVars => RedInv' /\ FoundInv' /\ OvInv'
  BY PartsStep, RedStep, FoundStep, OvStep
<1>2. RedInv /\ FoundInv /\ OvInv => PluginsRight
  BY FoundMeans, OvInvMeans DEF PluginsRight
<1> QED BY <1>1, <1>2, PartsInitial, PTL DEF MCSpec

\* The types of the four parts: every queue, table and list within its size,
\* whatever fails and however often the agent is started again.
THEOREM AgentTypeCorrect == MCSpec => []AgentTypeOK
<1> DEFINE Inv == StInv /\ StBounds /\ HbInv /\ RedInv /\ FoundInv /\ OvInv
<1>1. MCInit => Inv
  BY PartsInitial
<1>2. Inv /\ [MCNext]_agentVars => Inv'
  BY PartsStep, StStep, StBoundsStep, HbStep, RedStep, FoundStep, OvStep
<1>3. Inv => AgentTypeOK
  BY StBoundsMean, HbInvMeans, FoundMeans, OvInvMeans DEF AgentTypeOK
<1> HIDE DEF Inv
<1> QED BY <1>1, <1>2, <1>3, PTL DEF MCSpec
================================================================================
