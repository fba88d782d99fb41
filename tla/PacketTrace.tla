---------------------------- MODULE PacketTrace ----------------------------
(***************************************************************************)
(* The packet trace application (apps/packet_trace): its thread serves     *)
(* requests of clients, ticks of the timers of periodic profiles and       *)
(* packets that matched a 5-tuple profile, all from one bounded queue.     *)
(* A profile occupies a slot of profile_list and a timer of pt_timer; a    *)
(* 5-tuple profile also a rule of the switch (PtRules).  One client asks   *)
(* and waits for its answer; reports go to the collector.                  *)
(***************************************************************************)
EXTENDS PtRules, Sequences

CONSTANTS Ids,          \* ids of requests
          CarelessIds,  \* bound: those that careless clients use
          Kinds,        \* "profile", "lag", "ecmp": what a report resolves
          MaxProfiles,  \* BVIEW_PT_MAX_PROFILE_REQUESTS
          MaxTimers,    \* bound: system timers that share a slot
          PktQueue,     \* messages the application's queue holds
          HalfQueue,    \* SYSTEM_MSGQ_MAX_MSG/2
          PktLimit,     \* packets reported per interval
          PtFaults      \* calls that may fail: PtRules', "timer", "collect", "pcap"

ASSUME PacketTraceAssumption ==
  /\ Ids \subseteq Nat \ {0}
  /\ MaxProfiles \in Nat \ {0} /\ MaxTimers \in Nat /\ PktQueue \in Nat \ {0} /\ HalfQueue \in Nat /\ PktLimit \in Nat

VARIABLES careful,       \* the clients' discipline, see MayGet and MayCancel
          ptEnable,      \* feature.ptEnable
          profile_list,  \* the slots
          pt_timer,      \* what the application knows of each slot's timer
          reportedPkts,  \* packets of each slot reported in this interval
          running,       \* system timers whose context is the slot's
          queue,         \* the application's message queue
          client,        \* the client: idle, or the request it waits for
          believed,      \* the periodic profiles a careful client was told are collected
          sent,          \* the last report or error sent to a careful client's collector
          rules          \* the switch's rules and the plugin's table

ptVars == <<careful, ptEnable, profile_list, reportedPkts, pt_timer, running, queue, client, believed, sent, rules>>

Slots == 0..MaxProfiles - 1
Methods == {"pkt", "5tuple"}
FreeSlot == [in_use |-> FALSE, id |-> 0, type |-> "none", req_method |-> "none", rcvd_pkts |-> 0]
NoTimer == [in_use |-> FALSE, msg_type |-> "none", req_method |-> "none"]
Idle == [msg |-> "idle", id |-> 0, kind |-> "none", method |-> "none", periodic |-> FALSE]
Nothing == [what |-> "nothing", id |-> 0]
Inputs == IF careful THEN {"none"} ELSE PtFaults \cup {"none"}

PtInit ==
  /\ careful \in BOOLEAN
  /\ ptEnable = TRUE
  /\ profile_list = [s \in Slots |-> FreeSlot]
  /\ reportedPkts = [s \in Slots |-> 0]
  /\ pt_timer = [s \in Slots |-> NoTimer]
  /\ running = [s \in Slots |-> 0]
  /\ queue = << >>
  /\ client = Idle
  /\ believed = {}
  /\ sent = Nothing
  /\ rules = EmptyRules

----------------------------------------------------------------------------
(* Clients.  A careful client does not repeat the id of a profile that is  *)
(* collected, asks for all its profiles with the same method, cancels what *)
(* it asked for, last first, and leaves a slot for what it asks.           *)
MayGet(id, method, periodic) ==
  IF careful THEN /\ \A b \in believed : b.id # id /\ b.method = method
                  /\ Cardinality(believed) < MaxProfiles
  ELSE id \in CarelessIds
MayCancel(id, kind) ==
  IF careful THEN \E b \in believed : b.id = id /\ b.kind = kind /\ \A c \in believed : c.nth <= b.nth
  ELSE id \in CarelessIds

Ask(request) ==
  /\ client = Idle
  /\ Len(queue) < PktQueue
  /\ client' = request
  /\ queue' = Append(queue, [request EXCEPT !.msg = "request"])
  /\ sent' = Nothing
  /\ UNCHANGED <<careful, ptEnable, profile_list, reportedPkts, pt_timer, running, believed, rules>>

AskGet(id, kind, method, periodic) ==
  MayGet(id, method, periodic) /\
  Ask([msg |-> "get", id |-> id, kind |-> kind, method |-> method, periodic |-> periodic])
AskCancel(id, kind) ==
  MayCancel(id, kind) /\ Ask([Idle EXCEPT !.msg = "cancel", !.id = id, !.kind = kind])
AskFeature(enable) ==
  Ask([Idle EXCEPT !.msg = "feature", !.periodic = enable])

----------------------------------------------------------------------------
(* Timers and packets post with IPC_NOWAIT: when there is no room the      *)
(* message is lost.  A timer finds its message in the slot's context; a    *)
(* context that was cleared makes msgsnd refuse the message.               *)
PeriodicCollectionCb(s) ==
  /\ running[s] > 0
  /\ pt_timer[s].msg_type # "none"
  /\ Len(queue) < PktQueue
  /\ queue' = Append(queue, [msg |-> "tick", id |-> s, kind |-> pt_timer[s].msg_type,
                             method |-> pt_timer[s].req_method, periodic |-> TRUE])
  /\ sent' = Nothing
  /\ UNCHANGED <<careful, ptEnable, profile_list, reportedPkts, pt_timer, running, client, believed, rules>>

(* A bug to tell apart: packets are posted while there is any room. *)
PtPktMuxCbUnbounded(h) ==
  /\ h.match # 0 /\ RuleToReq(rules, h.match) # NoRequest
  /\ Len(queue) < PktQueue
  /\ queue' = Append(queue, [Idle EXCEPT !.msg = "packet", !.id = RuleToReq(rules, h.match)])
  /\ sent' = Nothing
  /\ UNCHANGED <<careful, ptEnable, profile_list, reportedPkts, pt_timer, running, client, believed, rules>>

(* A packet copied by an installed rule carries its match id, which the    *)
(* plugin turns into a request id; a queue more than half full refuses it. *)
PtPktMuxCb(h) ==
  /\ h.match # 0 /\ RuleToReq(rules, h.match) # NoRequest
  /\ Len(queue) <= HalfQueue /\ Len(queue) < PktQueue
  /\ queue' = Append(queue, [Idle EXCEPT !.msg = "packet", !.id = RuleToReq(rules, h.match)])
  /\ sent' = Nothing
  /\ UNCHANGED <<careful, ptEnable, profile_list, reportedPkts, pt_timer, running, client, believed, rules>>

----------------------------------------------------------------------------
(* The application's thread. *)
None == MaxProfiles

(* pt_find_available_index: the first slot that is free or has this id. *)
FindIndex(id) ==
  LET found == {s \in Slots : ~profile_list[s].in_use \/ profile_list[s].id = id}
  IN IF found = {} THEN None ELSE FirstOf(found)

Serving(msg) == queue # << >> /\ Head(queue).msg = msg /\ queue' = Tail(queue)

(* The client is answered; an error has no effect on what it believes. *)
Answer(rv, beliefs) ==
  /\ client' = Idle
  /\ believed' = IF careful /\ rv = "success" THEN beliefs ELSE believed
Unanswered == UNCHANGED <<client, believed>>

(* A bug to tell apart: the context is cleared after it was filled. *)
TimerAddCleared(s, kind, method, same, fault) ==
  /\ running' = [running EXCEPT ![s] = 1]
  /\ pt_timer' = [pt_timer EXCEPT ![s] = [NoTimer EXCEPT !.in_use = TRUE]]

(* The timer of a slot: one that runs at the same interval is forgotten,   *)
(* not deleted, one at another interval (here: of another kind of request) *)
(* is deleted first; a failure clears the context.                         *)
TimerAdd(s, kind, method, same, fault) ==
  LET kept == IF pt_timer[s].in_use /\ ~same THEN running[s] - 1 ELSE running[s]
      started == fault # "timer" /\ kept < MaxTimers
  IN /\ running' = [running EXCEPT ![s] = IF started THEN kept + 1 ELSE kept]
     /\ pt_timer' = [pt_timer EXCEPT ![s] =
          IF started THEN [in_use |-> TRUE, msg_type |-> kind, req_method |-> method] ELSE NoTimer]

(* A bug to tell apart: the timer's handle is forgotten, and it runs on. *)
TimerForget(s) == UNCHANGED running /\ pt_timer' = [pt_timer EXCEPT ![s] = NoTimer]

TimerDelete(s) ==
  /\ running' = [running EXCEPT ![s] = IF pt_timer[s].in_use THEN @ - 1 ELSE @]
  /\ pt_timer' = [pt_timer EXCEPT ![s] = NoTimer]

SetFeature ==
  /\ Serving("request") /\ client.msg = "feature"
  /\ ptEnable' = client.periodic
  /\ Answer("success", believed)
  /\ sent' = Nothing
  /\ UNCHANGED <<careful, profile_list, reportedPkts, pt_timer, running, rules>>

(* What is left of a request for a profile once its slot is filled: the    *)
(* rule of a 5-tuple profile is created, a packet is traced at once.       *)
Collect(m, fault) ==
  IF m.method = "5tuple"
  THEN LET created == ProfileCreate(rules, m.id, fault)
       IN rules' = created.rules /\ Answer(created.rv, believed \cup
            {[id |-> m.id, kind |-> m.kind, method |-> m.method, nth |-> Cardinality(believed)]})
  ELSE /\ UNCHANGED rules
       /\ Answer(IF fault = "collect" THEN "failure" ELSE "success",
                 IF m.periodic THEN believed \cup
                   {[id |-> m.id, kind |-> m.kind, method |-> m.method, nth |-> Cardinality(believed)]}
                 ELSE believed)

FillSlot(s, m) ==
  /\ profile_list' = [profile_list EXCEPT ![s] =
       [in_use |-> TRUE, id |-> m.id, type |-> m.kind, req_method |-> m.method, rcvd_pkts |-> 0]]
  /\ reportedPkts' = [reportedPkts EXCEPT ![s] = 0]

(* pt_trace_profile_get on behalf of a client. *)
ProfileGetRefused(fault) ==
  /\ Serving("request") /\ client.msg = "get"
  /\ \/ ~ptEnable
     \/ client.method = "pkt" /\ fault = "pcap"
     \/ client.periodic /\ FindIndex(client.id) = None
     \/ ~client.periodic /\ client.method = "5tuple"
  /\ Answer("failure", believed)
  /\ sent' = Nothing
  /\ UNCHANGED <<careful, ptEnable, profile_list, reportedPkts, pt_timer, running, rules>>

ProfileGetPeriodic(same, fault) ==
  /\ Serving("request") /\ client.msg = "get" /\ client.periodic /\ ptEnable
  /\ fault # "pcap"
  /\ FindIndex(client.id) # None
  /\ FillSlot(FindIndex(client.id), client)
  /\ TimerAdd(FindIndex(client.id), client.kind, client.method, same, fault)
  /\ Collect(client, fault)
  /\ sent' = Nothing
  /\ UNCHANGED <<careful, ptEnable>>

ProfileGetOnce(fault) ==
  /\ Serving("request") /\ client.msg = "get" /\ ~client.periodic /\ ptEnable
  /\ fault # "pcap" /\ client.method = "pkt"
  /\ Collect(client, fault)
  /\ sent' = Nothing
  /\ UNCHANGED <<careful, ptEnable, profile_list, reportedPkts, pt_timer, running>>

(* What an answer without a client's cookie becomes: a report for the      *)
(* collector, or an asynchronous error.                                    *)
ToCollector(rv, id) ==
  sent' = IF careful THEN [what |-> IF rv = "success" THEN "report" ELSE "error", id |-> id] ELSE Nothing

(* A tick: the method that decides is the one of slot 0, not the slot the  *)
(* tick is for (packet_trace.c:532), and a slot freed since is not noticed.*)
(* A tick of a 5-tuple profile only starts a new interval.                 *)
TickDeciding(s) == profile_list[0].req_method

ProfileTick(fault) ==
  LET m == Head(queue)
      rv == IF ptEnable /\ TickDeciding(m.id) = "pkt" /\ fault # "collect" THEN "success" ELSE "failure"
  IN /\ Serving("tick")
     /\ profile_list' = IF ptEnable /\ profile_list[m.id].req_method = "5tuple"
                        THEN [profile_list EXCEPT ![m.id].rcvd_pkts = 0] ELSE profile_list
     /\ reportedPkts' = IF profile_list' = profile_list THEN reportedPkts
                        ELSE [reportedPkts EXCEPT ![m.id] = 0]
     /\ IF m.method = "5tuple" THEN sent' = Nothing
        ELSE ToCollector(rv, IF rv = "success" THEN profile_list[m.id].id ELSE m.id)
     /\ Unanswered
     /\ UNCHANGED <<careful, ptEnable, pt_timer, running, rules>>

(* pt_trace_pkt_rcv_process: an id that has no slot is looked for in the   *)
(* slot the search ended at, slot 0 if the list is full.                   *)
PacketSlot(id) == IF FindIndex(id) = None THEN 0 ELSE FindIndex(id)

BelowLimit(p) == p.rcvd_pkts < PktLimit

PacketReceived(fault) ==
  LET m == Head(queue)
      s == PacketSlot(m.id)
      p == profile_list[s]
      traced == p.in_use /\ p.req_method = "5tuple"
  IN /\ Serving("packet")
     /\ profile_list' = [profile_list EXCEPT ![s].rcvd_pkts =
                           IF traced /\ @ < PktLimit THEN @ + 1 ELSE @]
     /\ reportedPkts' = [reportedPkts EXCEPT ![s] =
                           IF traced /\ BelowLimit(p) /\ fault # "collect" THEN @ + 1 ELSE @]
     /\ IF ~traced THEN ToCollector("failure", m.id)
        ELSE IF BelowLimit(p) THEN ToCollector(IF fault = "collect" THEN "failure" ELSE "success", m.id)
        ELSE sent' = Nothing
     /\ Unanswered
     /\ UNCHANGED <<careful, ptEnable, pt_timer, running, rules>>

(* pt_trace_profile_cancel: the result of the search is not looked at.     *)
CancelSlot(id) == PacketSlot(id)

ProfileCancel(fault) ==
  LET s == CancelSlot(client.id)
      deleted == ProfileDelete(rules, client.id, fault)
      is5tuple == profile_list[s].req_method = "5tuple"
  IN /\ Serving("request") /\ client.msg = "cancel"
     /\ TimerDelete(s)
     /\ profile_list' = [profile_list EXCEPT ![s] = FreeSlot]
     /\ reportedPkts' = [reportedPkts EXCEPT ![s] = 0]
     /\ rules' = IF is5tuple THEN deleted.rules ELSE rules
     /\ Answer(IF is5tuple THEN deleted.rv ELSE "success", {b \in believed : b.id # client.id})
     /\ sent' = Nothing
     /\ UNCHANGED <<careful, ptEnable>>

PtAppMain(fault) ==
  \/ SetFeature
  \/ ProfileGetRefused(fault)
  \/ \E same \in BOOLEAN : ProfileGetPeriodic(same, fault)
  \/ ProfileGetOnce(fault)
  \/ ProfileTick(fault)
  \/ PacketReceived(fault)
  \/ ProfileCancel(fault)

PtNext ==
  \/ \E id \in Ids, kind \in Kinds, method \in Methods, periodic \in BOOLEAN :
       AskGet(id, kind, method, periodic)
  \/ \E id \in Ids, kind \in Kinds : AskCancel(id, kind)
  \/ \E enable \in BOOLEAN : AskFeature(enable)
  \/ \E s \in Slots : PeriodicCollectionCb(s)
  \/ \E h \in rules.hw : PtPktMuxCb(h)
  \/ \E fault \in Inputs : PtAppMain(fault)

(* The application's thread runs, and a timer that keeps expiring finds    *)
(* room in the queue now and then.                                         *)
PtFairness ==
  /\ WF_ptVars(\E fault \in Inputs : PtAppMain(fault))
  /\ \A s \in Slots : SF_ptVars(PeriodicCollectionCb(s))
PtSpec == PtInit /\ [][PtNext]_ptVars /\ PtFairness

----------------------------------------------------------------------------
PtTypeOK ==
  /\ ptEnable \in BOOLEAN
  /\ profile_list \in [Slots -> [in_use : BOOLEAN, id : Ids \cup {0}, type : Kinds \cup {"none"},
                                 req_method : Methods \cup {"none"}, rcvd_pkts : 0..PktLimit]]
  /\ pt_timer \in [Slots -> [in_use : BOOLEAN, msg_type : Kinds \cup {"none"},
                             req_method : Methods \cup {"none"}]]
  /\ running \in [Slots -> 0..MaxTimers]
  /\ Len(queue) <= PktQueue
  /\ rules.reqToRuleMap \in [Entries -> [requestId : Ids \cup {NoRequest}, ruleMatchId : MatchIds \cup {0},
                                         group : Groups \cup {0}]]

(* The timer the application knows of serves the profile in its slot: same *)
(* kind, same method, and none on a free slot, so that the list, the timer *)
(* table and the context the timer's thread reads cannot drift apart       *)
(* whatever fails and whatever clients ask.                                *)
TimersServeProfiles ==
  \A s \in Slots : pt_timer[s].in_use =>
    /\ profile_list[s].in_use
    /\ pt_timer[s].msg_type = profile_list[s].type
    /\ pt_timer[s].req_method = profile_list[s].req_method

(* Packets leave room in the queue for requests: however fast they come,   *)
(* they never occupy more than half the queue and one (packet_trace_main.c *)
(* :877, comment at 870-874).                                              *)
RoomForRequests ==
  Cardinality({n \in DOMAIN queue : queue[n].msg = "packet"}) <= HalfQueue + 1

(* When careful clients wait for nothing, the slots in use, the running    *)
(* timers and the rules of the switch are exactly those of the profiles    *)
(* the client was told are collected: a cancellation leaves nothing behind *)
(* and takes nothing else away.                                            *)
CollectsWhatWasAsked ==
  careful /\ client = Idle =>
    /\ {profile_list[s].id : s \in {t \in Slots : profile_list[t].in_use}} = {b.id : b \in believed}
    /\ \A s \in Slots : running[s] = IF profile_list[s].in_use THEN 1 ELSE 0
    /\ {h.requestId : h \in rules.hw} = {b.id : b \in {c \in believed : c.method = "5tuple"}}

(* Whatever fails and whatever clients ask, the plugin's table promises    *)
(* nothing that the switch does not have: each request in it has its rule  *)
(* installed, in its group and under a match id that leads to this request *)
(* and no other, and the policy of the copies goes with the last of them.  *)
TablePromisesRules ==
  /\ \A e \in Entries \ EntriesOf(rules, NoRequest) :
       LET r == rules.reqToRuleMap[e]
       IN /\ [group |-> r.group, match |-> r.ruleMatchId, requestId |-> r.requestId] \in rules.hw
          /\ RuleToReq(rules, r.ruleMatchId) = r.requestId
  /\ rules.cpuPolicy => TotalRules(rules) > 0

(* What failed or was refused may stay in the switch besides, and a first  *)
(* rule go without its policy (PtRules): only where clients are careful    *)
(* and no call fails is every rule one of the table's, and are copies      *)
(* policed while there is one.                                             *)
RulesReachRequests ==
  /\ TablePromisesRules
  /\ careful => /\ \A h \in rules.hw : RuleToReq(rules, h.match) = h.requestId
                /\ TotalRules(rules) > 0 => rules.cpuPolicy

(* Packets of a slot are reported only while it holds a 5-tuple profile,    *)
(* at most PktLimit of them per interval, whatever the clients do: the     *)
(* application implements SampledReports.                                  *)
PtLimits == INSTANCE SampledReports WITH
  Subjects <- Slots, Limit <- PktLimit,
  sampling <- [s \in Slots |-> profile_list[s].in_use /\ profile_list[s].req_method = "5tuple"],
  reported <- reportedPkts
PacketsLimited == PtLimits!Spec

(* A packet profile that stays active is reported again and again while    *)
(* the feature is enabled, with careful clients.                           *)
ProfilesReported ==
  \A id \in Ids :
    [](careful /\ ptEnable /\ (\E b \in believed : b.id = id /\ b.method = "pkt")
       => <>(sent = [what |-> "report", id |-> id] \/ ~ptEnable \/ \A b \in believed : b.id # id))
=============================================================================
