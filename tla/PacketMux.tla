----------------------------- MODULE PacketMux -----------------------------
(***************************************************************************)
(* The packet multiplexer (infrastructure/packet_multiplexer): the         *)
(* switch's receive thread posts every packet that some application asked  *)
(* for to a bounded queue, and one dispatching thread hands it to the      *)
(* applications named by its mask.  Applications register and deregister   *)
(* their callback under a mutex the dispatching thread does not take, so   *)
(* the writes to a hook are separate steps here.                           *)
(***************************************************************************)
EXTENDS Naturals, Sequences

CONSTANTS Apps,         \* the applications that receive packets
          Residents,    \* those that register when they start, and stay
          MaxHooks,     \* BVIEW_PKT_MUX_MAX_HOOKS
          MuxQueueSize, \* messages the multiplexer's queue holds
          Nobody        \* no application, no callback, no owner of the mutex

ASSUME MuxAssumption ==
  /\ Residents \subseteq Apps /\ Nobody \notin Apps
  /\ MaxHooks \in Nat \ {0} /\ MuxQueueSize \in Nat \ {0}
  /\ \A a, b \in Apps \ Residents : a = b      \* black hole detection alone deregisters

VARIABLES pktMuxHooks,     \* the hooks, an appID and a callback each
          pkt_mux_mutex,   \* the owner of the mutex
          registration,    \* what each application's thread is doing, and where
          mux_queue,       \* the masks of the queued packets
          receiver,        \* the packet the switch's receive thread waits to post
          dispatcher,      \* the dispatching thread: packet, hook, callback found
          disturbed        \* the hook under dispatch has been deregistered

muxVars == <<pktMuxHooks, pkt_mux_mutex, registration, mux_queue, receiver, dispatcher, disturbed>>

Hooks == 1..MaxHooks
NoHook == [appID |-> Nobody, callbackFunc |-> Nobody]
Masks == (SUBSET Apps) \ {{}}
Waiting == [at |-> "receive", mask |-> {}, hook |-> 1]

PktMuxInit ==
  /\ pktMuxHooks = [h \in Hooks |-> NoHook]
  /\ pkt_mux_mutex = Nobody
  /\ registration = [a \in Apps |-> [at |-> "out", hook |-> 1]]
  /\ mux_queue = << >>
  /\ receiver = {}
  /\ dispatcher = Waiting
  /\ disturbed = FALSE

----------------------------------------------------------------------------
(* The receive thread: a packet of interest is posted with a blocking msgsnd. *)
PacketHandler(mask) ==
  /\ receiver = {}
  /\ receiver' = mask
  /\ UNCHANGED <<pktMuxHooks, pkt_mux_mutex, registration, mux_queue, dispatcher, disturbed>>

PacketPosted ==
  /\ receiver # {}
  /\ Len(mux_queue) < MuxQueueSize
  /\ mux_queue' = Append(mux_queue, receiver)
  /\ receiver' = {}
  /\ UNCHANGED <<pktMuxHooks, pkt_mux_mutex, registration, dispatcher, disturbed>>

----------------------------------------------------------------------------
(* The dispatching thread. *)
MsgReceive ==
  /\ dispatcher.at = "receive"
  /\ mux_queue # << >>
  /\ dispatcher' = [at |-> "check", mask |-> Head(mux_queue), hook |-> 1]
  /\ mux_queue' = Tail(mux_queue)
  /\ disturbed' = FALSE
  /\ UNCHANGED <<pktMuxHooks, pkt_mux_mutex, registration, receiver>>

NextHook == IF dispatcher.hook = MaxHooks THEN Waiting
            ELSE [dispatcher EXCEPT !.at = "check", !.hook = @ + 1]

(* The mask is compared with the appID of the hook, without the mutex ... *)
CheckHook ==
  /\ dispatcher.at = "check"
  /\ dispatcher' = IF pktMuxHooks[dispatcher.hook].appID \in dispatcher.mask
                   THEN [dispatcher EXCEPT !.at = "call"] ELSE NextHook
  /\ disturbed' = FALSE
  /\ UNCHANGED <<pktMuxHooks, pkt_mux_mutex, registration, mux_queue, receiver>>

(* ... and only then is its callback read and called. *)
CallHook ==
  /\ dispatcher.at = "call"
  /\ dispatcher' = NextHook
  /\ UNCHANGED <<pktMuxHooks, pkt_mux_mutex, registration, mux_queue, receiver, disturbed>>

----------------------------------------------------------------------------
(* Registration, again for every unit: the search stops at the first hook  *)
(* that is this application's or free.  Packet trace registers while the   *)
(* agent starts, black hole detection whenever its feature is enabled.     *)
FirstHook(a, wanted) ==
  LET found == {h \in Hooks : pktMuxHooks[h].appID \in wanted}
  IN IF found = {} THEN 0 ELSE CHOOSE h \in found : \A g \in found : h <= g

MutexTake(a) == pkt_mux_mutex = Nobody /\ pkt_mux_mutex' = a

RegisterSearch(a) ==
  /\ registration[a].at \in {"out", "in"}
  /\ a \in Residents \/ \A r \in Residents : registration[r].at = "in"
  /\ MutexTake(a)
  /\ LET h == FirstHook(a, {a, Nobody})
     IN registration' = [registration EXCEPT ![a] =
          IF h = 0 \/ pktMuxHooks[h].appID = a THEN [at |-> "refused", hook |-> 1]
          ELSE [at |-> "write", hook |-> h]]
  /\ UNCHANGED <<pktMuxHooks, mux_queue, receiver, dispatcher, disturbed>>

RegisterRefused(a) ==
  /\ registration[a].at = "refused"
  /\ pkt_mux_mutex' = Nobody
  /\ registration' = [registration EXCEPT ![a].at =
       IF \E h \in Hooks : pktMuxHooks[h].appID = a THEN "in" ELSE "out"]
  /\ UNCHANGED <<pktMuxHooks, mux_queue, receiver, dispatcher, disturbed>>

(* The callback is stored before the appID that lets the dispatcher use it. *)
FirstWriteOfId(a, hook) == [hook EXCEPT !.appID = a]

FirstWrite(a, hook) == [hook EXCEPT !.callbackFunc = a]

LastWrite(a, hook) == [hook EXCEPT !.appID = a]

RegisterWrite(a) ==
  /\ registration[a].at = "write"
  /\ LET h == registration[a].hook
     IN pktMuxHooks' = [pktMuxHooks EXCEPT ![h] = FirstWrite(a, @)]
  /\ registration' = [registration EXCEPT ![a].at = "publish"]
  /\ UNCHANGED <<pkt_mux_mutex, mux_queue, receiver, dispatcher, disturbed>>

RegisterPublish(a) ==
  /\ registration[a].at = "publish"
  /\ LET h == registration[a].hook
     IN pktMuxHooks' = [pktMuxHooks EXCEPT ![h] = LastWrite(a, @)]
  /\ registration' = [registration EXCEPT ![a].at = "in"]
  /\ pkt_mux_mutex' = Nobody
  /\ UNCHANGED <<mux_queue, receiver, dispatcher, disturbed>>

(* Deregistration clears the appID, then the callback. *)
DeregisterId(a) ==
  /\ registration[a].at = "in" /\ a \notin Residents
  /\ MutexTake(a)
  /\ LET h == FirstHook(a, {a})
     IN /\ h # 0
        /\ pktMuxHooks' = [pktMuxHooks EXCEPT ![h].appID = Nobody]
        /\ registration' = [registration EXCEPT ![a] = [at |-> "clear", hook |-> h]]
        /\ disturbed' = (disturbed \/ dispatcher.hook = h)
  /\ UNCHANGED <<mux_queue, receiver, dispatcher>>

DeregisterCallback(a) ==
  /\ registration[a].at = "clear"
  /\ pktMuxHooks' = [pktMuxHooks EXCEPT ![registration[a].hook].callbackFunc = Nobody]
  /\ registration' = [registration EXCEPT ![a].at = "out"]
  /\ pkt_mux_mutex' = Nobody
  /\ UNCHANGED <<mux_queue, receiver, dispatcher, disturbed>>

PktMuxRegister(a) == RegisterSearch(a) \/ RegisterRefused(a) \/ RegisterWrite(a) \/ RegisterPublish(a)
PktMuxDeregister(a) == DeregisterId(a) \/ DeregisterCallback(a)
PktMuxMain == MsgReceive \/ CheckHook \/ CallHook

PktMuxNext ==
  \/ \E mask \in Masks : PacketHandler(mask)
  \/ PacketPosted
  \/ PktMuxMain
  \/ \E a \in Apps : PktMuxRegister(a) \/ PktMuxDeregister(a)

(* The threads run: the dispatcher takes its steps and a blocked post is   *)
(* completed once there is room.                                           *)
PktMuxFairness == WF_muxVars(PktMuxMain) /\ WF_muxVars(PacketPosted)
PktMuxSpec == PktMuxInit /\ [][PktMuxNext]_muxVars /\ PktMuxFairness

----------------------------------------------------------------------------
PktMuxTypeOK ==
  /\ pktMuxHooks \in [Hooks -> [appID : Apps \cup {Nobody}, callbackFunc : Apps \cup {Nobody}]]
  /\ pkt_mux_mutex \in Apps \cup {Nobody}
  /\ registration \in [Apps -> [at : {"out", "refused", "write", "publish", "in", "clear"}, hook : Hooks]]
  /\ mux_queue \in Seq(Masks) /\ Len(mux_queue) <= MuxQueueSize
  /\ receiver \in SUBSET Apps
  /\ dispatcher \in [at : {"receive", "check", "call"}, mask : SUBSET Apps, hook : Hooks]
  /\ disturbed \in BOOLEAN

(* An application owns at most one hook, and while it is not registering   *)
(* or deregistering the hook carries its callback: a packet is delivered   *)
(* once to an application that asked for it (pkt_mux_register's search).   *)
OneHookEach ==
  \A a \in Apps :
    /\ \A g, h \in Hooks : pktMuxHooks[g].appID = a /\ pktMuxHooks[h].appID = a => g = h
    /\ registration[a].at = "in" =>
         \E h \in Hooks : pktMuxHooks[h] = [appID |-> a, callbackFunc |-> a]

(* The callback the dispatcher is about to call belongs to an application  *)
(* the packet is for, unless that hook was deregistered since its appID    *)
(* was read: the unlocked reader relies on the order of the writes of      *)
(* pkt_mux_register (packet_multiplexer.c:243-248).                        *)
CallbackIsOwners ==
  dispatcher.at = "call" /\ ~disturbed =>
    pktMuxHooks[dispatcher.hook].callbackFunc \in dispatcher.mask

(* An application has one hook, and a packet goes to the callback of the   *)
(* application that its mask names, while hooks are taken and given back.  *)
HooksRight == OneHookEach /\ CallbackIsOwners

(* The receive thread of the switch, which waits in msgsnd for room in the *)
(* queue, is always released by the dispatcher.                            *)
ReceiverReleased == receiver # {} ~> receiver = {}
=============================================================================
