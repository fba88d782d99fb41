---------------------------- MODULE PacketAppsProofs ----------------------------
(***************************************************************************)
(* Proofs about the packet multiplexer and about packet trace and black    *)
(* hole detection, for any applications, hooks, packets, ids, slots,       *)
(* queues, limits, units, chips and faults: types, the timers that run,    *)
(* the room packets leave in the queue, the limits on what is reported,    *)
(* and, where clients are careful or nothing fails, that the switch holds  *)
(* what the applications say.  Each is proved for its component and then   *)
(* for the composition that the run checks.                                *)
(***************************************************************************)
EXTENDS MCPacketApps, ProofLemmas, FiniteSetTheorems

-----------------------------------------------------------------------------
(* The packet multiplexer, for any number of resident applications, hooks   *)
(* and queued packets and one application that comes and goes: its          *)
(* inductive invariant.                                                     *)

Owns(a) == \E h \in Hooks : pktMuxHooks[h].appID = a

\* The steps of a registration or a deregistration that hold the mutex.
Busy == {"refused", "write", "publish", "clear"}

MutexHeld == \A a \in Apps : pkt_mux_mutex = a <=> registration[a].at \in Busy

\* A hook that can be found has its callback: it is stored first and cleared last.
FilledIn == \A h \in Hooks :
  pktMuxHooks[h].appID # Nobody => pktMuxHooks[h].callbackFunc = pktMuxHooks[h].appID

OwnedOnce == \A a \in Apps : \A g, h \in Hooks :
  pktMuxHooks[g].appID = a /\ pktMuxHooks[h].appID = a => g = h

\* An application owns a hook from its publication to its deregistration.
OwnedWhenIn == \A a \in Apps :
  /\ registration[a].at = "in" => Owns(a)
  /\ registration[a].at \in {"out", "write", "publish", "clear"} => ~Owns(a)

\* The hook being written or cleared is nobody's, and none below it is free.
WritesFree == \A a \in Apps :
  /\ registration[a].at \in {"write", "publish", "clear"} =>
       pktMuxHooks[registration[a].hook].appID = Nobody
  /\ registration[a].at \in {"write", "publish"} =>
       \A g \in Hooks : g < registration[a].hook => pktMuxHooks[g].appID # Nobody
  /\ registration[a].at = "publish" =>
       pktMuxHooks[registration[a].hook].callbackFunc = a

\* The hooks in use are the first ones: the search never finds a free hook
\* before the application's own.
NoGap == \A h \in Hooks : pktMuxHooks[h].appID # Nobody =>
  \A g \in Hooks : g < h => pktMuxHooks[g].appID # Nobody

\* The application that comes and goes does so behind the residents.
ResidentsFirst == \A b \in Apps \ Residents :
  /\ registration[b].at # "out" => \A r \in Residents : Owns(r)
  /\ \A h \in Hooks : pktMuxHooks[h].appID = b =>
       \A g \in Hooks : h < g => pktMuxHooks[g].appID = Nobody

HooksInv == /\ MutexHeld /\ FilledIn /\ OwnedOnce /\ OwnedWhenIn
            /\ WritesFree /\ NoGap /\ ResidentsFirst

\* The hook under dispatch is still one the packet is for.
DispatchInv == dispatcher.at = "call" /\ ~disturbed =>
  pktMuxHooks[dispatcher.hook].appID \in dispatcher.mask

-----------------------------------------------------------------------------
\* The search of pkt_mux_register and pkt_mux_deregister.
LEMMA FirstHookFound ==
  ASSUME NEW a, NEW wanted
  PROVE  \/ /\ FirstHook(a, wanted) = 0
            /\ \A h \in Hooks : pktMuxHooks[h].appID \notin wanted
         \/ /\ FirstHook(a, wanted) \in Hooks
            /\ pktMuxHooks[FirstHook(a, wanted)].appID \in wanted
            /\ \A g \in Hooks : g < FirstHook(a, wanted) => pktMuxHooks[g].appID \notin wanted
<1> DEFINE found == {h \in Hooks : pktMuxHooks[h].appID \in wanted}
<1>1. CASE found = {}
  BY <1>1 DEF FirstHook
<1>2. CASE found # {}
  <2>1. found \in SUBSET Nat
    BY MuxAssumption DEF Hooks
  <2>2. \E x \in found : \A y \in found : x <= y
    BY <1>2, <2>1, LeastExists
  <2>3. FirstHook(a, wanted) = CHOOSE h \in found : \A g \in found : h <= g
    BY <1>2 DEF FirstHook
  <2>4. FirstHook(a, wanted) \in found /\ \A g \in found : FirstHook(a, wanted) <= g
    BY <2>2, <2>3
  <2>5. \A g \in Hooks : g < FirstHook(a, wanted) => g \notin found
    BY <2>1, <2>4 DEF Hooks
  <2> QED BY <2>4, <2>5
<1> QED BY <1>1, <1>2

-----------------------------------------------------------------------------
(* Types.                                                                   *)

Slot == [appID : Apps \cup {Nobody}, callbackFunc : Apps \cup {Nobody}]
Place == [at : {"out", "refused", "write", "publish", "in", "clear"}, hook : Hooks]

LEMMA OneIsAHook == 1 \in Hooks
  BY MuxAssumption DEF Hooks

LEMMA NextHookType ==
  ASSUME PktMuxTypeOK
  PROVE  NextHook \in [at : {"receive", "check", "call"}, mask : SUBSET Apps, hook : Hooks]
<1>1. Waiting \in [at : {"receive", "check", "call"}, mask : SUBSET Apps, hook : Hooks]
  BY OneIsAHook DEF Waiting
<1>2. dispatcher.hook # MaxHooks => dispatcher.hook + 1 \in Hooks
  BY MuxAssumption DEF PktMuxTypeOK, Hooks
<1> QED BY <1>1, <1>2 DEF PktMuxTypeOK, NextHook

LEMMA TypeStep == PktMuxTypeOK /\ [PktMuxNext]_muxVars => PktMuxTypeOK'
<1> SUFFICES ASSUME PktMuxTypeOK, [PktMuxNext]_muxVars PROVE PktMuxTypeOK'
  OBVIOUS
<1> USE DEF PktMuxTypeOK
<1>1. ASSUME NEW mask \in Masks, PacketHandler(mask) PROVE PktMuxTypeOK'
  BY <1>1 DEF PacketHandler, Masks
<1>2. CASE PacketPosted
  <2>1. receiver \in Masks
    BY <1>2 DEF PacketPosted, Masks
  <2>2. mux_queue' \in Seq(Masks) /\ Len(mux_queue') <= MuxQueueSize
    BY <1>2, <2>1, AppendFacts, MuxAssumption DEF PacketPosted
  <2> QED BY <1>2, <2>2 DEF PacketPosted
<1>3. CASE MsgReceive
  <2>1. Head(mux_queue) \in Masks /\ mux_queue' \in Seq(Masks) /\ Len(mux_queue') <= MuxQueueSize
    BY <1>3, TailFacts, MuxAssumption DEF MsgReceive
  <2> QED BY <1>3, <2>1, OneIsAHook DEF MsgReceive, Masks
<1>4. CASE CheckHook
  BY <1>4, NextHookType DEF CheckHook
<1>5. CASE CallHook
  BY <1>5, NextHookType DEF CallHook
<1>6. ASSUME NEW a \in Apps, RegisterSearch(a) PROVE PktMuxTypeOK'
  <2> DEFINE h == FirstHook(a, {a, Nobody})
  <2>1. h # 0 => h \in Hooks
    BY FirstHookFound
  <2>2. registration' = [registration EXCEPT ![a] =
          IF h = 0 \/ pktMuxHooks[h].appID = a THEN [at |-> "refused", hook |-> 1]
          ELSE [at |-> "write", hook |-> h]]
    BY <1>6 DEF RegisterSearch
  <2> HIDE DEF h
  <2>3. registration' \in [Apps -> Place]
    BY <2>1, <2>2, OneIsAHook DEF Place
  <2> QED BY <1>6, <2>3 DEF RegisterSearch, MutexTake, Place
<1>7. ASSUME NEW a \in Apps, RegisterRefused(a) PROVE PktMuxTypeOK'
  BY <1>7, ZenonT(60) DEF RegisterRefused
<1>8. ASSUME NEW a \in Apps, RegisterWrite(a) PROVE PktMuxTypeOK'
  BY <1>8, ZenonT(60) DEF RegisterWrite, FirstWrite
<1>9. ASSUME NEW a \in Apps, RegisterPublish(a) PROVE PktMuxTypeOK'
  BY <1>9, ZenonT(60) DEF RegisterPublish, LastWrite
<1>10. ASSUME NEW a \in Apps, DeregisterId(a) PROVE PktMuxTypeOK'
  <2>1. FirstHook(a, {a}) # 0 => FirstHook(a, {a}) \in Hooks
    BY FirstHookFound
  <2> QED BY <1>10, <2>1 DEF DeregisterId, MutexTake
<1>11. ASSUME NEW a \in Apps, DeregisterCallback(a) PROVE PktMuxTypeOK'
  BY <1>11 DEF DeregisterCallback
<1>12. CASE UNCHANGED muxVars
  BY <1>12 DEF muxVars
<1> QED
  BY <1>1, <1>2, <1>3, <1>4, <1>5, <1>6, <1>7, <1>8, <1>9, <1>10, <1>11, <1>12
  DEF PktMuxNext, PktMuxMain, PktMuxRegister, PktMuxDeregister

\* Every variable of the multiplexer keeps its type, and its queue its size.
THEOREM MuxTypeCorrect == PktMuxSpec => []PktMuxTypeOK
<1>1. ASSUME PktMuxInit PROVE PktMuxTypeOK
  <2>1. mux_queue \in Seq(Masks) /\ Len(mux_queue) <= MuxQueueSize
    BY <1>1, MuxAssumption DEF PktMuxInit
  <2>2. pktMuxHooks \in [Hooks -> Slot]
    BY <1>1 DEF PktMuxInit, NoHook, Slot
  <2> QED BY <1>1, <2>1, <2>2, OneIsAHook DEF PktMuxInit, PktMuxTypeOK, Waiting, Slot
<1> QED BY <1>1, TypeStep, PTL DEF PktMuxSpec

-----------------------------------------------------------------------------
(* The hooks.                                                               *)

LEMMA HooksInit == PktMuxInit => HooksInv
<1> SUFFICES ASSUME PktMuxInit PROVE HooksInv
  OBVIOUS
<1>1. \A h \in Hooks : pktMuxHooks[h].appID = Nobody
  BY DEF PktMuxInit, NoHook
<1>2. \A a \in Apps : registration[a].at = "out" /\ a # Nobody
  BY MuxAssumption DEF PktMuxInit
<1>3. MutexHeld
  BY <1>2 DEF PktMuxInit, MutexHeld, Busy
<1> QED
  BY <1>1, <1>2, <1>3
  DEF HooksInv, FilledIn, OwnedOnce, OwnedWhenIn, WritesFree, NoGap, ResidentsFirst, Owns

\* Only registrations and deregistrations change what the invariant is about.
LEMMA ElsewhereUnchanged ==
  ASSUME HooksInv, UNCHANGED <<pktMuxHooks, pkt_mux_mutex, registration>>
  PROVE  HooksInv'
  BY DEF HooksInv, MutexHeld, FilledIn, OwnedOnce, OwnedWhenIn, WritesFree, NoGap, ResidentsFirst, Owns

\* While an application holds the mutex no other one is in the middle of
\* anything.
LEMMA OthersQuiet ==
  ASSUME HooksInv, NEW a \in Apps, NEW b \in Apps, b # a,
         pkt_mux_mutex = a \/ pkt_mux_mutex = Nobody
  PROVE  registration[b].at \notin Busy
  BY MuxAssumption DEF HooksInv, MutexHeld

LEMMA SearchStep ==
  ASSUME PktMuxTypeOK, HooksInv, NEW a \in Apps, RegisterSearch(a)
  PROVE  HooksInv'
<1> DEFINE h == FirstHook(a, {a, Nobody})
           new == IF h = 0 \/ pktMuxHooks[h].appID = a THEN [at |-> "refused", hook |-> 1]
                  ELSE [at |-> "write", hook |-> h]
<1>1. /\ registration[a].at \in {"out", "in"}
      /\ pkt_mux_mutex = Nobody /\ pkt_mux_mutex' = a /\ UNCHANGED pktMuxHooks
      /\ registration' = [registration EXCEPT ![a] = new]
      /\ a \notin Residents => \A r \in Residents : registration[r].at = "in"
  BY DEF RegisterSearch, MutexTake
<1>2. \/ h = 0 /\ \A g \in Hooks : pktMuxHooks[g].appID \notin {a, Nobody}
      \/ /\ h \in Hooks /\ pktMuxHooks[h].appID \in {a, Nobody}
         /\ \A g \in Hooks : g < h => pktMuxHooks[g].appID \notin {a, Nobody}
  BY FirstHookFound
<1>3. h \in Hooks => h # 0
  BY MuxAssumption DEF Hooks
<1> HIDE DEF h
<1>4. registration'[a] = new /\ \A b \in Apps : b # a => registration'[b] = registration[b]
  BY <1>1 DEF PktMuxTypeOK
<1>5. new.at = "refused" \/ (new.at = "write" /\ new.hook = h /\ h \in Hooks /\ pktMuxHooks[h].appID = Nobody)
  BY <1>2, <1>3
<1>6. new.at = "write" => ~Owns(a)
  \* Its own hook would lie behind the free one that was found.
  <2> SUFFICES ASSUME new.at = "write", NEW g \in Hooks, pktMuxHooks[g].appID = a PROVE FALSE
    BY DEF Owns
  <2>1. h \in Hooks /\ pktMuxHooks[h].appID = Nobody
    BY <1>5
  <2>2. ~(g < h)
    BY <1>2, <1>3, <2>1
  <2>3. a # Nobody
    BY MuxAssumption
  <2>4. h < g
    BY <2>1, <2>2, <2>3 DEF Hooks
  <2> QED BY <2>1, <2>3, <2>4 DEF HooksInv, NoGap
<1>7. MutexHeld'
  BY <1>1, <1>4, <1>5, OthersQuiet, MuxAssumption DEF MutexHeld, Busy
<1>8. FilledIn' /\ OwnedOnce' /\ NoGap'
  BY <1>1 DEF HooksInv, FilledIn, OwnedOnce, NoGap
<1>9. OwnedWhenIn'
  <2>1. Owns(a)' = Owns(a) /\ \A b \in Apps : Owns(b)' = Owns(b)
    BY <1>1 DEF Owns
  <2> QED BY <1>4, <1>5, <1>6, <2>1 DEF HooksInv, OwnedWhenIn
<1>10. WritesFree'
  <2>1. \A b \in Apps : b # a => registration[b].at \notin Busy
    BY <1>1, OthersQuiet
  <2>2. \A g \in Hooks : new.at = "write" /\ g < h => pktMuxHooks[g].appID # Nobody
    BY <1>2, <1>3, <1>5
  <2> QED BY <1>1, <1>4, <1>5, <2>1, <2>2 DEF WritesFree, Busy
<1>11. ResidentsFirst'
  <2>1. \A r \in Residents : Owns(r)' = Owns(r) /\ r \in Apps
    BY <1>1, MuxAssumption DEF Owns
  <2>2. a \notin Residents => \A r \in Residents : Owns(r)
    BY <1>1, <2>1 DEF HooksInv, OwnedWhenIn
  <2> QED BY <1>1, <1>4, <2>1, <2>2 DEF HooksInv, ResidentsFirst
<1> QED BY <1>7, <1>8, <1>9, <1>10, <1>11 DEF HooksInv

LEMMA RefusedStep ==
  ASSUME PktMuxTypeOK, HooksInv, NEW a \in Apps, RegisterRefused(a)
  PROVE  HooksInv'
<1>1. /\ registration[a].at = "refused" /\ pkt_mux_mutex = a
      /\ pkt_mux_mutex' = Nobody /\ UNCHANGED pktMuxHooks
      /\ registration'[a].at = IF Owns(a) THEN "in" ELSE "out"
      /\ \A b \in Apps : b # a => registration'[b] = registration[b]
  BY DEF RegisterRefused, PktMuxTypeOK, HooksInv, MutexHeld, Busy, Owns
<1>2. \A b \in Apps : b # a => registration[b].at \notin Busy
  BY <1>1, OthersQuiet
<1>3. \A b \in Apps : Owns(b)' = Owns(b)
  BY <1>1 DEF Owns
<1>4. MutexHeld'
  BY <1>1, <1>2, MuxAssumption DEF MutexHeld, Busy
<1>5. FilledIn' /\ OwnedOnce' /\ NoGap' /\ OwnedWhenIn' /\ WritesFree'
  BY <1>1, <1>2, <1>3 DEF HooksInv, FilledIn, OwnedOnce, NoGap, OwnedWhenIn, WritesFree, Busy
<1>6. ResidentsFirst'
  BY <1>1, <1>3, MuxAssumption DEF HooksInv, ResidentsFirst
<1> QED BY <1>4, <1>5, <1>6 DEF HooksInv

LEMMA WriteStep ==
  ASSUME PktMuxTypeOK, HooksInv, NEW a \in Apps, RegisterWrite(a)
  PROVE  HooksInv'
<1> DEFINE h == registration[a].hook
<1>1. /\ registration[a].at = "write" /\ registration'[a].at = "publish" /\ registration'[a].hook = h
      /\ h \in Hooks /\ pkt_mux_mutex = a /\ UNCHANGED pkt_mux_mutex
      /\ \A b \in Apps : b # a => registration'[b] = registration[b]
  BY DEF RegisterWrite, PktMuxTypeOK, HooksInv, MutexHeld, Busy
<1>2. /\ \A g \in Hooks : pktMuxHooks'[g].appID = pktMuxHooks[g].appID
      /\ \A g \in Hooks : g # h => pktMuxHooks'[g] = pktMuxHooks[g]
      /\ pktMuxHooks'[h].callbackFunc = a
  BY <1>1 DEF RegisterWrite, FirstWrite, PktMuxTypeOK
<1>3. pktMuxHooks[h].appID = Nobody
  BY <1>1 DEF HooksInv, WritesFree
<1>4. \A b \in Apps : b # a => registration[b].at \notin Busy
  BY <1>1, OthersQuiet
<1>5. \A b \in Apps : Owns(b)' = Owns(b)
  BY <1>2 DEF Owns
<1> HIDE DEF h
<1>6. MutexHeld'
  BY <1>1 DEF HooksInv, MutexHeld, Busy
<1>7. FilledIn' /\ OwnedOnce' /\ NoGap'
  BY <1>2, <1>3 DEF HooksInv, FilledIn, OwnedOnce, NoGap
<1>8. OwnedWhenIn'
  BY <1>1, <1>5 DEF HooksInv, OwnedWhenIn
<1>9. WritesFree'
  <2>1. \A g \in Hooks : g < h => pktMuxHooks[g].appID # Nobody
    BY <1>1 DEF HooksInv, WritesFree, h
  <2> QED BY <1>1, <1>2, <1>3, <1>4, <2>1 DEF WritesFree, Busy
<1>10. ResidentsFirst'
  BY <1>1, <1>2, <1>5, MuxAssumption DEF HooksInv, ResidentsFirst
<1> QED BY <1>6, <1>7, <1>8, <1>9, <1>10 DEF HooksInv

LEMMA PublishStep ==
  ASSUME PktMuxTypeOK, HooksInv, NEW a \in Apps, RegisterPublish(a)
  PROVE  HooksInv'
<1> DEFINE h == registration[a].hook
<1>1. /\ registration[a].at = "publish" /\ registration'[a].at = "in"
      /\ h \in Hooks /\ pkt_mux_mutex = a /\ pkt_mux_mutex' = Nobody
      /\ \A b \in Apps : b # a => registration'[b] = registration[b]
  BY DEF RegisterPublish, PktMuxTypeOK, HooksInv, MutexHeld, Busy
<1>2. /\ \A g \in Hooks : pktMuxHooks'[g].callbackFunc = pktMuxHooks[g].callbackFunc
      /\ \A g \in Hooks : g # h => pktMuxHooks'[g] = pktMuxHooks[g]
      /\ pktMuxHooks'[h].appID = a
  BY <1>1 DEF RegisterPublish, LastWrite, PktMuxTypeOK
<1>3. /\ pktMuxHooks[h].appID = Nobody /\ pktMuxHooks[h].callbackFunc = a
      /\ \A g \in Hooks : g < h => pktMuxHooks[g].appID # Nobody
      /\ ~Owns(a)
  BY <1>1 DEF HooksInv, WritesFree, OwnedWhenIn
<1>4. \A b \in Apps : b # a => registration[b].at \notin Busy
  BY <1>1, OthersQuiet
<1>5. a # Nobody
  BY MuxAssumption
<1> HIDE DEF h
<1>6. /\ Owns(a)'
      /\ \A b \in Apps : b # a => Owns(b)' = Owns(b)
  BY <1>1, <1>2, <1>3, MuxAssumption DEF Owns
<1>7. MutexHeld'
  BY <1>1, <1>4, MuxAssumption DEF MutexHeld, Busy
<1>8. FilledIn'
  BY <1>2, <1>3 DEF HooksInv, FilledIn
<1>9. OwnedOnce'
  BY <1>2, <1>3 DEF HooksInv, OwnedOnce, Owns
<1>10. NoGap'
  BY <1>1, <1>2, <1>3, <1>5 DEF HooksInv, NoGap
<1>11. OwnedWhenIn'
  BY <1>1, <1>6 DEF HooksInv, OwnedWhenIn
<1>12. WritesFree'
  BY <1>1, <1>4 DEF WritesFree, Busy
<1>13. ResidentsFirst'
  <2>1. ASSUME NEW b \in Apps \ Residents, registration'[b].at # "out"
        PROVE  \A r \in Residents : Owns(r)'
    BY <1>1, <1>6, <2>1, MuxAssumption DEF HooksInv, ResidentsFirst
  <2>2. ASSUME NEW b \in Apps \ Residents, NEW g \in Hooks, pktMuxHooks'[g].appID = b,
               NEW f \in Hooks, g < f
        PROVE  pktMuxHooks'[f].appID = Nobody
    <3>1. CASE a = b
      \* The hook published is the first free one.
      <4>1. g = h
        BY <1>2, <1>3, <2>2, <3>1 DEF Owns
      <4>2. pktMuxHooks[f].appID = Nobody
        BY <1>3, <2>2, <4>1 DEF HooksInv, NoGap
      <4>3. f # h
        BY <2>2, <4>1 DEF Hooks
      <4> QED BY <1>2, <4>2, <4>3
    <3>2. CASE a # b
      \* A resident is published only while nobody else is in.
      <4>1. a \in Residents
        BY <3>2, MuxAssumption
      <4>2. g # h /\ pktMuxHooks[g].appID = b
        BY <1>2, <2>2, <3>2
      <4>3. registration[b].at # "out"
        BY <4>2 DEF HooksInv, OwnedWhenIn, Owns
      <4>4. Owns(a)
        BY <4>1, <4>3 DEF HooksInv, ResidentsFirst
      <4> QED BY <1>3, <4>4
    <3> QED BY <3>1, <3>2
  <2> QED BY <2>1, <2>2 DEF ResidentsFirst
<1> QED BY <1>7, <1>8, <1>9, <1>10, <1>11, <1>12, <1>13 DEF HooksInv

LEMMA DeregisterIdStep ==
  ASSUME PktMuxTypeOK, HooksInv, NEW a \in Apps, DeregisterId(a)
  PROVE  /\ HooksInv'
         /\ \E h \in Hooks :
              /\ disturbed' = (disturbed \/ dispatcher.hook = h)
              /\ \A g \in Hooks : g # h => pktMuxHooks'[g] = pktMuxHooks[g]
<1> DEFINE h == FirstHook(a, {a})
<1>1. /\ registration[a].at = "in" /\ a \notin Residents
      /\ pkt_mux_mutex = Nobody /\ pkt_mux_mutex' = a /\ h # 0
      /\ disturbed' = (disturbed \/ dispatcher.hook = h)
      /\ registration'[a].at = "clear" /\ registration'[a].hook = h
      /\ \A b \in Apps : b # a => registration'[b] = registration[b]
  BY DEF DeregisterId, MutexTake, PktMuxTypeOK
<1>2. h \in Hooks /\ pktMuxHooks[h].appID = a
  BY <1>1, FirstHookFound
<1>3. /\ \A g \in Hooks : g # h => pktMuxHooks'[g] = pktMuxHooks[g]
      /\ pktMuxHooks'[h].appID = Nobody
  BY <1>2 DEF DeregisterId, PktMuxTypeOK
<1> HIDE DEF h
<1>4. \A b \in Apps : b # a => registration[b].at \notin Busy
  BY <1>1, OthersQuiet
<1>5. a # Nobody
  BY MuxAssumption
<1>6. /\ ~Owns(a)'
      /\ \A b \in Apps : b # a => Owns(b)' = Owns(b)
  BY <1>2, <1>3, <1>5, MuxAssumption DEF HooksInv, OwnedOnce, Owns
<1>7. MutexHeld'
  BY <1>1, <1>4, <1>5 DEF MutexHeld, Busy
<1>8. FilledIn' /\ OwnedOnce'
  BY <1>3, <1>5, MuxAssumption DEF HooksInv, FilledIn, OwnedOnce
<1>9. NoGap'
  \* Nobody has a hook behind the one that is given back.
  <2>1. \A g \in Hooks : h < g => pktMuxHooks[g].appID = Nobody
    BY <1>1, <1>2 DEF HooksInv, ResidentsFirst
  <2> QED BY <1>2, <1>3, <2>1 DEF HooksInv, NoGap, Hooks
<1>10. OwnedWhenIn'
  BY <1>1, <1>6 DEF HooksInv, OwnedWhenIn
<1>11. WritesFree'
  BY <1>1, <1>3, <1>4 DEF WritesFree, Busy
<1>12. ResidentsFirst'
  <2>1. \A b \in Apps \ Residents : b = a
    BY <1>1, MuxAssumption
  <2>2. \A r \in Residents : Owns(r)
    BY <1>1 DEF HooksInv, ResidentsFirst
  <2>3. \A g \in Hooks : pktMuxHooks'[g].appID # a
    BY <1>6 DEF Owns
  <2> QED BY <1>1, <1>6, <2>1, <2>2, <2>3, MuxAssumption DEF ResidentsFirst
<1> QED BY <1>1, <1>2, <1>3, <1>7, <1>8, <1>9, <1>10, <1>11, <1>12 DEF HooksInv

LEMMA DeregisterCallbackStep ==
  ASSUME PktMuxTypeOK, HooksInv, NEW a \in Apps, DeregisterCallback(a)
  PROVE  HooksInv'
<1> DEFINE h == registration[a].hook
<1>1. /\ registration[a].at = "clear" /\ registration'[a].at = "out"
      /\ h \in Hooks /\ pkt_mux_mutex = a /\ pkt_mux_mutex' = Nobody
      /\ \A b \in Apps : b # a => registration'[b] = registration[b]
  BY DEF DeregisterCallback, PktMuxTypeOK, HooksInv, MutexHeld, Busy
<1>2. /\ \A g \in Hooks : pktMuxHooks'[g].appID = pktMuxHooks[g].appID
      /\ \A g \in Hooks : g # h => pktMuxHooks'[g] = pktMuxHooks[g]
  BY <1>1 DEF DeregisterCallback, PktMuxTypeOK
<1>3. pktMuxHooks[h].appID = Nobody
  BY <1>1 DEF HooksInv, WritesFree
<1>4. \A b \in Apps : b # a => registration[b].at \notin Busy
  BY <1>1, OthersQuiet
<1>5. \A b \in Apps : Owns(b)' = Owns(b)
  BY <1>2 DEF Owns
<1> HIDE DEF h
<1>6. MutexHeld'
  BY <1>1, <1>4, MuxAssumption DEF MutexHeld, Busy
<1>7. FilledIn' /\ OwnedOnce' /\ NoGap'
  BY <1>2, <1>3 DEF HooksInv, FilledIn, OwnedOnce, NoGap
<1>8. OwnedWhenIn' /\ WritesFree'
  BY <1>1, <1>4, <1>5 DEF HooksInv, OwnedWhenIn, WritesFree, Busy
<1>9. ResidentsFirst'
  BY <1>1, <1>2, <1>5, MuxAssumption DEF HooksInv, ResidentsFirst
<1> QED BY <1>6, <1>7, <1>8, <1>9 DEF HooksInv

LEMMA HooksStep == PktMuxTypeOK /\ HooksInv /\ [PktMuxNext]_muxVars => HooksInv'
<1> SUFFICES ASSUME PktMuxTypeOK, HooksInv, [PktMuxNext]_muxVars PROVE HooksInv'
  OBVIOUS
<1>1. ASSUME NEW a \in Apps, PktMuxRegister(a) \/ PktMuxDeregister(a) PROVE HooksInv'
  BY <1>1, SearchStep, RefusedStep, WriteStep, PublishStep, DeregisterIdStep, DeregisterCallbackStep
  DEF PktMuxRegister, PktMuxDeregister
<1>2. ASSUME \/ \E mask \in Masks : PacketHandler(mask)
             \/ PacketPosted \/ PktMuxMain \/ UNCHANGED muxVars
      PROVE  HooksInv'
  BY <1>2, ElsewhereUnchanged
  DEF PacketHandler, PacketPosted, PktMuxMain, MsgReceive, CheckHook, CallHook, muxVars
<1> QED BY <1>1, <1>2 DEF PktMuxNext

-----------------------------------------------------------------------------
(* The dispatcher, which takes no mutex.                                    *)

\* No step but a deregistration, which disturbs it, takes the appID of the
\* hook under dispatch away.
LEMMA AppIdKept ==
  ASSUME PktMuxTypeOK, HooksInv, NEW a \in Apps,
         RegisterSearch(a) \/ RegisterRefused(a) \/ RegisterWrite(a) \/ RegisterPublish(a)
         \/ DeregisterCallback(a),
         NEW h \in Hooks, pktMuxHooks[h].appID \in Apps
  PROVE  pktMuxHooks'[h].appID = pktMuxHooks[h].appID /\ UNCHANGED <<dispatcher, disturbed>>
<1>1. CASE RegisterSearch(a) \/ RegisterRefused(a)
  BY <1>1 DEF RegisterSearch, RegisterRefused
<1>2. CASE RegisterWrite(a) \/ DeregisterCallback(a)
  <2>1. CASE RegisterWrite(a)
    BY <2>1 DEF RegisterWrite, FirstWrite, PktMuxTypeOK
  <2>2. CASE DeregisterCallback(a)
    BY <2>2 DEF DeregisterCallback, PktMuxTypeOK
  <2> QED BY <1>2, <2>1, <2>2
<1>3. CASE RegisterPublish(a)
  <2>1. pktMuxHooks[registration[a].hook].appID = Nobody
    BY <1>3 DEF RegisterPublish, HooksInv, WritesFree
  <2>2. h # registration[a].hook
    BY <2>1, MuxAssumption
  <2> QED BY <1>3, <2>2 DEF RegisterPublish, PktMuxTypeOK
<1> QED BY <1>1, <1>2, <1>3

LEMMA DispatchStep ==
  PktMuxTypeOK /\ HooksInv /\ DispatchInv /\ [PktMuxNext]_muxVars => DispatchInv'
<1> SUFFICES ASSUME PktMuxTypeOK, HooksInv, DispatchInv, [PktMuxNext]_muxVars,
                    dispatcher'.at = "call", ~disturbed'
             PROVE  pktMuxHooks'[dispatcher'.hook].appID \in dispatcher'.mask
  BY DEF DispatchInv
<1>0. NextHook.at # "call"
  BY DEF NextHook, Waiting, PktMuxTypeOK
<1>1. CASE PktMuxMain
  <2>1. CheckHook
    BY <1>0, <1>1 DEF PktMuxMain, MsgReceive, CallHook
  <2> QED BY <1>0, <2>1 DEF CheckHook, PktMuxTypeOK
<1>2. CASE (\E mask \in Masks : PacketHandler(mask)) \/ PacketPosted \/ UNCHANGED muxVars
  BY <1>2 DEF PacketHandler, PacketPosted, muxVars, DispatchInv
<1>3. ASSUME NEW a \in Apps, PktMuxRegister(a) \/ PktMuxDeregister(a)
      PROVE  pktMuxHooks'[dispatcher'.hook].appID \in dispatcher'.mask
  <2>1. UNCHANGED dispatcher /\ dispatcher.hook \in Hooks /\ dispatcher.mask \subseteq Apps
    BY <1>3 DEF PktMuxRegister, PktMuxDeregister, RegisterSearch, RegisterRefused, RegisterWrite,
                RegisterPublish, DeregisterId, DeregisterCallback, PktMuxTypeOK
  <2>2. CASE DeregisterId(a)
    <3>1. PICK h \in Hooks : /\ disturbed' = (disturbed \/ dispatcher.hook = h)
                             /\ \A g \in Hooks : g # h => pktMuxHooks'[g] = pktMuxHooks[g]
      BY <2>2, DeregisterIdStep
    <3>2. dispatcher.hook # h /\ ~disturbed
      BY <3>1
    <3> QED BY <2>1, <3>1, <3>2 DEF DispatchInv
  <2>3. CASE ~DeregisterId(a)
    <3>1. UNCHANGED disturbed
      BY <1>3, <2>3 DEF PktMuxRegister, PktMuxDeregister, RegisterSearch, RegisterRefused,
                        RegisterWrite, RegisterPublish, DeregisterCallback
    <3>2. pktMuxHooks[dispatcher.hook].appID \in dispatcher.mask
      BY <2>1, <3>1 DEF DispatchInv
    <3> QED BY <1>3, <2>1, <2>3, <3>2, AppIdKept DEF PktMuxRegister, PktMuxDeregister
  <2> QED BY <2>2, <2>3
<1> QED BY <1>1, <1>2, <1>3 DEF PktMuxNext

-----------------------------------------------------------------------------
\* For any number of hooks and residents, an application owns at most one hook,
\* owns it with its callback while it is registered, and a packet goes to the
\* callback of an application its mask names, although the dispatcher reads
\* the hooks without the mutex (pkt_mux_register, pkt_mux_deregister).
THEOREM HooksRightHolds == PktMuxSpec => []HooksRight
<1>1. PktMuxInit => HooksInv /\ DispatchInv
  BY HooksInit DEF PktMuxInit, DispatchInv, Waiting
<1>2. PktMuxTypeOK /\ HooksInv /\ DispatchInv => HooksRight
  <2> SUFFICES ASSUME PktMuxTypeOK, HooksInv, DispatchInv PROVE HooksRight
    OBVIOUS
  <2>1. OneHookEach
    <3>1. ASSUME NEW a \in Apps, registration[a].at = "in"
          PROVE  \E h \in Hooks : pktMuxHooks[h] = [appID |-> a, callbackFunc |-> a]
      <4>1. PICK h \in Hooks : pktMuxHooks[h].appID = a
        BY <3>1 DEF HooksInv, OwnedWhenIn, Owns
      <4>2. pktMuxHooks[h].callbackFunc = a
        BY <4>1, MuxAssumption DEF HooksInv, FilledIn
      <4> QED BY <4>1, <4>2 DEF PktMuxTypeOK
    <3> QED BY <3>1 DEF OneHookEach, HooksInv, OwnedOnce
  <2>2. CallbackIsOwners
    <3> SUFFICES ASSUME dispatcher.at = "call", ~disturbed
                 PROVE  pktMuxHooks[dispatcher.hook].callbackFunc \in dispatcher.mask
      BY DEF CallbackIsOwners
    <3>1. pktMuxHooks[dispatcher.hook].appID \in dispatcher.mask /\ dispatcher.hook \in Hooks
          /\ dispatcher.mask \subseteq Apps
      BY DEF DispatchInv, PktMuxTypeOK
    <3> QED BY <3>1, MuxAssumption DEF HooksInv, FilledIn
  <2> QED BY <2>1, <2>2 DEF HooksRight
<1> QED BY <1>1, <1>2, MuxTypeCorrect, HooksStep, DispatchStep, PTL DEF PktMuxSpec

-----------------------------------------------------------------------------
(* The plugin's rules: operators on a table and the switch's groups.        *)

RuleEntry == [requestId : Ids \cup {NoRequest}, ruleMatchId : MatchIds \cup {0}, group : Groups \cup {0}]
HwGroup == [group : Groups, match : MatchIds \cup {0}, requestId : Ids]
Rules == [reqToRuleMap : [Entries -> RuleEntry], hw : SUBSET HwGroup, cpuKnown : BOOLEAN, cpuPolicy : BOOLEAN]

LEMMA RuleNumbers ==
  /\ MaxRules \in Nat /\ MaxRules >= 1 /\ MaxGroups \in Nat /\ MaxGroups >= 1
  /\ Entries \subseteq Nat /\ MatchIds \subseteq Nat /\ Groups \subseteq Nat
  /\ Entries = 1 .. MaxRules /\ MatchIds = 1 .. MaxRules + 1 /\ Groups = 1 .. MaxGroups
  /\ Ids \subseteq Nat /\ 0 \notin Ids /\ NoRequest \notin Ids /\ 0 \notin MatchIds /\ 0 \notin Groups
  BY PtRulesAssumption, PacketTraceAssumption DEF Entries, MatchIds, Groups, NoRequest

LEMMA FirstOfIn ==
  ASSUME NEW S \in SUBSET Nat, S # {}
  PROVE  FirstOf(S) \in S /\ \A y \in S : FirstOf(S) <= y
<1>1. \E x \in S : \A y \in S : x <= y
  BY LeastExists
<1> QED BY <1>1 DEF FirstOf

\* There is always a rule match id that no request uses: there is one more of
\* them than there are requests.
LEMMA AMatchIsFree ==
  ASSUME NEW r \in Rules
  PROVE  /\ FirstOf(FreeRuleMatchIds(r)) \in MatchIds
         /\ \A e \in Entries : r.reqToRuleMap[e].ruleMatchId # FirstOf(FreeRuleMatchIds(r))
<1> DEFINE f == r.reqToRuleMap
           used == {f[e].ruleMatchId : e \in Entries}
<1>1. f \in [Entries -> RuleEntry]
  BY DEF Rules
<1>2. IsFiniteSet(Entries) /\ Cardinality(Entries) = MaxRules
  BY FS_Interval, RuleNumbers
<1>3. IsFiniteSet(MatchIds) /\ Cardinality(MatchIds) = MaxRules + 1
  BY FS_Interval, RuleNumbers
<1> DEFINE m == [e \in Entries |-> f[e].ruleMatchId]
<1>4. IsFiniteSet(used) /\ Cardinality(used) <= MaxRules
  <2>1. used = {m[e] : e \in Entries}
    OBVIOUS
  <2>2. m \in [Entries -> used]
    OBVIOUS
  <2>3. m \in Surjection(Entries, used)
    BY <2>1, <2>2 DEF Surjection
  <2> HIDE DEF used, m
  <2>4. IsFiniteSet(used) /\ Cardinality(used) <= Cardinality(Entries)
    BY <1>2, <2>3, FS_Surjection
  <2> QED BY <1>2, <2>4
<1>5. MatchIds \ used # {}
  <2>1. SUFFICES ASSUME MatchIds \subseteq used PROVE FALSE
    OBVIOUS
  <2> HIDE DEF used
  <2>2. Cardinality(MatchIds) <= Cardinality(used)
    BY <1>4, <2>1, FS_Subset
  <2>3. Cardinality(used) \in Nat
    BY <1>4, FS_CardinalityType
  <2> QED BY <1>3, <1>4, <2>2, <2>3, RuleNumbers
<1>6. FreeRuleMatchIds(r) = MatchIds \ used
  BY DEF FreeRuleMatchIds
<1>7. FirstOf(FreeRuleMatchIds(r)) \in MatchIds \ used
  BY <1>5, <1>6, FirstOfIn, RuleNumbers
<1> QED BY <1>7

UsedEntries(r) == {e \in Entries : r.reqToRuleMap[e].requestId # NoRequest}

LEMMA TotalRulesIs ==
  ASSUME NEW r
  PROVE  /\ IsFiniteSet(UsedEntries(r)) /\ TotalRules(r) = Cardinality(UsedEntries(r))
         /\ TotalRules(r) \in Nat /\ TotalRules(r) <= MaxRules
         /\ TotalRules(r) > 0 <=> UsedEntries(r) # {}
         /\ TotalRules(r) = MaxRules => UsedEntries(r) = Entries
<1>1. UsedEntries(r) = Entries \ EntriesOf(r, NoRequest) /\ UsedEntries(r) \subseteq Entries
  BY DEF UsedEntries, EntriesOf
<1>2. IsFiniteSet(Entries) /\ Cardinality(Entries) = MaxRules
  BY FS_Interval, RuleNumbers
<1> HIDE DEF UsedEntries
<1>3. TotalRules(r) = Cardinality(UsedEntries(r))
  BY <1>1 DEF TotalRules
<1>4. /\ IsFiniteSet(UsedEntries(r)) /\ Cardinality(UsedEntries(r)) <= MaxRules
      /\ MaxRules = Cardinality(UsedEntries(r)) => Entries = UsedEntries(r)
  BY <1>1, <1>2, FS_Subset
<1>5. Cardinality(UsedEntries(r)) \in Nat /\ (Cardinality(UsedEntries(r)) = 0 <=> UsedEntries(r) = {})
  BY <1>4, FS_CardinalityType, FS_EmptySet
<1> QED BY <1>3, <1>4, <1>5

Entry(id, match, group) == [requestId |-> id, ruleMatchId |-> match, group |-> group]

\* The table takes a request that it does not have and has an entry for, and
\* no other.
LEMMA MapSetFacts ==
  ASSUME NEW r \in Rules, NEW id \in Ids, NEW match \in MatchIds, NEW group \in Groups
  PROVE  /\ MapSet(r, id, match, group) \in Rules
         /\ MapSet(r, id, match, group).hw = r.hw
         /\ MapSet(r, id, match, group).cpuKnown = r.cpuKnown
         /\ MapSet(r, id, match, group).cpuPolicy = r.cpuPolicy
         /\ EntriesOf(r, id) # {} \/ EntriesOf(r, NoRequest) = {} => MapSet(r, id, match, group) = r
         /\ EntriesOf(r, id) = {} /\ EntriesOf(r, NoRequest) # {} =>
              /\ MapSet(r, id, match, group) # r
              /\ \E i \in EntriesOf(r, NoRequest) :
                   MapSet(r, id, match, group).reqToRuleMap = [r.reqToRuleMap EXCEPT ![i] = Entry(id, match, group)]
<1>1. CASE EntriesOf(r, id) # {} \/ EntriesOf(r, NoRequest) = {}
  BY <1>1 DEF MapSet
<1>2. CASE EntriesOf(r, id) = {} /\ EntriesOf(r, NoRequest) # {}
  <2>1. PICK i \in EntriesOf(r, NoRequest) : i = FirstOf(EntriesOf(r, NoRequest))
    <3>1. EntriesOf(r, NoRequest) \in SUBSET Nat
      BY RuleNumbers DEF EntriesOf
    <3> QED BY <1>2, <3>1, FirstOfIn
  <2>2. i \in Entries /\ r.reqToRuleMap[i].requestId = NoRequest
    BY DEF EntriesOf
  <2> DEFINE n == [r EXCEPT !.reqToRuleMap[i] = Entry(id, match, group)]
  <2>3. MapSet(r, id, match, group) = n
    BY <1>2, <2>1 DEF MapSet, Entry
  <2>4. /\ n.hw = r.hw /\ n.cpuKnown = r.cpuKnown /\ n.cpuPolicy = r.cpuPolicy
        /\ n.reqToRuleMap = [r.reqToRuleMap EXCEPT ![i] = Entry(id, match, group)]
        /\ n = [reqToRuleMap |-> n.reqToRuleMap, hw |-> n.hw, cpuKnown |-> n.cpuKnown, cpuPolicy |-> n.cpuPolicy]
    BY DEF Rules
  <2> HIDE DEF n
  <2>5. Entry(id, match, group) \in RuleEntry
    BY DEF Entry, RuleEntry
  <2>6. n.reqToRuleMap \in [Entries -> RuleEntry] /\ n.reqToRuleMap[i].requestId = id
    BY <2>2, <2>4, <2>5 DEF Rules, Entry
  <2>7. n \in Rules
    BY <2>4, <2>6 DEF Rules
  <2>8. n # r
    BY <2>2, <2>6, RuleNumbers
  <2> QED BY <1>2, <2>3, <2>4, <2>7, <2>8
<1> QED BY <1>1, <1>2

\* What a creation makes of the rules, whatever fails.
LEMMA ProfileCreateType ==
  ASSUME NEW r \in Rules, NEW id \in Ids, NEW fault
  PROVE  ProfileCreate(r, id, fault).rules \in Rules
<1> DEFINE groups == Groups \ {h.group : h \in r.hw}
           group == FirstOf(groups)
           match == FirstOf(FreeRuleMatchIds(r))
           left == [r EXCEPT !.hw = @ \cup {[group |-> group, match |-> 0, requestId |-> id]}]
           installed == [r EXCEPT !.hw = @ \cup {[group |-> group, match |-> match, requestId |-> id]}]
           mapped == MapSet(installed, id, match, group)
<1>1. CASE groups = {} \/ fault = "group"
  BY <1>1 DEF ProfileCreate, Failed
<1>2. CASE groups # {}
  <2>1. group \in Groups
    BY <1>2, FirstOfIn, RuleNumbers
  <2>2. match \in MatchIds
    BY AMatchIsFree
  <2>3. /\ [group |-> group, match |-> 0, requestId |-> id] \in HwGroup
        /\ [group |-> group, match |-> match, requestId |-> id] \in HwGroup
    BY <2>1, <2>2 DEF HwGroup
  <2>4. left \in Rules /\ installed \in Rules
    BY <2>3 DEF Rules
  <2>5. mapped \in Rules
    BY <2>1, <2>2, <2>4, MapSetFacts
  <2>6. ProfileCreate(r, id, fault) \in
          {Failed(r), Failed(left), Failed(installed), Done(mapped), EgressPolicy(mapped, fault)}
    BY DEF ProfileCreate
  <2> HIDE DEF left, installed, mapped
  <2>7. EgressPolicy(mapped, fault).rules \in Rules
    BY <2>5 DEF EgressPolicy, Failed, Done, Rules
  <2> QED BY <2>4, <2>5, <2>6, <2>7 DEF Failed, Done
<1> QED BY <1>1, <1>2

\* What a deletion makes of the rules: it takes the first entry of the
\* request, and its group, away.
LEMMA ProfileDeleteFacts ==
  ASSUME NEW r \in Rules, NEW id \in Ids \cup {0}, NEW fault
  PROVE  LET made == ProfileDelete(r, id, fault) IN
         /\ made.rules \in Rules
         /\ EntriesOf(r, id) = {} \/ fault = "destroy" => made = Failed(r)
         /\ EntriesOf(r, id) # {} /\ fault # "destroy" =>
              /\ made.rv = "success"
              /\ \E i \in EntriesOf(r, id) :
                   /\ made.rules.reqToRuleMap = [r.reqToRuleMap EXCEPT ![i] = NoRule]
                   /\ made.rules.hw = {h \in r.hw : h.group # r.reqToRuleMap[i].group}
              /\ IF TotalRules(made.rules) > 0
                 THEN made.rules.cpuKnown = r.cpuKnown /\ made.rules.cpuPolicy = r.cpuPolicy
                 ELSE ~made.rules.cpuKnown /\ (made.rules.cpuPolicy <=> r.cpuPolicy /\ ~r.cpuKnown)
<1>1. CASE EntriesOf(r, id) = {} \/ fault = "destroy"
  BY <1>1 DEF ProfileDelete, Failed
<1>2. CASE EntriesOf(r, id) # {} /\ fault # "destroy"
  <2>1. PICK i \in EntriesOf(r, id) : i = FirstOf(EntriesOf(r, id))
    <3>1. EntriesOf(r, id) \in SUBSET Nat
      BY RuleNumbers DEF EntriesOf
    <3> QED BY <1>2, <3>1, FirstOfIn
  <2>2. i \in Entries /\ r.reqToRuleMap[i].requestId = id
    BY DEF EntriesOf
  <2> DEFINE hw == {h \in r.hw : h.group # r.reqToRuleMap[i].group}
             less == [r EXCEPT !.hw = {h \in @ : h.group # r.reqToRuleMap[i].group}]
             cleared == MapClear(less, id)
             map == [r.reqToRuleMap EXCEPT ![i] = NoRule]
             last == [cleared EXCEPT !.cpuPolicy = @ /\ ~r.cpuKnown, !.cpuKnown = FALSE]
  <2>3. less.reqToRuleMap = r.reqToRuleMap /\ less.hw = hw /\ less.cpuKnown = r.cpuKnown /\ less.cpuPolicy = r.cpuPolicy
        /\ less \in Rules
    BY DEF Rules
  <2>4. EntriesOf(less, id) = EntriesOf(r, id)
    BY <2>3 DEF EntriesOf
  <2>5. cleared = [less EXCEPT !.reqToRuleMap[i] = NoRule]
    BY <2>1, <2>4 DEF MapClear
  <2>6. ProfileDelete(r, id, fault) = IF TotalRules(cleared) > 0 THEN Done(cleared) ELSE Done(last)
    BY <1>2, <2>1 DEF ProfileDelete
  <2> HIDE DEF less, cleared
  <2>7. cleared = [reqToRuleMap |-> map, hw |-> hw, cpuKnown |-> r.cpuKnown, cpuPolicy |-> r.cpuPolicy]
    BY <2>3, <2>5 DEF Rules
  <2>8. NoRule \in RuleEntry
    BY DEF NoRule, RuleEntry
  <2>9. map \in [Entries -> RuleEntry] /\ hw \in SUBSET HwGroup /\ r.cpuKnown \in BOOLEAN /\ r.cpuPolicy \in BOOLEAN
    BY <2>2, <2>8 DEF Rules
  <2> HIDE DEF map, hw
  <2> DEFINE policy1 == cleared.cpuPolicy /\ ~r.cpuKnown
  <2>16. policy1 \in BOOLEAN /\ (policy1 <=> r.cpuPolicy /\ ~r.cpuKnown)
    BY <2>7
  <2>17. last = [cleared EXCEPT !.cpuPolicy = policy1, !.cpuKnown = FALSE]
    OBVIOUS
  <2> HIDE DEF last, policy1
  <2>10. last = [reqToRuleMap |-> map, hw |-> hw, cpuKnown |-> FALSE, cpuPolicy |-> policy1]
    BY <2>7, <2>17
  <2>11. cleared \in Rules /\ last \in Rules
    BY <2>7, <2>9, <2>10, <2>16 DEF Rules
  <2>12. TotalRules(last) = TotalRules(cleared)
    BY <2>7, <2>10 DEF TotalRules, EntriesOf
  <2>13. ProfileDelete(r, id, fault).rv = "success"
         /\ ProfileDelete(r, id, fault).rules = IF TotalRules(cleared) > 0 THEN cleared ELSE last
    BY <2>6 DEF Done
  <2>14. LET made == ProfileDelete(r, id, fault).rules
         IN made.reqToRuleMap = map /\ made.hw = hw
    BY <2>7, <2>10, <2>13
  <2>15. IF TotalRules(ProfileDelete(r, id, fault).rules) > 0
         THEN /\ ProfileDelete(r, id, fault).rules.cpuKnown = r.cpuKnown
              /\ ProfileDelete(r, id, fault).rules.cpuPolicy = r.cpuPolicy
         ELSE /\ ~ProfileDelete(r, id, fault).rules.cpuKnown
              /\ ProfileDelete(r, id, fault).rules.cpuPolicy <=> r.cpuPolicy /\ ~r.cpuKnown
    <3>1. CASE TotalRules(cleared) > 0
      <4>1. ProfileDelete(r, id, fault).rules = cleared
        BY <2>13, <3>1
      <4> QED BY <2>7, <3>1, <4>1
    <3>2. CASE ~(TotalRules(cleared) > 0)
      <4>1. ProfileDelete(r, id, fault).rules = last
        BY <2>13, <3>2
      <4>2. ~(TotalRules(last) > 0)
        BY <2>12, <3>2
      <4> QED BY <2>10, <2>16, <4>1, <4>2
    <3> QED BY <3>1, <3>2
  <2> QED BY <1>2, <2>1, <2>11, <2>13, <2>14, <2>15 DEF map, hw
<1> QED BY <1>1, <1>2

-----------------------------------------------------------------------------
(* While no call into the switch fails, the table and the switch agree.     *)

Copied(r, e) == [group |-> r.reqToRuleMap[e].group, match |-> r.reqToRuleMap[e].ruleMatchId,
                 requestId |-> r.reqToRuleMap[e].requestId]

Consistent(r) ==
  /\ r \in Rules
  /\ \A e \in Entries : e \notin UsedEntries(r) => r.reqToRuleMap[e].ruleMatchId = 0
  /\ \A e \in UsedEntries(r) : r.reqToRuleMap[e].ruleMatchId # 0 /\ Copied(r, e) \in r.hw
  /\ \A h \in r.hw : \E e \in UsedEntries(r) : h = Copied(r, e)
  /\ \A e, f \in UsedEntries(r) :
       \/ r.reqToRuleMap[e].requestId = r.reqToRuleMap[f].requestId
       \/ r.reqToRuleMap[e].ruleMatchId = r.reqToRuleMap[f].ruleMatchId
       \/ r.reqToRuleMap[e].group = r.reqToRuleMap[f].group
       => e = f
  /\ r.cpuKnown <=> UsedEntries(r) # {}
  /\ r.cpuPolicy <=> UsedEntries(r) # {}

Traced(r) == {r.reqToRuleMap[e].requestId : e \in UsedEntries(r)}

LEMMA EmptyIsConsistent == Consistent(EmptyRules) /\ Traced(EmptyRules) = {}
<1>1. UsedEntries(EmptyRules) = {}
  BY DEF UsedEntries, EmptyRules, NoRule
<1>2. EmptyRules \in Rules
  BY DEF EmptyRules, NoRule, Rules, RuleEntry
<1>3. \A e \in Entries : EmptyRules.reqToRuleMap[e].ruleMatchId = 0
  BY DEF EmptyRules, NoRule
<1>4. EmptyRules.hw = {} /\ ~EmptyRules.cpuKnown /\ ~EmptyRules.cpuPolicy
  BY DEF EmptyRules
<1> QED BY <1>1, <1>2, <1>3, <1>4 DEF Consistent, Traced

\* A copied packet's match id leads to the request its rule was made for.
LEMMA ConsistentReaches ==
  ASSUME NEW r, Consistent(r)
  PROVE  /\ \A h \in r.hw : RuleToReq(r, h.match) = h.requestId
         /\ {h.requestId : h \in r.hw} = Traced(r)
         /\ r.cpuPolicy <=> TotalRules(r) > 0
<1>1. ASSUME NEW h \in r.hw
      PROVE  RuleToReq(r, h.match) = h.requestId
  <2>1. PICK e \in UsedEntries(r) : h = Copied(r, e)
    BY DEF Consistent
  <2> DEFINE found == {f \in Entries : r.reqToRuleMap[f].ruleMatchId = h.match} \ EntriesOf(r, NoRequest)
  <2>2. h.match = r.reqToRuleMap[e].ruleMatchId /\ h.requestId = r.reqToRuleMap[e].requestId
    BY <2>1 DEF Copied
  <2>3. found = {f \in UsedEntries(r) : r.reqToRuleMap[f].ruleMatchId = h.match}
    BY DEF UsedEntries, EntriesOf
  <2>4. found = {e}
    BY <2>2, <2>3 DEF Consistent
  <2>5. e \in Entries
    BY DEF UsedEntries
  <2>6. FirstOf(found) = e
    BY <2>4, <2>5, FirstOfIn, RuleNumbers
  <2>7. RuleToReq(r, h.match) = IF found = {} THEN NoRequest ELSE r.reqToRuleMap[FirstOf(found)].requestId
    BY DEF RuleToReq
  <2> HIDE DEF found
  <2> QED BY <2>2, <2>4, <2>6, <2>7
<1>2. {h.requestId : h \in r.hw} = Traced(r)
  <2>1. \A h \in r.hw : \E e \in UsedEntries(r) : h.requestId = r.reqToRuleMap[e].requestId
    BY DEF Consistent, Copied
  <2>2. \A e \in UsedEntries(r) : \E h \in r.hw : h.requestId = r.reqToRuleMap[e].requestId
    BY DEF Consistent, Copied
  <2> QED BY <2>1, <2>2 DEF Traced
<1>3. r.cpuPolicy <=> TotalRules(r) > 0
  BY TotalRulesIs DEF Consistent
<1> QED BY <1>1, <1>2, <1>3

\* Fewer requests than entries and groups leave room for one more.
LEMMA RoomForARule ==
  ASSUME NEW r, Consistent(r), NEW T, IsFiniteSet(T), Traced(r) \subseteq T,
         Cardinality(T) < MaxRules, Cardinality(T) < MaxGroups
  PROVE  UsedEntries(r) # Entries /\ Groups \ {h.group : h \in r.hw} # {}
<1>1. IsFiniteSet(UsedEntries(r)) /\ UsedEntries(r) \subseteq Entries /\ Cardinality(T) \in Nat
  BY TotalRulesIs, FS_CardinalityType DEF UsedEntries
<1> DEFINE ids == [e \in UsedEntries(r) |-> r.reqToRuleMap[e].requestId]
<1>2. ids \in Injection(UsedEntries(r), T)
  <2>1. ids \in [UsedEntries(r) -> T]
    BY DEF Traced
  <2>2. \A e, f \in UsedEntries(r) : ids[e] = ids[f] => e = f
    BY DEF Consistent
  <2> HIDE DEF ids
  <2> QED BY <2>1, <2>2 DEF Injection, IsInjective
<1>3. Cardinality(UsedEntries(r)) <= Cardinality(T)
  BY <1>2, FS_Injection
<1>4. Cardinality(UsedEntries(r)) \in Nat
  BY <1>1, FS_CardinalityType
<1>5. Cardinality(Entries) = MaxRules
  BY FS_Interval, RuleNumbers
<1>6. UsedEntries(r) # Entries
  BY <1>1, <1>3, <1>4, <1>5, RuleNumbers
<1> DEFINE used == {h.group : h \in r.hw}
           groups == [e \in UsedEntries(r) |-> r.reqToRuleMap[e].group]
<1>7. groups \in Surjection(UsedEntries(r), used)
  <2>1. \A e \in UsedEntries(r) : \E h \in r.hw : h.group = r.reqToRuleMap[e].group
    BY DEF Consistent, Copied
  <2>2. \A h \in r.hw : \E e \in UsedEntries(r) : h.group = r.reqToRuleMap[e].group
    BY DEF Consistent, Copied
  <2>3. groups \in [UsedEntries(r) -> used]
    BY <2>1
  <2>4. \A g \in used : \E e \in UsedEntries(r) : groups[e] = g
    BY <2>2
  <2> HIDE DEF groups, used
  <2> QED BY <2>3, <2>4 DEF Surjection
<1> HIDE DEF used, groups
<1>8. IsFiniteSet(used) /\ Cardinality(used) <= Cardinality(UsedEntries(r))
  BY <1>1, <1>7, FS_Surjection
<1>9. Cardinality(Groups) = MaxGroups
  BY FS_Interval, RuleNumbers
<1>10. ~(Groups \subseteq used)
  <2>1. SUFFICES ASSUME Groups \subseteq used PROVE FALSE
    OBVIOUS
  <2>2. Cardinality(Groups) <= Cardinality(used)
    BY <1>8, <2>1, FS_Subset
  <2>3. Cardinality(used) \in Nat
    BY <1>8, FS_CardinalityType
  <2> QED BY <1>1, <1>3, <1>4, <1>8, <1>9, <2>2, <2>3, RuleNumbers
<1> QED BY <1>6, <1>10 DEF used

LEMMA ProfileCreateConsistent ==
  ASSUME NEW r, Consistent(r), NEW id \in Ids, id \notin Traced(r),
         UsedEntries(r) # Entries, Groups \ {h.group : h \in r.hw} # {}
  PROVE  LET made == ProfileCreate(r, id, "none") IN
         /\ made.rv = "success"
         /\ Consistent(made.rules) /\ Traced(made.rules) = Traced(r) \cup {id}
<1> DEFINE groups == Groups \ {h.group : h \in r.hw}
           group == FirstOf(groups)
           match == FirstOf(FreeRuleMatchIds(r))
           copy == [group |-> group, match |-> match, requestId |-> id]
           installed == [r EXCEPT !.hw = @ \cup {copy}]
           mapped == MapSet(installed, id, match, group)
<1>0. r \in Rules
  BY DEF Consistent
<1>1. group \in Groups /\ \A h \in r.hw : h.group # group
  <2>1. group \in groups
    BY FirstOfIn, RuleNumbers
  <2> QED BY <2>1
<1>2. match \in MatchIds /\ \A e \in Entries : r.reqToRuleMap[e].ruleMatchId # match
  BY <1>0, AMatchIsFree
<1>3. copy \in HwGroup
  BY <1>1, <1>2 DEF HwGroup
<1>4. installed \in Rules /\ installed.reqToRuleMap = r.reqToRuleMap /\ installed.hw = r.hw \cup {copy}
      /\ installed.cpuKnown = r.cpuKnown /\ installed.cpuPolicy = r.cpuPolicy
  BY <1>0, <1>3 DEF Rules
<1>5. ProfileCreate(r, id, "none") =
        IF mapped = installed THEN Failed(installed)
        ELSE IF TotalRules(mapped) = 1 THEN EgressPolicy(mapped, "none") ELSE Done(mapped)
  BY DEF ProfileCreate
<1> HIDE DEF installed, groups, group, match
<1>6. EntriesOf(installed, id) = {} /\ EntriesOf(installed, NoRequest) # {}
  BY <1>4, RuleNumbers DEF EntriesOf, UsedEntries, Traced
<1>7. mapped \in Rules /\ mapped # installed /\ mapped.hw = r.hw \cup {copy}
      /\ mapped.cpuKnown = r.cpuKnown /\ mapped.cpuPolicy = r.cpuPolicy
  BY <1>1, <1>2, <1>4, <1>6, MapSetFacts
<1>8. PICK i \in EntriesOf(installed, NoRequest) :
             mapped.reqToRuleMap = [r.reqToRuleMap EXCEPT ![i] = Entry(id, match, group)]
  BY <1>1, <1>2, <1>4, <1>6, MapSetFacts
<1> HIDE DEF mapped
<1>9. i \in Entries /\ i \notin UsedEntries(r)
  BY <1>4 DEF EntriesOf, UsedEntries
<1> DEFINE made == ProfileCreate(r, id, "none").rules
<1>10. /\ made \in Rules /\ made.hw = r.hw \cup {copy} /\ made.reqToRuleMap = mapped.reqToRuleMap
       /\ TotalRules(mapped) = 1 => made.cpuKnown /\ made.cpuPolicy
       /\ TotalRules(mapped) # 1 => made.cpuKnown = r.cpuKnown /\ made.cpuPolicy = r.cpuPolicy
       /\ ProfileCreate(r, id, "none").rv = "success"
  <2> DEFINE policed == [mapped EXCEPT !.cpuPolicy = TRUE, !.cpuKnown = TRUE]
  <2>1. /\ policed \in Rules /\ policed.hw = mapped.hw /\ policed.reqToRuleMap = mapped.reqToRuleMap
        /\ policed.cpuKnown /\ policed.cpuPolicy
    BY <1>7 DEF Rules
  <2>2. EgressPolicy(mapped, "none") = Done(policed)
    BY DEF EgressPolicy
  <2> HIDE DEF policed
  <2>3. ProfileCreate(r, id, "none") = IF TotalRules(mapped) = 1 THEN Done(policed) ELSE Done(mapped)
    BY <1>5, <1>7, <2>2
  <2>4. /\ ProfileCreate(r, id, "none").rv = "success"
        /\ made = IF TotalRules(mapped) = 1 THEN policed ELSE mapped
    BY <2>3 DEF Done
  <2> HIDE DEF made
  <2> QED BY <1>7, <2>1, <2>4
<1> HIDE DEF made
<1>11. \A e \in Entries : made.reqToRuleMap[e] = IF e = i THEN Entry(id, match, group) ELSE r.reqToRuleMap[e]
  BY <1>0, <1>8, <1>9, <1>10 DEF Rules
<1>12. UsedEntries(made) = UsedEntries(r) \cup {i} /\ UsedEntries(mapped) = UsedEntries(made)
  BY <1>9, <1>10, <1>11, RuleNumbers DEF UsedEntries, Entry
<1>13. made.cpuKnown /\ made.cpuPolicy
  <2>1. CASE TotalRules(mapped) = 1
    BY <1>10, <2>1
  <2>2. CASE TotalRules(mapped) # 1
    <3>1. TotalRules(mapped) = Cardinality(UsedEntries(r) \cup {i}) /\ IsFiniteSet(UsedEntries(r))
      BY <1>12, TotalRulesIs
    <3>2. Cardinality(UsedEntries(r) \cup {i}) = Cardinality(UsedEntries(r)) + 1
      BY <1>9, <3>1, FS_AddElement
    <3>3. UsedEntries(r) # {}
      BY <2>2, <3>1, <3>2, FS_EmptySet
    <3> QED BY <1>10, <2>2, <3>3 DEF Consistent
  <2> QED BY <2>1, <2>2
<1>14. Copied(made, i) = copy /\ \A e \in UsedEntries(r) : Copied(made, e) = Copied(r, e)
  BY <1>9, <1>11 DEF Copied, Entry, UsedEntries
<1>15. UsedEntries(r) \subseteq Entries
  BY DEF UsedEntries
<1>16. \A e \in Entries : e \notin UsedEntries(made) => made.reqToRuleMap[e].ruleMatchId = 0
  BY <1>11, <1>12 DEF Consistent
<1>17. \A e \in UsedEntries(made) : made.reqToRuleMap[e].ruleMatchId # 0 /\ Copied(made, e) \in made.hw
  BY <1>2, <1>9, <1>10, <1>11, <1>12, <1>14, <1>15, RuleNumbers DEF Consistent, Entry
<1>18. \A h \in made.hw : \E e \in UsedEntries(made) : h = Copied(made, e)
  BY <1>10, <1>12, <1>14 DEF Consistent
<1>19. \A e \in UsedEntries(r) : /\ r.reqToRuleMap[e].requestId # id /\ r.reqToRuleMap[e].ruleMatchId # match
                                /\ r.reqToRuleMap[e].group # group
  BY <1>1, <1>2, <1>15, ZenonT(60) DEF Traced, Consistent, Copied
<1>20. \A e, f \in UsedEntries(made) :
       \/ made.reqToRuleMap[e].requestId = made.reqToRuleMap[f].requestId
       \/ made.reqToRuleMap[e].ruleMatchId = made.reqToRuleMap[f].ruleMatchId
       \/ made.reqToRuleMap[e].group = made.reqToRuleMap[f].group
       => e = f
  BY <1>9, <1>11, <1>12, <1>15, <1>19 DEF Consistent, Entry
<1>21. Traced(made) = Traced(r) \cup {id}
  BY <1>9, <1>11, <1>12, <1>15 DEF Traced, Entry
<1> QED BY <1>10, <1>12, <1>13, <1>16, <1>17, <1>18, <1>20, <1>21 DEF Consistent, made

LEMMA ProfileDeleteConsistent ==
  ASSUME NEW r, Consistent(r), NEW id \in Traced(r)
  PROVE  LET made == ProfileDelete(r, id, "none") IN
         /\ made.rv = "success"
         /\ Consistent(made.rules) /\ Traced(made.rules) = Traced(r) \ {id}
<1> DEFINE made == ProfileDelete(r, id, "none").rules
<1>0. r \in Rules /\ id \in Ids \cup {0}
  <2>1. r \in Rules
    BY DEF Consistent
  <2>2. \A e \in UsedEntries(r) : r.reqToRuleMap[e].requestId \in Ids
    BY <2>1 DEF Rules, RuleEntry, UsedEntries
  <2> QED BY <2>1, <2>2 DEF Traced
<1>1. EntriesOf(r, id) # {}
  BY DEF EntriesOf, Traced, UsedEntries
<1>2. /\ made \in Rules /\ ProfileDelete(r, id, "none").rv = "success"
      /\ IF TotalRules(made) > 0 THEN made.cpuKnown = r.cpuKnown /\ made.cpuPolicy = r.cpuPolicy
         ELSE ~made.cpuKnown /\ (made.cpuPolicy <=> r.cpuPolicy /\ ~r.cpuKnown)
  BY <1>0, <1>1, ProfileDeleteFacts
<1>3. PICK i \in EntriesOf(r, id) :
         /\ made.reqToRuleMap = [r.reqToRuleMap EXCEPT ![i] = NoRule]
         /\ made.hw = {h \in r.hw : h.group # r.reqToRuleMap[i].group}
  BY <1>0, <1>1, ProfileDeleteFacts
<1> HIDE DEF made
<1>4. i \in UsedEntries(r) /\ i \in Entries /\ r.reqToRuleMap[i].requestId = id
  BY <1>0, RuleNumbers DEF EntriesOf, UsedEntries, NoRequest, Traced
<1>5. \A e \in Entries : made.reqToRuleMap[e] = IF e = i THEN NoRule ELSE r.reqToRuleMap[e]
  BY <1>0, <1>3, <1>4 DEF Rules
<1>6. UsedEntries(made) = UsedEntries(r) \ {i} /\ UsedEntries(r) \subseteq Entries
  BY <1>5 DEF UsedEntries, NoRule
<1>7. \A e \in UsedEntries(made) : Copied(made, e) = Copied(r, e) /\ made.reqToRuleMap[e] = r.reqToRuleMap[e]
  BY <1>5, <1>6 DEF Copied
<1>8. \A e \in UsedEntries(made) : /\ r.reqToRuleMap[e].requestId # id
                                  /\ r.reqToRuleMap[e].group # r.reqToRuleMap[i].group
  BY <1>4, <1>6 DEF Consistent
<1>9. \A e \in Entries : e \notin UsedEntries(made) => made.reqToRuleMap[e].ruleMatchId = 0
  BY <1>5, <1>6 DEF Consistent, NoRule
<1>10. \A e \in UsedEntries(made) : made.reqToRuleMap[e].ruleMatchId # 0 /\ Copied(made, e) \in made.hw
  BY <1>3, <1>6, <1>7, <1>8 DEF Consistent, Copied
<1>11. \A h \in made.hw : \E e \in UsedEntries(made) : h = Copied(made, e)
  <2> SUFFICES ASSUME NEW h \in made.hw PROVE \E e \in UsedEntries(made) : h = Copied(made, e)
    OBVIOUS
  <2>1. PICK e \in UsedEntries(r) : h = Copied(r, e)
    BY <1>3 DEF Consistent
  <2>2. e # i
    BY <1>3, <2>1 DEF Copied
  <2> QED BY <1>6, <1>7, <2>1, <2>2
<1>12. \A e, f \in UsedEntries(made) :
       \/ made.reqToRuleMap[e].requestId = made.reqToRuleMap[f].requestId
       \/ made.reqToRuleMap[e].ruleMatchId = made.reqToRuleMap[f].ruleMatchId
       \/ made.reqToRuleMap[e].group = made.reqToRuleMap[f].group
       => e = f
  BY <1>6, <1>7 DEF Consistent
<1>13. made.cpuKnown <=> UsedEntries(made) # {}
  BY <1>2, <1>4, TotalRulesIs DEF Consistent
<1>14. made.cpuPolicy <=> UsedEntries(made) # {}
  BY <1>2, <1>4, TotalRulesIs DEF Consistent
<1>15. Traced(made) = Traced(r) \ {id}
  BY <1>4, <1>6, <1>7, <1>8 DEF Traced
<1> QED BY <1>2, <1>9, <1>10, <1>11, <1>12, <1>13, <1>14, <1>15 DEF Consistent, made

-----------------------------------------------------------------------------
(* Whatever fails and whoever asks, the table promises no rule that the     *)
(* switch does not have.                                                    *)

Promised(r) ==
  /\ r \in Rules
  /\ \A e \in Entries : e \notin UsedEntries(r) => r.reqToRuleMap[e].ruleMatchId = 0
  /\ \A e \in UsedEntries(r) : r.reqToRuleMap[e].ruleMatchId # 0 /\ Copied(r, e) \in r.hw
  /\ \A e, f \in UsedEntries(r) :
       \/ r.reqToRuleMap[e].requestId = r.reqToRuleMap[f].requestId
       \/ r.reqToRuleMap[e].ruleMatchId = r.reqToRuleMap[f].ruleMatchId
       \/ r.reqToRuleMap[e].group = r.reqToRuleMap[f].group
       => e = f
  /\ r.cpuKnown <=> r.cpuPolicy
  /\ r.cpuPolicy => UsedEntries(r) # {}

\* What failed may stay in the switch: the promises need no less.
LEMMA MoreInTheSwitch ==
  ASSUME NEW r, Promised(r), NEW s \in Rules, r.hw \subseteq s.hw, s.reqToRuleMap = r.reqToRuleMap,
         s.cpuKnown = r.cpuKnown, s.cpuPolicy = r.cpuPolicy
  PROVE  Promised(s)
<1>1. UsedEntries(s) = UsedEntries(r) /\ \A e \in Entries : Copied(s, e) = Copied(r, e)
  BY DEF UsedEntries, Copied
<1>2. UsedEntries(r) \subseteq Entries
  BY DEF UsedEntries
<1> QED BY <1>1, <1>2 DEF Promised

\* The match id of an entry leads to its request.
LEMMA PromisedReaches ==
  ASSUME NEW r, Promised(r), NEW e \in UsedEntries(r)
  PROVE  RuleToReq(r, r.reqToRuleMap[e].ruleMatchId) = r.reqToRuleMap[e].requestId
<1> DEFINE match == r.reqToRuleMap[e].ruleMatchId
           found == {f \in Entries : r.reqToRuleMap[f].ruleMatchId = match} \ EntriesOf(r, NoRequest)
<1>1. found = {f \in UsedEntries(r) : r.reqToRuleMap[f].ruleMatchId = match} /\ e \in Entries
  BY DEF UsedEntries, EntriesOf
<1>2. found = {e}
  BY <1>1 DEF Promised
<1>3. FirstOf(found) = e
  BY <1>1, <1>2, FirstOfIn, RuleNumbers
<1>4. RuleToReq(r, match) = IF found = {} THEN NoRequest ELSE r.reqToRuleMap[FirstOf(found)].requestId
  BY DEF RuleToReq
<1> HIDE DEF found, match
<1> QED BY <1>2, <1>3, <1>4 DEF match

\* A creation enters the table once its rule is in the switch, under a match id
\* and in a group that no other request has.
LEMMA ProfileCreatePromised ==
  ASSUME NEW r, Promised(r), NEW id \in Ids, NEW fault
  PROVE  Promised(ProfileCreate(r, id, fault).rules)
<1> DEFINE groups == Groups \ {h.group : h \in r.hw}
           group == FirstOf(groups)
           match == FirstOf(FreeRuleMatchIds(r))
           copy == [group |-> group, match |-> match, requestId |-> id]
           left == [r EXCEPT !.hw = @ \cup {[group |-> group, match |-> 0, requestId |-> id]}]
           installed == [r EXCEPT !.hw = @ \cup {copy}]
           mapped == MapSet(installed, id, match, group)
<1>0. r \in Rules
  BY DEF Promised
<1>1. CASE groups = {} \/ fault = "group"
  BY <1>1 DEF ProfileCreate, Failed
<1>2. CASE groups # {}
  <2>1. group \in Groups /\ \A h \in r.hw : h.group # group
    <3>1. group \in groups
      BY <1>2, FirstOfIn, RuleNumbers
    <3> QED BY <3>1
  <2>2. match \in MatchIds /\ \A e \in Entries : r.reqToRuleMap[e].ruleMatchId # match
    BY <1>0, AMatchIsFree
  <2>3. copy \in HwGroup /\ [group |-> group, match |-> 0, requestId |-> id] \in HwGroup
    BY <2>1, <2>2 DEF HwGroup
  <2>4. /\ left \in Rules /\ left.reqToRuleMap = r.reqToRuleMap /\ r.hw \subseteq left.hw
        /\ left.cpuKnown = r.cpuKnown /\ left.cpuPolicy = r.cpuPolicy
    BY <1>0, <2>3 DEF Rules
  <2>5. /\ installed \in Rules /\ installed.reqToRuleMap = r.reqToRuleMap /\ installed.hw = r.hw \cup {copy}
        /\ installed.cpuKnown = r.cpuKnown /\ installed.cpuPolicy = r.cpuPolicy
    BY <1>0, <2>3 DEF Rules
  <2>6. Promised(left) /\ Promised(installed)
    <3> HIDE DEF left, installed
    <3> QED BY <2>4, <2>5, MoreInTheSwitch
  <2>7. ProfileCreate(r, id, fault).rules \in
          {r, left, installed} \cup (IF mapped = installed THEN {} ELSE {mapped, EgressPolicy(mapped, fault).rules})
    BY DEF ProfileCreate, Failed, Done
  <2> HIDE DEF left, installed, groups, group, match
  <2>8. ASSUME mapped # installed
        PROVE  Promised(mapped) /\ Promised(EgressPolicy(mapped, fault).rules)
    <3>1. EntriesOf(installed, id) = {} /\ EntriesOf(installed, NoRequest) # {}
      BY <2>1, <2>2, <2>5, <2>8, MapSetFacts
    <3>2. mapped \in Rules /\ mapped.hw = r.hw \cup {copy} /\ mapped.cpuKnown = r.cpuKnown /\ mapped.cpuPolicy = r.cpuPolicy
      BY <2>1, <2>2, <2>5, MapSetFacts
    <3>3. PICK i \in EntriesOf(installed, NoRequest) :
                 mapped.reqToRuleMap = [r.reqToRuleMap EXCEPT ![i] = Entry(id, match, group)]
      BY <2>1, <2>2, <2>5, <3>1, MapSetFacts
    <3> HIDE DEF mapped
    <3>4. i \in Entries /\ i \notin UsedEntries(r) /\ UsedEntries(r) \subseteq Entries
      BY <2>5 DEF EntriesOf, UsedEntries
    <3>5. ASSUME NEW made \in Rules, made.hw = mapped.hw, made.reqToRuleMap = mapped.reqToRuleMap,
                 made.cpuKnown <=> made.cpuPolicy
          PROVE  Promised(made)
      <4>1. \A e \in Entries : made.reqToRuleMap[e] = IF e = i THEN Entry(id, match, group) ELSE r.reqToRuleMap[e]
        BY <1>0, <3>3, <3>4, <3>5 DEF Rules
      <4>2. UsedEntries(made) = UsedEntries(r) \cup {i}
        BY <3>4, <4>1, RuleNumbers DEF UsedEntries, Entry
      <4>3. Copied(made, i) = copy /\ \A e \in UsedEntries(r) : Copied(made, e) = Copied(r, e)
        BY <3>4, <4>1 DEF Copied, Entry, UsedEntries
      <4>4. \A e \in Entries : e \notin UsedEntries(made) => made.reqToRuleMap[e].ruleMatchId = 0
        BY <4>1, <4>2 DEF Promised
      <4>5. \A e \in UsedEntries(made) : made.reqToRuleMap[e].ruleMatchId # 0 /\ Copied(made, e) \in made.hw
        BY <2>2, <3>2, <3>4, <3>5, <4>1, <4>2, <4>3, RuleNumbers DEF Promised, Entry
      <4>6. \A e \in UsedEntries(r) : r.reqToRuleMap[e].requestId # id
        BY <2>5, <3>1, <3>4 DEF EntriesOf
      <4>7. \A e \in UsedEntries(r) : r.reqToRuleMap[e].ruleMatchId # match
        BY <2>2, <3>4
      <4>8. \A e \in UsedEntries(r) : r.reqToRuleMap[e].group # group
        BY <2>1, ZenonT(60) DEF Promised, Copied
      <4>9. \A e, f \in UsedEntries(made) :
              \/ made.reqToRuleMap[e].requestId = made.reqToRuleMap[f].requestId
              \/ made.reqToRuleMap[e].ruleMatchId = made.reqToRuleMap[f].ruleMatchId
              \/ made.reqToRuleMap[e].group = made.reqToRuleMap[f].group
              => e = f
        <5>1. \A e \in UsedEntries(r) : made.reqToRuleMap[e] = r.reqToRuleMap[e]
          BY <3>4, <4>1
        <5>2. made.reqToRuleMap[i] = Entry(id, match, group)
          BY <3>4, <4>1
        <5> QED BY <4>2, <4>6, <4>7, <4>8, <5>1, <5>2 DEF Promised, Entry
      <4> QED BY <3>5, <4>2, <4>4, <4>5, <4>9 DEF Promised
    <3>6. Promised(mapped)
      BY <3>2, <3>5 DEF Promised
    <3> DEFINE policed == [mapped EXCEPT !.cpuPolicy = TRUE, !.cpuKnown = TRUE]
    <3>7. /\ policed \in Rules /\ policed.hw = mapped.hw /\ policed.reqToRuleMap = mapped.reqToRuleMap
          /\ policed.cpuKnown <=> policed.cpuPolicy
      BY <3>2 DEF Rules
    <3>8. EgressPolicy(mapped, fault).rules \in {mapped, policed}
      BY DEF EgressPolicy, Failed, Done
    <3> HIDE DEF policed
    <3> QED BY <3>5, <3>6, <3>7, <3>8
  <2> HIDE DEF mapped
  <2> QED BY <2>6, <2>7, <2>8
<1> QED BY <1>1, <1>2

\* A deletion takes one entry and its group, and no group of another entry.
LEMMA ProfileDeletePromised ==
  ASSUME NEW r, Promised(r), NEW id \in Ids \cup {0}, NEW fault
  PROVE  Promised(ProfileDelete(r, id, fault).rules)
<1> DEFINE made == ProfileDelete(r, id, fault).rules
<1>0. r \in Rules /\ made \in Rules
  BY ProfileDeleteFacts DEF Promised
<1>1. CASE EntriesOf(r, id) = {} \/ fault = "destroy"
  BY <1>0, <1>1, ProfileDeleteFacts DEF Failed
<1>2. CASE EntriesOf(r, id) # {} /\ fault # "destroy"
  <2>1. PICK i \in EntriesOf(r, id) :
          /\ made.reqToRuleMap = [r.reqToRuleMap EXCEPT ![i] = NoRule]
          /\ made.hw = {h \in r.hw : h.group # r.reqToRuleMap[i].group}
    BY <1>0, <1>2, ProfileDeleteFacts
  <2>2. IF TotalRules(made) > 0
        THEN made.cpuKnown = r.cpuKnown /\ made.cpuPolicy = r.cpuPolicy
        ELSE ~made.cpuKnown /\ (made.cpuPolicy <=> r.cpuPolicy /\ ~r.cpuKnown)
    BY <1>0, <1>2, ProfileDeleteFacts
  <2> HIDE DEF made
  <2>3. i \in UsedEntries(r) /\ i \in Entries
    BY RuleNumbers DEF EntriesOf, UsedEntries, NoRequest
  <2>4. \A e \in Entries : made.reqToRuleMap[e] = IF e = i THEN NoRule ELSE r.reqToRuleMap[e]
    BY <1>0, <2>1, <2>3 DEF Rules
  <2>5. UsedEntries(made) = UsedEntries(r) \ {i} /\ UsedEntries(r) \subseteq Entries
    BY <2>4 DEF UsedEntries, NoRule
  <2>6. \A e \in UsedEntries(made) : Copied(made, e) = Copied(r, e) /\ made.reqToRuleMap[e] = r.reqToRuleMap[e]
    BY <2>4, <2>5 DEF Copied
  <2>7. \A e \in UsedEntries(made) : r.reqToRuleMap[e].group # r.reqToRuleMap[i].group
    BY <2>3, <2>5 DEF Promised
  <2>8. \A e \in Entries : e \notin UsedEntries(made) => made.reqToRuleMap[e].ruleMatchId = 0
    BY <2>4, <2>5 DEF Promised, NoRule
  <2>9. \A e \in UsedEntries(made) : made.reqToRuleMap[e].ruleMatchId # 0 /\ Copied(made, e) \in made.hw
    BY <2>1, <2>5, <2>6, <2>7 DEF Promised, Copied
  <2>10. \A e, f \in UsedEntries(made) :
           \/ made.reqToRuleMap[e].requestId = made.reqToRuleMap[f].requestId
           \/ made.reqToRuleMap[e].ruleMatchId = made.reqToRuleMap[f].ruleMatchId
           \/ made.reqToRuleMap[e].group = made.reqToRuleMap[f].group
           => e = f
    BY <2>5, <2>6 DEF Promised
  <2>11. (made.cpuKnown <=> made.cpuPolicy) /\ (made.cpuPolicy => UsedEntries(made) # {})
    BY <2>2, TotalRulesIs DEF Promised
  <2>12. Promised(made)
    BY <1>0, <2>8, <2>9, <2>10, <2>11 DEF Promised
  <2> QED BY <2>12 DEF made
<1> QED BY <1>1, <1>2

-----------------------------------------------------------------------------
(* Packet trace: each slot by itself, whatever clients ask and what fails.  *)

KindsOrNone == Kinds \cup {"none"}
MethodsOrNone == Methods \cup {"none"}
Profile == [in_use : BOOLEAN, id : Ids \cup {0}, type : KindsOrNone, req_method : MethodsOrNone, rcvd_pkts : 0..PktLimit]
PtTimer == [in_use : BOOLEAN, msg_type : KindsOrNone, req_method : MethodsOrNone]

TracesPackets(p) == p.in_use /\ p.req_method = "5tuple"

\* A slot's profile, its timer, the system timers with its context and the
\* packets reported for it.
GoodSlot(p, timer, n, k) ==
  /\ timer.in_use => /\ n >= 1 /\ p.in_use
                     /\ timer.msg_type = p.type /\ timer.req_method = p.req_method
  /\ k <= p.rcvd_pkts
  /\ ~TracesPackets(p) => k = 0

PtSlots ==
  /\ profile_list \in [Slots -> Profile] /\ pt_timer \in [Slots -> PtTimer]
  /\ running \in [Slots -> 0..MaxTimers] /\ reportedPkts \in [Slots -> Nat]
  /\ \A s \in Slots : GoodSlot(profile_list[s], pt_timer[s], running[s], reportedPkts[s])

PtSlotVars == <<profile_list, pt_timer, running, reportedPkts>>

LEMMA PtNumbers ==
  /\ MaxProfiles \in Nat /\ MaxProfiles >= 1 /\ MaxTimers \in Nat /\ PktQueue \in Nat /\ PktQueue >= 1
  /\ HalfQueue \in Nat /\ PktLimit \in Nat
  /\ Slots \subseteq Nat /\ 0 \in Slots /\ None \notin Slots
  /\ \A s : s \in Slots <=> s \in Nat /\ s < MaxProfiles
  BY PacketTraceAssumption DEF Slots, None

LEMMA Updated ==
  ASSUME NEW S, NEW T, NEW f \in [S -> T], NEW s \in S, NEW v \in T
  PROVE  /\ [f EXCEPT ![s] = v] \in [S -> T]
         /\ [f EXCEPT ![s] = v][s] = v
         /\ \A t \in S : t # s => [f EXCEPT ![s] = v][t] = f[t]
         /\ [f EXCEPT ![s] = f[s]] = f
  OBVIOUS

\* What the abstract specification sees of a step on a slot: a start, a stop,
\* a new interval, nothing, or a report.
LimitsStep(p, k, p1, k1) ==
  \/ k1 = 0
  \/ (TracesPackets(p1) <=> TracesPackets(p)) /\ k1 = k
  \/ TracesPackets(p1) /\ TracesPackets(p) /\ k < PktLimit /\ k1 = k + 1

LEMMA SlotStep ==
  ASSUME PtSlots, NEW s \in Slots,
         NEW p \in Profile, NEW timer \in PtTimer, NEW n \in 0..MaxTimers, NEW k \in Nat,
         profile_list' = [profile_list EXCEPT ![s] = p],
         pt_timer' = [pt_timer EXCEPT ![s] = timer],
         running' = [running EXCEPT ![s] = n],
         reportedPkts' = [reportedPkts EXCEPT ![s] = k],
         GoodSlot(p, timer, n, k),
         LimitsStep(profile_list[s], reportedPkts[s], p, k)
  PROVE  PtSlots' /\ [PtLimits!Next]_PtLimits!sampledVars
<1>1. /\ profile_list' \in [Slots -> Profile] /\ pt_timer' \in [Slots -> PtTimer]
      /\ running' \in [Slots -> 0..MaxTimers] /\ reportedPkts' \in [Slots -> Nat]
      /\ profile_list'[s] = p /\ pt_timer'[s] = timer /\ running'[s] = n /\ reportedPkts'[s] = k
      /\ \A t \in Slots : t # s => /\ profile_list'[t] = profile_list[t] /\ pt_timer'[t] = pt_timer[t]
                                 /\ running'[t] = running[t] /\ reportedPkts'[t] = reportedPkts[t]
  BY Updated DEF PtSlots
<1>2. PtSlots'
  <2>1. \A t \in Slots : GoodSlot(profile_list'[t], pt_timer'[t], running'[t], reportedPkts'[t])
    BY <1>1 DEF PtSlots
  <2> QED BY <1>1, <2>1 DEF PtSlots
<1> DEFINE before == [t \in Slots |-> profile_list[t].in_use /\ profile_list[t].req_method = "5tuple"]
           after == [t \in Slots |-> profile_list'[t].in_use /\ profile_list'[t].req_method = "5tuple"]
<1>3. /\ after[s] <=> TracesPackets(p)
      /\ before[s] <=> TracesPackets(profile_list[s])
      /\ after = [before EXCEPT ![s] = after[s]]
  BY <1>1 DEF TracesPackets
<1>4. /\ after[s] = TRUE \/ after[s] = FALSE
      /\ before \in [Slots -> BOOLEAN] /\ reportedPkts \in [Slots -> Nat]
  BY DEF PtSlots
<1>5. CASE k = 0
  <2>1. CASE after[s] = TRUE
    <3>1. after = [before EXCEPT ![s] = TRUE]
      BY <1>3, <2>1
    <3>2. PtLimits!Start(s)
      BY <1>5, <3>1 DEF PtLimits!Start
    <3> QED BY <1>2, <3>2 DEF PtLimits!Next
  <2>2. CASE after[s] = FALSE
    <3>1. after = [before EXCEPT ![s] = FALSE]
      BY <1>3, <2>2
    <3>2. PtLimits!Stop(s)
      BY <1>5, <3>1 DEF PtLimits!Stop
    <3> QED BY <1>2, <3>2 DEF PtLimits!Next
  <2> QED BY <1>4, <2>1, <2>2
<1>6. CASE (TracesPackets(p) <=> TracesPackets(profile_list[s])) /\ k = reportedPkts[s]
  <2>1. after[s] = before[s]
    BY <1>3, <1>4, <1>6
  <2>2. after = before
    BY <1>3, <1>4, <2>1, Updated
  <2>3. reportedPkts' = reportedPkts
    BY <1>4, <1>6, Updated
  <2>4. UNCHANGED PtLimits!sampledVars
    BY <2>2, <2>3 DEF PtLimits!sampledVars
  <2> QED BY <1>2, <2>4
<1>7. CASE TracesPackets(p) /\ TracesPackets(profile_list[s]) /\ reportedPkts[s] < PktLimit /\ k = reportedPkts[s] + 1
  <2>1. after[s] = before[s] /\ before[s]
    BY <1>3, <1>4, <1>7
  <2>2. after = before
    BY <1>3, <1>4, <2>1, Updated
  <2>3. PtLimits!Report(s)
    BY <1>7, <2>1, <2>2 DEF PtLimits!Report
  <2> QED BY <1>2, <2>3 DEF PtLimits!Next
<1> QED BY <1>5, <1>6, <1>7 DEF LimitsStep

-----------------------------------------------------------------------------
(* Packet trace: messages, the client and the rules.                        *)

PtRequests == [msg : {"request"}, id : Ids \cup {0}, kind : KindsOrNone, method : MethodsOrNone, periodic : BOOLEAN]
PtTicks == [msg : {"tick"}, id : Slots, kind : KindsOrNone, method : MethodsOrNone, periodic : BOOLEAN]
PtPackets == [msg : {"packet"}, id : Ids, kind : KindsOrNone, method : MethodsOrNone, periodic : BOOLEAN]
PtMessages == PtRequests \cup PtTicks \cup PtPackets

PtClient ==
  /\ client \in [msg : {"idle", "get", "cancel", "feature"}, id : Ids \cup {0}, kind : KindsOrNone,
                 method : MethodsOrNone, periodic : BOOLEAN]
  /\ client.msg = "get" => client.id \in Ids /\ client.kind \in Kinds /\ client.method \in Methods
  /\ client.msg = "cancel" => client.id \in Ids

PtInv ==
  /\ PtSlots /\ PtClient
  /\ ptEnable \in BOOLEAN
  /\ queue \in Seq(PtMessages) /\ Len(queue) <= PktQueue
  /\ rules \in Rules

LEMMA FindIndexIs ==
  ASSUME NEW id
  PROVE  /\ FindIndex(id) \in Slots \cup {None}
         /\ FindIndex(id) \in Slots => ~profile_list[FindIndex(id)].in_use \/ profile_list[FindIndex(id)].id = id
         /\ \A s \in Slots : ~profile_list[s].in_use \/ profile_list[s].id = id =>
                               FindIndex(id) \in Slots /\ FindIndex(id) <= s
<1> DEFINE found == {s \in Slots : ~profile_list[s].in_use \/ profile_list[s].id = id}
<1>1. FindIndex(id) = IF found = {} THEN None ELSE FirstOf(found)
  BY DEF FindIndex
<1>2. found \in SUBSET Nat
  BY PtNumbers
<1>3. found # {} => FirstOf(found) \in found /\ \A y \in found : FirstOf(found) <= y
  BY <1>2, FirstOfIn
<1>4. CASE found = {}
  <2>1. FindIndex(id) = None /\ \A s \in Slots : ~(~profile_list[s].in_use \/ profile_list[s].id = id)
    BY <1>1, <1>4
  <2> QED BY <2>1, PtNumbers
<1>5. CASE found # {}
  <2>1. FindIndex(id) \in found /\ \A y \in found : FindIndex(id) <= y
    BY <1>1, <1>3, <1>5
  <2> QED BY <2>1
<1> QED BY <1>4, <1>5

LEMMA PacketSlotIs == \A id : PacketSlot(id) \in Slots
  BY FindIndexIs, PtNumbers DEF PacketSlot

LEMMA ServingFacts ==
  ASSUME PtInv, NEW msg \in {"request", "tick", "packet"}, Serving(msg)
  PROVE  /\ queue' \in Seq(PtMessages) /\ Len(queue') <= PktQueue
         /\ Head(queue) \in PtMessages
         /\ msg = "tick" => Head(queue).id \in Slots
         /\ msg = "packet" => Head(queue).id \in Ids
<1>1. queue \in Seq(PtMessages) /\ queue # << >> /\ queue' = Tail(queue) /\ Len(queue) <= PktQueue
  BY DEF PtInv, Serving
<1>2. queue' \in Seq(PtMessages) /\ Len(queue') <= PktQueue /\ Head(queue) \in PtMessages
  BY <1>1, TailFacts, PtNumbers
<1>3. Head(queue).msg = msg
  BY DEF Serving
<1> QED BY <1>2, <1>3 DEF PtMessages, PtRequests, PtTicks, PtPackets

LEMMA RuleToReqType ==
  ASSUME NEW r \in Rules, NEW match
  PROVE  RuleToReq(r, match) \in Ids \cup {NoRequest}
<1> DEFINE found == {e \in Entries : r.reqToRuleMap[e].ruleMatchId = match} \ EntriesOf(r, NoRequest)
<1>1. RuleToReq(r, match) = IF found = {} THEN NoRequest ELSE r.reqToRuleMap[FirstOf(found)].requestId
  BY DEF RuleToReq
<1>2. found # {} => FirstOf(found) \in Entries
  BY FirstOfIn, RuleNumbers
<1> QED BY <1>1, <1>2 DEF Rules, RuleEntry

\* A step that leaves the slots as they are.
LEMMA SlotsKept ==
  ASSUME PtSlots, UNCHANGED <<profile_list, pt_timer, running, reportedPkts>>
  PROVE  PtSlots' /\ [PtLimits!Next]_PtLimits!sampledVars
  BY DEF PtSlots, PtLimits!sampledVars

PtStep == PtInv' /\ [PtLimits!Next]_PtLimits!sampledVars

LEMMA PtAskStep ==
  ASSUME PtInv,
         \/ \E id \in Ids, kind \in Kinds, method \in Methods, periodic \in BOOLEAN : AskGet(id, kind, method, periodic)
         \/ \E id \in Ids, kind \in Kinds : AskCancel(id, kind)
         \/ \E enable \in BOOLEAN : AskFeature(enable)
  PROVE  PtStep
<1>1. ASSUME NEW m, Ask(m), m.msg \in {"get", "cancel", "feature"},
             m \in [msg : {"idle", "get", "cancel", "feature"}, id : Ids \cup {0}, kind : KindsOrNone,
                    method : MethodsOrNone, periodic : BOOLEAN],
             m.msg = "get" => m.id \in Ids /\ m.kind \in Kinds /\ m.method \in Methods,
             m.msg = "cancel" => m.id \in Ids
      PROVE  PtStep
  <2>1. [m EXCEPT !.msg = "request"] \in PtMessages
    BY <1>1 DEF PtMessages, PtRequests
  <2> DEFINE posted == [m EXCEPT !.msg = "request"]
  <2>2. /\ queue' = Append(queue, posted) /\ Len(queue) < PktQueue /\ client' = m
        /\ UNCHANGED <<profile_list, pt_timer, running, reportedPkts, rules, ptEnable>>
    BY <1>1 DEF Ask
  <2> HIDE DEF posted
  <2>3. queue' \in Seq(PtMessages) /\ Len(queue') <= PktQueue
    BY <2>1, <2>2, AppendFacts, PtNumbers DEF PtInv, posted
  <2>4. PtClient'
    BY <1>1, <2>2 DEF PtClient
  <2>5. PtSlots' /\ [PtLimits!Next]_PtLimits!sampledVars
    BY <2>2, SlotsKept DEF PtInv
  <2> QED BY <2>2, <2>3, <2>4, <2>5 DEF PtInv, PtStep
<1>2. ASSUME NEW id \in Ids, NEW kind \in Kinds, NEW method \in Methods, NEW periodic \in BOOLEAN,
             AskGet(id, kind, method, periodic)
      PROVE  PtStep
  BY <1>1, <1>2 DEF AskGet, KindsOrNone, MethodsOrNone
<1>3. ASSUME NEW id \in Ids, NEW kind \in Kinds, AskCancel(id, kind)
      PROVE  PtStep
  BY <1>1, <1>3 DEF AskCancel, Idle, KindsOrNone, MethodsOrNone
<1>4. ASSUME NEW enable \in BOOLEAN, AskFeature(enable)
      PROVE  PtStep
  BY <1>1, <1>4 DEF AskFeature, Idle, KindsOrNone, MethodsOrNone
<1> QED BY <1>2, <1>3, <1>4

LEMMA PtPostStep ==
  ASSUME PtInv, (\E s \in Slots : PeriodicCollectionCb(s)) \/ (\E h \in rules.hw : PtPktMuxCb(h))
  PROVE  PtStep
<1>1. ASSUME NEW m \in PtMessages, queue' = Append(queue, m), Len(queue) < PktQueue,
             UNCHANGED <<ptEnable, profile_list, reportedPkts, pt_timer, running, client, rules>>
      PROVE  PtStep
  <2>1. queue' \in Seq(PtMessages) /\ Len(queue') <= PktQueue
    BY <1>1, AppendFacts, PtNumbers DEF PtInv
  <2>2. PtSlots' /\ [PtLimits!Next]_PtLimits!sampledVars
    BY <1>1, SlotsKept DEF PtInv
  <2> QED BY <1>1, <2>1, <2>2 DEF PtInv, PtClient, PtStep
<1>2. ASSUME NEW s \in Slots, PeriodicCollectionCb(s)
      PROVE  PtStep
  <2>1. [msg |-> "tick", id |-> s, kind |-> pt_timer[s].msg_type,
         method |-> pt_timer[s].req_method, periodic |-> TRUE] \in PtMessages
    BY DEF PtInv, PtSlots, PtTimer, PtMessages, PtTicks
  <2> QED BY <1>1, <1>2, <2>1 DEF PeriodicCollectionCb
<1>3. ASSUME NEW h \in rules.hw, PtPktMuxCb(h)
      PROVE  PtStep
  <2>1. RuleToReq(rules, h.match) \in Ids
    BY <1>3, RuleToReqType DEF PtInv, PtPktMuxCb
  <2>2. [Idle EXCEPT !.msg = "packet", !.id = RuleToReq(rules, h.match)] \in PtMessages
    BY <2>1 DEF Idle, PtMessages, PtPackets, KindsOrNone, MethodsOrNone
  <2> QED BY <1>1, <1>3, <2>2 DEF PtPktMuxCb
<1> QED BY <1>2, <1>3

LEMMA PtClientAnswered ==
  ASSUME NEW rv, NEW beliefs, Answer(rv, beliefs)
  PROVE  PtClient'
  BY DEF Answer, PtClient, Idle, KindsOrNone, MethodsOrNone

\* A step of the application's thread that leaves the slots as they are.
LEMMA PtAppKeeps ==
  ASSUME PtInv, NEW msg \in {"request", "tick", "packet"}, Serving(msg),
         UNCHANGED <<profile_list, pt_timer, running, reportedPkts>>,
         ptEnable' \in BOOLEAN, rules' \in Rules, PtClient'
  PROVE  PtStep
<1>1. PtSlots' /\ [PtLimits!Next]_PtLimits!sampledVars
  BY SlotsKept DEF PtInv
<1>2. queue' \in Seq(PtMessages) /\ Len(queue') <= PktQueue
  BY ServingFacts
<1> QED BY <1>1, <1>2 DEF PtInv, PtStep

\* A request to collect leaves the rules well formed.
LEMMA CollectType ==
  ASSUME PtInv, client.msg = "get", NEW fault, Collect(client, fault)
  PROVE  rules' \in Rules /\ PtClient'
<1>1. client.id \in Ids /\ rules \in Rules
  BY DEF PtInv, PtClient
<1>2. CASE client.method = "5tuple"
  <2>1. rules' = ProfileCreate(rules, client.id, fault).rules
    BY <1>2 DEF Collect
  <2>2. rules' \in Rules
    BY <1>1, <2>1, ProfileCreateType
  <2>3. PtClient'
    BY <1>2, PtClientAnswered DEF Collect
  <2> QED BY <2>2, <2>3
<1>3. CASE client.method # "5tuple"
  BY <1>1, <1>3, PtClientAnswered DEF Collect
<1> QED BY <1>2, <1>3

\* The timer of a slot: for the profile it was started for, or none.
LEMMA TimerAddFacts ==
  ASSUME PtSlots, NEW s \in Slots, NEW kind \in Kinds, NEW method \in Methods, NEW same \in BOOLEAN, NEW fault,
         TimerAdd(s, kind, method, same, fault)
  PROVE  \E n \in 0..MaxTimers, timer \in PtTimer :
           /\ running' = [running EXCEPT ![s] = n]
           /\ pt_timer' = [pt_timer EXCEPT ![s] = timer]
           /\ \/ timer.in_use /\ timer.msg_type = kind /\ timer.req_method = method /\ n >= 1
              \/ ~timer.in_use
           /\ ~pt_timer[s].in_use /\ running[s] < MaxTimers /\ fault # "timer" =>
                n = running[s] + 1 /\ timer.in_use
<1> DEFINE kept == IF pt_timer[s].in_use /\ ~same THEN running[s] - 1 ELSE running[s]
           started == fault # "timer" /\ kept < MaxTimers
           n == IF started THEN kept + 1 ELSE kept
           on == [in_use |-> TRUE, msg_type |-> kind, req_method |-> method]
           timer == IF started THEN on ELSE NoTimer
<1>1. running' = [running EXCEPT ![s] = n] /\ pt_timer' = [pt_timer EXCEPT ![s] = timer]
  BY DEF TimerAdd
<1>2. running[s] \in 0..MaxTimers /\ (pt_timer[s].in_use => running[s] >= 1)
  BY DEF PtSlots, GoodSlot
<1>3. kept \in 0..MaxTimers /\ (~pt_timer[s].in_use => kept = running[s])
  BY <1>2, PtNumbers
<1>4. on \in PtTimer /\ NoTimer \in PtTimer /\ ~NoTimer.in_use
  BY DEF PtTimer, NoTimer, KindsOrNone, MethodsOrNone
<1> HIDE DEF kept, on
<1>5. n \in 0..MaxTimers /\ (started => n >= 1)
  BY <1>3, PtNumbers
<1>6. timer \in PtTimer /\ (started => timer = on) /\ (~started => timer = NoTimer)
  BY <1>4
<1>7. ~pt_timer[s].in_use /\ running[s] < MaxTimers /\ fault # "timer" => started /\ n = running[s] + 1
  BY <1>3
<1>8. on.in_use /\ on.msg_type = kind /\ on.req_method = method
  BY DEF on
<1> HIDE DEF started, n, timer
<1> QED BY <1>1, <1>4, <1>5, <1>6, <1>7, <1>8

LEMMA PtGetStep ==
  ASSUME PtInv, NEW same \in BOOLEAN, NEW fault, ProfileGetPeriodic(same, fault)
  PROVE  PtStep
<1> DEFINE s == FindIndex(client.id)
           p == [in_use |-> TRUE, id |-> client.id, type |-> client.kind, req_method |-> client.method, rcvd_pkts |-> 0]
<1>1. /\ Serving("request") /\ client.msg = "get" /\ s \in Slots /\ ptEnable' = ptEnable
      /\ profile_list' = [profile_list EXCEPT ![s] = p]
      /\ reportedPkts' = [reportedPkts EXCEPT ![s] = 0]
      /\ TimerAdd(s, client.kind, client.method, same, fault) /\ Collect(client, fault)
  BY FindIndexIs DEF ProfileGetPeriodic, FillSlot
<1>2. client.id \in Ids /\ client.kind \in Kinds /\ client.method \in Methods
  BY <1>1 DEF PtInv, PtClient
<1>3. p \in Profile /\ p.in_use /\ p.type = client.kind /\ p.req_method = client.method /\ p.rcvd_pkts = 0
  BY <1>2, PtNumbers DEF Profile, KindsOrNone, MethodsOrNone
<1> HIDE DEF s, p
<1>4. PtSlots
  BY DEF PtInv
<1>5. PICK n \in 0..MaxTimers, timer \in PtTimer :
           /\ running' = [running EXCEPT ![s] = n]
           /\ pt_timer' = [pt_timer EXCEPT ![s] = timer]
           /\ \/ timer.in_use /\ timer.msg_type = client.kind /\ timer.req_method = client.method /\ n >= 1
              \/ ~timer.in_use
  BY <1>1, <1>2, <1>4, TimerAddFacts
<1>6. GoodSlot(p, timer, n, 0) /\ LimitsStep(profile_list[s], reportedPkts[s], p, 0)
  BY <1>3, <1>5 DEF GoodSlot, LimitsStep
<1>7. PtSlots' /\ [PtLimits!Next]_PtLimits!sampledVars
  <2>1. /\ s \in Slots /\ p \in Profile /\ 0 \in Nat
        /\ profile_list' = [profile_list EXCEPT ![s] = p] /\ reportedPkts' = [reportedPkts EXCEPT ![s] = 0]
        /\ running' = [running EXCEPT ![s] = n] /\ pt_timer' = [pt_timer EXCEPT ![s] = timer]
    BY <1>1, <1>3, <1>5
  <2> QED BY <1>4, <1>6, <2>1, SlotStep
<1>8. queue' \in Seq(PtMessages) /\ Len(queue') <= PktQueue
  BY <1>1, ServingFacts
<1>9. rules' \in Rules /\ PtClient'
  BY <1>1, CollectType
<1> QED BY <1>1, <1>7, <1>8, <1>9 DEF PtInv, PtStep

\* A step on one slot that leaves its timer alone.
LEMMA PtCountStep ==
  ASSUME PtInv, NEW msg \in {"request", "tick", "packet"}, Serving(msg), NEW s \in Slots,
         NEW p \in Profile, NEW k \in Nat,
         profile_list' = [profile_list EXCEPT ![s] = p], reportedPkts' = [reportedPkts EXCEPT ![s] = k],
         p.in_use = profile_list[s].in_use, p.type = profile_list[s].type,
         p.req_method = profile_list[s].req_method,
         k <= p.rcvd_pkts, k # 0 => TracesPackets(p),
         LimitsStep(profile_list[s], reportedPkts[s], p, k),
         UNCHANGED <<ptEnable, pt_timer, running, rules, client>>
  PROVE  PtStep
<1>1. PtSlots /\ pt_timer[s] \in PtTimer /\ running[s] \in 0..MaxTimers
      /\ GoodSlot(profile_list[s], pt_timer[s], running[s], reportedPkts[s])
  BY DEF PtInv, PtSlots
<1>2. GoodSlot(p, pt_timer[s], running[s], k)
  BY <1>1 DEF GoodSlot
<1>3. pt_timer' = [pt_timer EXCEPT ![s] = pt_timer[s]] /\ running' = [running EXCEPT ![s] = running[s]]
  BY <1>1, Updated DEF PtSlots
<1>4. PtSlots' /\ [PtLimits!Next]_PtLimits!sampledVars
  BY <1>1, <1>2, <1>3, SlotStep
<1>5. queue' \in Seq(PtMessages) /\ Len(queue') <= PktQueue
  BY ServingFacts
<1> QED BY <1>4, <1>5 DEF PtInv, PtClient, PtStep

LEMMA PtTickStep ==
  ASSUME PtInv, NEW fault, ProfileTick(fault)
  PROVE  PtStep
<1> DEFINE s == Head(queue).id
           started == ptEnable /\ profile_list[s].req_method = "5tuple"
           p == [profile_list[s] EXCEPT !.rcvd_pkts = 0]
<1>1. /\ Serving("tick") /\ UNCHANGED <<ptEnable, pt_timer, running, rules, client>>
      /\ profile_list' = IF started THEN [profile_list EXCEPT ![s].rcvd_pkts = 0] ELSE profile_list
      /\ reportedPkts' = IF profile_list' = profile_list THEN reportedPkts ELSE [reportedPkts EXCEPT ![s] = 0]
  BY DEF ProfileTick, Unanswered
<1>2. s \in Slots
  BY <1>1, ServingFacts
<1> HIDE DEF s
<1>3. /\ profile_list \in [Slots -> Profile] /\ reportedPkts \in [Slots -> Nat] /\ profile_list[s] \in Profile
      /\ reportedPkts[s] <= profile_list[s].rcvd_pkts
  BY <1>2 DEF PtInv, PtSlots, GoodSlot
<1>4. CASE profile_list' = profile_list
  BY <1>1, <1>4, PtAppKeeps DEF PtInv, PtClient
<1>5. CASE profile_list' # profile_list
  <2>1. profile_list' = [profile_list EXCEPT ![s] = p] /\ reportedPkts' = [reportedPkts EXCEPT ![s] = 0]
    BY <1>1, <1>5
  <2>2. p \in Profile /\ p.in_use = profile_list[s].in_use /\ p.type = profile_list[s].type
        /\ p.req_method = profile_list[s].req_method /\ p.rcvd_pkts = 0
    BY <1>3, PtNumbers DEF Profile
  <2> HIDE DEF p
  <2>3. LimitsStep(profile_list[s], reportedPkts[s], p, 0) /\ 0 <= p.rcvd_pkts /\ 0 \in Nat
    BY <2>2 DEF LimitsStep
  <2>4. Serving("tick") /\ UNCHANGED <<ptEnable, pt_timer, running, rules, client>>
    BY <1>1
  <2> QED BY <1>2, <2>1, <2>2, <2>3, <2>4, PtCountStep
<1> QED BY <1>4, <1>5

LEMMA PtPacketStep ==
  ASSUME PtInv, NEW fault, PacketReceived(fault)
  PROVE  PtStep
<1> DEFINE s == PacketSlot(Head(queue).id)
           p0 == profile_list[s]
           traced == p0.in_use /\ p0.req_method = "5tuple"
           c == IF traced /\ p0.rcvd_pkts < PktLimit THEN p0.rcvd_pkts + 1 ELSE p0.rcvd_pkts
           k == IF traced /\ BelowLimit(p0) /\ fault # "collect" THEN reportedPkts[s] + 1 ELSE reportedPkts[s]
           p == [p0 EXCEPT !.rcvd_pkts = c]
<1>1. /\ Serving("packet") /\ UNCHANGED <<ptEnable, pt_timer, running, rules, client>>
      /\ profile_list' = [profile_list EXCEPT ![s].rcvd_pkts = IF traced /\ @ < PktLimit THEN @ + 1 ELSE @]
      /\ reportedPkts' = [reportedPkts EXCEPT ![s] =
                           IF traced /\ BelowLimit(p0) /\ fault # "collect" THEN @ + 1 ELSE @]
  BY DEF PacketReceived, Unanswered
<1>2. s \in Slots
  BY PacketSlotIs
<1>3. /\ p0 \in Profile /\ reportedPkts[s] \in Nat /\ profile_list \in [Slots -> Profile]
      /\ reportedPkts \in [Slots -> Nat] /\ reportedPkts[s] <= p0.rcvd_pkts
      /\ ~traced => reportedPkts[s] = 0
  BY <1>2 DEF PtInv, PtSlots, GoodSlot, TracesPackets
<1>4. profile_list' = [profile_list EXCEPT ![s] = p] /\ reportedPkts' = [reportedPkts EXCEPT ![s] = k]
  BY <1>1, <1>2, <1>3
<1> HIDE DEF s
<1>5. p0.rcvd_pkts \in 0..PktLimit
  BY <1>3 DEF Profile
<1>6. c \in 0..PktLimit /\ k \in Nat /\ k <= c /\ (k # 0 => traced)
      /\ (k = reportedPkts[s] \/ (traced /\ reportedPkts[s] < PktLimit /\ k = reportedPkts[s] + 1))
  BY <1>3, <1>5, PtNumbers DEF BelowLimit
<1> HIDE DEF c, k
<1>7. p \in Profile /\ p.in_use = p0.in_use /\ p.type = p0.type /\ p.req_method = p0.req_method /\ p.rcvd_pkts = c
  BY <1>3, <1>6 DEF Profile
<1> HIDE DEF p
<1>8. LimitsStep(p0, reportedPkts[s], p, k) /\ (k # 0 => TracesPackets(p))
  BY <1>6, <1>7 DEF LimitsStep, TracesPackets
<1> QED BY <1>1, <1>2, <1>4, <1>6, <1>7, <1>8, PtCountStep

LEMMA PtCancelStep ==
  ASSUME PtInv, NEW fault, ProfileCancel(fault)
  PROVE  PtStep
<1> DEFINE s == CancelSlot(client.id)
           n == IF pt_timer[s].in_use THEN running[s] - 1 ELSE running[s]
           deleted == ProfileDelete(rules, client.id, fault)
<1>1. /\ Serving("request") /\ client.msg = "cancel" /\ TimerDelete(s) /\ ptEnable' = ptEnable
      /\ profile_list' = [profile_list EXCEPT ![s] = FreeSlot] /\ reportedPkts' = [reportedPkts EXCEPT ![s] = 0]
      /\ rules' \in {deleted.rules, rules}
  BY DEF ProfileCancel
<1>2. PtClient'
  BY PtClientAnswered DEF ProfileCancel
<1>3. rules \in Rules /\ client.id \in Ids \cup {0} /\ PtSlots
  BY <1>1 DEF PtInv, PtClient
<1>4. deleted.rules \in Rules
  BY <1>3, ProfileDeleteFacts
<1>5. s \in Slots
  BY PacketSlotIs DEF CancelSlot
<1> HIDE DEF s, deleted
<1>6. running' = [running EXCEPT ![s] = n] /\ pt_timer' = [pt_timer EXCEPT ![s] = NoTimer]
  BY <1>1 DEF TimerDelete
<1>7. running[s] \in 0..MaxTimers /\ (pt_timer[s].in_use => running[s] >= 1)
  BY <1>3, <1>5 DEF PtSlots, GoodSlot
<1>8. n \in 0..MaxTimers
  BY <1>7, PtNumbers
<1> HIDE DEF n
<1>9. FreeSlot \in Profile /\ NoTimer \in PtTimer /\ GoodSlot(FreeSlot, NoTimer, n, 0)
      /\ LimitsStep(profile_list[s], reportedPkts[s], FreeSlot, 0)
  BY PtNumbers DEF FreeSlot, NoTimer, Profile, PtTimer, KindsOrNone, MethodsOrNone, GoodSlot, LimitsStep
<1>10. PtSlots' /\ [PtLimits!Next]_PtLimits!sampledVars
  BY <1>1, <1>3, <1>5, <1>6, <1>8, <1>9, SlotStep
<1>11. queue' \in Seq(PtMessages) /\ Len(queue') <= PktQueue
  BY <1>1, ServingFacts
<1> QED BY <1>1, <1>2, <1>3, <1>4, <1>10, <1>11 DEF PtInv, PtStep

LEMMA PtAppStep ==
  ASSUME PtInv, NEW fault, PtAppMain(fault)
  PROVE  PtStep
<1>1. CASE SetFeature
  <2>1. client.periodic \in BOOLEAN /\ rules \in Rules
    BY DEF PtInv, PtClient
  <2> QED BY <1>1, <2>1, PtAppKeeps, PtClientAnswered DEF SetFeature
<1>2. CASE ProfileGetRefused(fault)
  BY <1>2, PtAppKeeps, PtClientAnswered DEF ProfileGetRefused, PtInv
<1>3. CASE ProfileGetOnce(fault)
  <2>1. rules' \in Rules /\ PtClient'
    BY <1>3, CollectType DEF ProfileGetOnce
  <2> QED BY <1>3, <2>1, PtAppKeeps DEF ProfileGetOnce, PtInv
<1> QED BY <1>1, <1>2, <1>3, PtGetStep, PtTickStep, PtPacketStep, PtCancelStep DEF PtAppMain

LEMMA PtInvStep == PtInv /\ [PtNext]_ptVars => PtStep
<1> SUFFICES ASSUME PtInv, [PtNext]_ptVars PROVE PtStep
  OBVIOUS
<1>1. CASE UNCHANGED ptVars
  <2>1. PtSlots' /\ [PtLimits!Next]_PtLimits!sampledVars
    BY <1>1, SlotsKept DEF PtInv, ptVars
  <2> QED BY <1>1, <2>1 DEF ptVars, PtInv, PtClient, PtStep
<1> QED BY <1>1, PtAskStep, PtPostStep, PtAppStep DEF PtNext

LEMMA PtInvInit == PtInit => PtInv /\ PtLimits!Init
<1> SUFFICES ASSUME PtInit PROVE PtInv /\ PtLimits!Init
  OBVIOUS
<1>1. FreeSlot \in Profile /\ NoTimer \in PtTimer /\ GoodSlot(FreeSlot, NoTimer, 0, 0)
  BY PtNumbers DEF FreeSlot, NoTimer, Profile, PtTimer, KindsOrNone, MethodsOrNone, GoodSlot
<1>2. PtSlots
  BY <1>1, PtNumbers DEF PtInit, PtSlots
<1>3. PtClient
  BY DEF PtInit, PtClient, Idle, KindsOrNone, MethodsOrNone
<1>4. rules \in Rules
  BY EmptyIsConsistent DEF PtInit, Consistent
<1>5. PtLimits!Init
  BY DEF PtInit, PtLimits!Init, FreeSlot
<1>6. queue = << >> /\ ptEnable = TRUE
  BY DEF PtInit
<1> QED BY <1>2, <1>3, <1>4, <1>5, <1>6, PtNumbers DEF PtInv

-----------------------------------------------------------------------------
(* Packets leave room in the queue.                                         *)

PacketsIn(q) == {n \in DOMAIN q : q[n].msg = "packet"}

LEMMA TakingLeavesPackets ==
  ASSUME NEW q \in Seq(PtMessages), q # << >>
  PROVE  Cardinality(PacketsIn(Tail(q))) <= Cardinality(PacketsIn(q))
<1> DEFINE shift == [n \in PacketsIn(Tail(q)) |-> n + 1]
<1>1. /\ Len(Tail(q)) = Len(q) - 1 /\ Len(q) \in Nat /\ \A i \in 1 .. Len(q) - 1 : Tail(q)[i] = q[i + 1]
      /\ DOMAIN q = 1 .. Len(q) /\ DOMAIN Tail(q) = 1 .. Len(q) - 1
  <2>1. Tail(q) \in Seq(PtMessages) /\ Len(Tail(q)) = Len(q) - 1 /\ Len(q) \in Nat
        /\ \A i \in 1 .. Len(q) - 1 : Tail(q)[i] = q[i + 1]
    BY TailFacts
  <2> QED BY <2>1
<1>2. shift \in [PacketsIn(Tail(q)) -> PacketsIn(q)]
  BY <1>1 DEF PacketsIn
<1>3. \A m, n \in PacketsIn(Tail(q)) : shift[m] = shift[n] => m = n
  BY <1>1 DEF PacketsIn
<1>4. IsFiniteSet(PacketsIn(q))
  <2>1. IsFiniteSet(DOMAIN q) /\ PacketsIn(q) \subseteq DOMAIN q
    BY <1>1, FS_Interval DEF PacketsIn
  <2> QED BY <2>1, FS_Subset
<1> HIDE DEF shift
<1>5. shift \in Injection(PacketsIn(Tail(q)), PacketsIn(q))
  BY <1>2, <1>3 DEF Injection, IsInjective
<1> QED BY <1>4, <1>5, FS_Injection

LEMMA PostingPackets ==
  ASSUME NEW q \in Seq(PtMessages), NEW m \in PtMessages
  PROVE  /\ m.msg # "packet" => PacketsIn(Append(q, m)) = PacketsIn(q)
         /\ Cardinality(PacketsIn(Append(q, m))) <= Len(q) + 1
<1>1. /\ Append(q, m) \in Seq(PtMessages) /\ Len(Append(q, m)) = Len(q) + 1
      /\ \A i \in 1 .. Len(q) : Append(q, m)[i] = q[i]
      /\ Append(q, m)[Len(q) + 1] = m
  BY AppendFacts
<1>2. DOMAIN q = 1 .. Len(q) /\ DOMAIN Append(q, m) = 1 .. Len(q) + 1 /\ Len(q) \in Nat
  BY <1>1
<1>3. m.msg # "packet" => PacketsIn(Append(q, m)) = PacketsIn(q)
  BY <1>1, <1>2 DEF PacketsIn
<1>4. IsFiniteSet(1 .. Len(q) + 1) /\ Cardinality(1 .. Len(q) + 1) = Len(q) + 1
  BY <1>2, FS_Interval
<1>5. PacketsIn(Append(q, m)) \subseteq 1 .. Len(q) + 1
  BY <1>2 DEF PacketsIn
<1>6. Cardinality(PacketsIn(Append(q, m))) <= Cardinality(1 .. Len(q) + 1)
  BY <1>4, <1>5, FS_Subset
<1> QED BY <1>3, <1>4, <1>6

LEMMA RoomStep ==
  ASSUME PtInv, PtInv', RoomForRequests, [PtNext]_ptVars
  PROVE  RoomForRequests'
<1>1. queue \in Seq(PtMessages) /\ Cardinality(PacketsIn(queue)) <= HalfQueue + 1
  BY DEF PtInv, RoomForRequests, PacketsIn
<1>2. SUFFICES Cardinality(PacketsIn(queue')) <= HalfQueue + 1
  BY DEF RoomForRequests, PacketsIn
<1>3. ASSUME NEW m, m \in PtMessages, m.msg # "packet", queue' = Append(queue, m)
      PROVE  Cardinality(PacketsIn(queue')) <= HalfQueue + 1
  BY <1>1, <1>3, PostingPackets
<1>4. ASSUME NEW msg, Serving(msg)
      PROVE  Cardinality(PacketsIn(queue')) <= HalfQueue + 1
  <2>1. queue # << >> /\ queue' = Tail(queue)
    BY <1>4 DEF Serving
  <2>2. Cardinality(PacketsIn(queue')) <= Cardinality(PacketsIn(queue))
    BY <1>1, <2>1, TakingLeavesPackets
  <2>3. IsFiniteSet(PacketsIn(queue)) /\ IsFiniteSet(PacketsIn(queue'))
    <3>1. \A q \in Seq(PtMessages) : PacketsIn(q) \subseteq 1 .. Len(q) /\ Len(q) \in Nat
      BY DEF PacketsIn
    <3>2. \A q \in Seq(PtMessages) : IsFiniteSet(1 .. Len(q))
      BY <3>1, FS_Interval
    <3> QED BY <3>1, <3>2, FS_Subset DEF PtInv
  <2>4. Cardinality(PacketsIn(queue)) \in Nat /\ Cardinality(PacketsIn(queue')) \in Nat
    BY <2>3, FS_CardinalityType
  <2> QED BY <1>1, <2>2, <2>4, PtNumbers
<1>5. CASE UNCHANGED ptVars
  BY <1>1, <1>5 DEF ptVars
<1>6. ASSUME NEW m, Ask(m), m \in [msg : {"idle", "get", "cancel", "feature"}, id : Ids \cup {0}, kind : KindsOrNone,
                    method : MethodsOrNone, periodic : BOOLEAN]
      PROVE  Cardinality(PacketsIn(queue')) <= HalfQueue + 1
  <2> DEFINE posted == [m EXCEPT !.msg = "request"]
  <2>1. posted \in PtMessages /\ posted.msg # "packet" /\ queue' = Append(queue, posted)
    BY <1>6 DEF Ask, PtMessages, PtRequests
  <2> HIDE DEF posted
  <2> QED BY <1>3, <2>1
<1>7. CASE \/ \E id \in Ids, kind \in Kinds, method \in Methods, periodic \in BOOLEAN : AskGet(id, kind, method, periodic)
           \/ \E id \in Ids, kind \in Kinds : AskCancel(id, kind)
           \/ \E enable \in BOOLEAN : AskFeature(enable)
  BY <1>6, <1>7 DEF AskGet, AskCancel, AskFeature, Idle, KindsOrNone, MethodsOrNone
<1>8. ASSUME NEW s \in Slots, PeriodicCollectionCb(s)
      PROVE  Cardinality(PacketsIn(queue')) <= HalfQueue + 1
  <2> DEFINE tick == [msg |-> "tick", id |-> s, kind |-> pt_timer[s].msg_type,
                      method |-> pt_timer[s].req_method, periodic |-> TRUE]
  <2>1. tick \in PtMessages /\ tick.msg # "packet" /\ queue' = Append(queue, tick)
    BY <1>8 DEF PtInv, PtSlots, PtTimer, PtMessages, PtTicks, PeriodicCollectionCb
  <2> HIDE DEF tick
  <2> QED BY <1>3, <2>1
<1>9. ASSUME NEW h \in rules.hw, PtPktMuxCb(h)
      PROVE  Cardinality(PacketsIn(queue')) <= HalfQueue + 1
  <2> DEFINE packet == [Idle EXCEPT !.msg = "packet", !.id = RuleToReq(rules, h.match)]
  <2>1. RuleToReq(rules, h.match) \in Ids
    BY <1>9, RuleToReqType DEF PtInv, PtPktMuxCb
  <2>2. packet \in PtMessages
    BY <2>1 DEF Idle, PtMessages, PtPackets, KindsOrNone, MethodsOrNone
  <2>3. queue' = Append(queue, packet) /\ Len(queue) <= HalfQueue
    BY <1>9 DEF PtPktMuxCb
  <2> HIDE DEF packet
  <2>4. Cardinality(PacketsIn(queue')) <= Len(queue) + 1
    BY <1>1, <2>2, <2>3, PostingPackets
  <2>5. IsFiniteSet(PacketsIn(queue')) /\ Len(queue) \in Nat
    <3>1. PacketsIn(queue') \subseteq 1 .. Len(queue') /\ Len(queue') \in Nat /\ Len(queue) \in Nat
      BY DEF PacketsIn, PtInv
    <3>2. IsFiniteSet(1 .. Len(queue'))
      BY <3>1, FS_Interval
    <3> QED BY <3>1, <3>2, FS_Subset
  <2>6. Cardinality(PacketsIn(queue')) \in Nat
    BY <2>5, FS_CardinalityType
  <2> QED BY <2>3, <2>4, <2>5, <2>6, PtNumbers
<1>10. ASSUME NEW fault, PtAppMain(fault)
       PROVE  Cardinality(PacketsIn(queue')) <= HalfQueue + 1
  <2>1. Serving("request") \/ Serving("tick") \/ Serving("packet")
    BY <1>10 DEF PtAppMain, SetFeature, ProfileGetRefused, ProfileGetPeriodic, ProfileGetOnce, ProfileTick,
                 PacketReceived, ProfileCancel
  <2> QED BY <1>4, <2>1
<1> QED BY <1>5, <1>7, <1>8, <1>9, <1>10 DEF PtNext

-----------------------------------------------------------------------------
(* What careful clients get: their profiles, each in its slot, in the order *)
(* in which they were asked for.                                            *)

Belief == [id : Ids, kind : Kinds, method : Methods, nth : Nat]

\* As many profiles as the client was told of, in the first slots.
InOrder ==
  /\ believed \in SUBSET Belief /\ IsFiniteSet(believed) /\ Cardinality(believed) <= MaxProfiles
  /\ \A b \in believed : b.nth < Cardinality(believed)
  /\ \A b, c \in believed : b.nth = c.nth \/ b.id = c.id => b = c
  /\ \A s \in Slots : s < Cardinality(believed) => \E b \in believed : b.nth = s
  /\ \A s \in Slots : profile_list[s].in_use <=> s < Cardinality(believed)
  /\ \A b \in believed : /\ profile_list[b.nth].id = b.id /\ profile_list[b.nth].req_method = b.method

\* A slot in use has its timer, and one system timer.
TimedWhenUsed == \A s \in Slots : /\ pt_timer[s].in_use <=> profile_list[s].in_use
                                  /\ running[s] = IF profile_list[s].in_use THEN 1 ELSE 0

TracedIds == {b.id : b \in {c \in believed : c.method = "5tuple"}}

\* What the client waits for is what it may ask for.
AskedWithCare ==
  /\ client.msg = "get" => MayGet(client.id, client.method, client.periodic)
  /\ client.msg = "cancel" => MayCancel(client.id, client.kind)

CarefulInv ==
  careful => /\ InOrder /\ TimedWhenUsed /\ AskedWithCare
             /\ Consistent(rules) /\ Traced(rules) = TracedIds

\* The slots the code gives profiles, the entries of the plugin's table and
\* the groups of the switch are as many (sbplugin_common_packet_trace.h:40),
\* and the system can run a timer.
RoomForProfiles == MaxProfiles <= MaxRules /\ MaxProfiles <= MaxGroups /\ MaxTimers >= 1

LEMMA CarefulKeeps ==
  ASSUME PtInv, CarefulInv, UNCHANGED <<careful, believed, rules, pt_timer, running>>,
         \A s \in Slots : /\ profile_list'[s].in_use = profile_list[s].in_use
                          /\ profile_list'[s].id = profile_list[s].id
                          /\ profile_list'[s].req_method = profile_list[s].req_method,
         careful => AskedWithCare'
  PROVE  CarefulInv'
<1> SUFFICES ASSUME careful
             PROVE  /\ InOrder' /\ TimedWhenUsed' /\ AskedWithCare'
                    /\ Consistent(rules)' /\ Traced(rules)' = TracedIds'
  BY DEF CarefulInv
<1>1. InOrder /\ TimedWhenUsed /\ Consistent(rules) /\ Traced(rules) = TracedIds
  BY DEF CarefulInv
<1>2. \A b \in believed : b.nth \in Slots
  BY <1>1, PtNumbers, FS_CardinalityType DEF InOrder, Belief
<1>3. InOrder'
  BY <1>1, <1>2 DEF InOrder
<1>4. TimedWhenUsed'
  BY <1>1 DEF TimedWhenUsed
<1>5. Traced(rules)' = TracedIds'
  BY <1>1 DEF Traced, TracedIds, UsedEntries
<1>6. Consistent(rules)'
  <2>1. \A r : r = rules => Consistent(r)
    BY <1>1
  <2> QED BY <1>1 DEF Consistent, UsedEntries, Copied
<1> QED BY <1>3, <1>4, <1>5, <1>6

LEMMA CarefulAsks ==
  ASSUME PtInv, CarefulInv,
         \/ \E id \in Ids, kind \in Kinds, method \in Methods, periodic \in BOOLEAN : AskGet(id, kind, method, periodic)
         \/ \E id \in Ids, kind \in Kinds : AskCancel(id, kind)
         \/ \E enable \in BOOLEAN : AskFeature(enable)
  PROVE  CarefulInv'
<1>1. ASSUME NEW m, Ask(m), m.msg = "get" => MayGet(m.id, m.method, m.periodic),
             m.msg = "cancel" => MayCancel(m.id, m.kind)
      PROVE  CarefulInv'
  <2>1. UNCHANGED <<careful, believed, rules, pt_timer, running, profile_list>> /\ client' = m
    BY <1>1 DEF Ask
  <2>2. AskedWithCare'
    BY <1>1, <2>1 DEF AskedWithCare, MayGet, MayCancel
  <2> QED BY <2>1, <2>2, CarefulKeeps
<1>2. ASSUME NEW id \in Ids, NEW kind \in Kinds, NEW method \in Methods, NEW periodic \in BOOLEAN,
             AskGet(id, kind, method, periodic)
      PROVE  CarefulInv'
  BY <1>1, <1>2 DEF AskGet
<1>3. ASSUME NEW id \in Ids, NEW kind \in Kinds, AskCancel(id, kind)
      PROVE  CarefulInv'
  BY <1>1, <1>3 DEF AskCancel, Idle
<1>4. ASSUME NEW enable \in BOOLEAN, AskFeature(enable)
      PROVE  CarefulInv'
  BY <1>1, <1>4 DEF AskFeature, Idle
<1> QED BY <1>2, <1>3, <1>4

\* Answers that start and end no profile.
LEMMA CarefulAnswers ==
  ASSUME PtInv, CarefulInv, NEW rv, Answer(rv, believed),
         UNCHANGED <<careful, rules, pt_timer, running, profile_list>>
  PROVE  CarefulInv'
<1>1. believed' = believed /\ client' = Idle
  BY DEF Answer
<1>2. AskedWithCare'
  BY <1>1 DEF AskedWithCare, Idle
<1> QED BY <1>1, <1>2, CarefulKeeps

\* Reports change what slots count, not whose they are.
LEMMA CarefulReports ==
  ASSUME PtInv, CarefulInv, NEW fault, ProfileTick(fault) \/ PacketReceived(fault)
  PROVE  CarefulInv'
<1>1. UNCHANGED <<careful, believed, client, rules, pt_timer, running>>
  BY DEF ProfileTick, PacketReceived, Unanswered
<1>2. AskedWithCare => AskedWithCare'
  BY <1>1 DEF AskedWithCare, MayGet, MayCancel
<1>3. profile_list \in [Slots -> Profile]
  BY DEF PtInv, PtSlots
<1>4. \A s \in Slots : /\ profile_list'[s].in_use = profile_list[s].in_use
                       /\ profile_list'[s].id = profile_list[s].id
                       /\ profile_list'[s].req_method = profile_list[s].req_method
  <2>1. CASE ProfileTick(fault)
    <3>1. profile_list' \in {profile_list, [profile_list EXCEPT ![Head(queue).id].rcvd_pkts = 0]}
      BY <2>1 DEF ProfileTick
    <3> QED BY <1>3, <3>1 DEF Profile
  <2>2. CASE PacketReceived(fault)
    <3> DEFINE s == PacketSlot(Head(queue).id)
               c == IF profile_list[s].in_use /\ profile_list[s].req_method = "5tuple" /\ profile_list[s].rcvd_pkts < PktLimit
                    THEN profile_list[s].rcvd_pkts + 1 ELSE profile_list[s].rcvd_pkts
    <3>1. profile_list' = [profile_list EXCEPT ![s].rcvd_pkts = c]
      BY <1>3, <2>2, PacketSlotIs DEF PacketReceived
    <3> HIDE DEF s, c
    <3> QED BY <1>3, <3>1 DEF Profile
  <2> QED BY <2>1, <2>2
<1> QED BY <1>1, <1>2, <1>4, CarefulKeeps DEF CarefulInv

LEMMA CarefulOnce ==
  ASSUME PtInv, CarefulInv, NEW fault, careful => fault = "none", ProfileGetOnce(fault)
  PROVE  CarefulInv'
<1>1. /\ client.method = "pkt" /\ ~client.periodic /\ rules' = rules
      /\ UNCHANGED <<careful, pt_timer, running, profile_list>>
      /\ Answer(IF fault = "collect" THEN "failure" ELSE "success", believed)
  BY DEF ProfileGetOnce, Collect
<1> QED BY <1>1, CarefulAnswers

\* The ids of the profiles leave room for one more in the plugin's table.
LEMMA RoomInTable ==
  ASSUME RoomForProfiles, InOrder, Consistent(rules), Traced(rules) = TracedIds,
         Cardinality(believed) < MaxProfiles
  PROVE  UsedEntries(rules) # Entries /\ Groups \ {h.group : h \in rules.hw} # {}
<1> DEFINE T == {b.id : b \in believed}
           f == [b \in believed |-> b.id]
<1>1. f \in Surjection(believed, T)
  <2>1. f \in [believed -> T] /\ \A x \in T : \E b \in believed : f[b] = x
    OBVIOUS
  <2> QED BY <2>1 DEF Surjection
<1>2. Traced(rules) \subseteq T
  BY DEF TracedIds
<1> HIDE DEF T, f
<1>3. IsFiniteSet(T) /\ Cardinality(T) <= Cardinality(believed)
  BY <1>1, FS_Surjection DEF InOrder
<1>4. Cardinality(T) \in Nat /\ Cardinality(believed) \in Nat
  BY <1>3, FS_CardinalityType DEF InOrder
<1>5. Cardinality(T) < MaxRules /\ Cardinality(T) < MaxGroups
  BY <1>3, <1>4, PtNumbers, RuleNumbers DEF RoomForProfiles
<1> QED BY <1>2, <1>3, <1>5, RoomForARule

\* A profile that is asked for gets the first free slot, a timer and, if it
\* traces a 5-tuple, a rule, and comes last.
LEMMA CarefulGet ==
  ASSUME PtInv, CarefulInv, RoomForProfiles, NEW same \in BOOLEAN, NEW fault, careful => fault = "none",
         ProfileGetPeriodic(same, fault)
  PROVE  CarefulInv'
<1> SUFFICES ASSUME careful
             PROVE  InOrder' /\ TimedWhenUsed' /\ AskedWithCare' /\ Consistent(rules') /\ Traced(rules') = TracedIds'
  BY DEF CarefulInv, ProfileGetPeriodic, Traced, UsedEntries, Consistent, Copied
<1> DEFINE n == Cardinality(believed)
           p == [in_use |-> TRUE, id |-> client.id, type |-> client.kind, req_method |-> client.method, rcvd_pkts |-> 0]
           b0 == [id |-> client.id, kind |-> client.kind, method |-> client.method, nth |-> n]
<1>1. InOrder /\ TimedWhenUsed /\ Consistent(rules) /\ Traced(rules) = TracedIds /\ AskedWithCare /\ fault = "none"
  BY DEF CarefulInv
<1>2. client.msg = "get" /\ client.periodic /\ client.id \in Ids /\ client.kind \in Kinds /\ client.method \in Methods
  BY DEF ProfileGetPeriodic, PtInv, PtClient
<1>3. (\A b \in believed : b.id # client.id) /\ n < MaxProfiles
  BY <1>1, <1>2 DEF AskedWithCare, MayGet
<1>4. n \in Nat /\ n \in Slots /\ IsFiniteSet(believed) /\ believed \in SUBSET Belief
  BY <1>1, <1>3, PtNumbers, FS_CardinalityType DEF InOrder
<1> HIDE DEF n
<1>5. FindIndex(client.id) = n
  <2>1. ~profile_list[n].in_use
    BY <1>1, <1>4 DEF InOrder, n
  <2>2. FindIndex(client.id) \in Slots /\ FindIndex(client.id) <= n
    BY <1>4, <2>1, FindIndexIs
  <2>3. ~profile_list[FindIndex(client.id)].in_use \/ profile_list[FindIndex(client.id)].id = client.id
    BY <2>2, FindIndexIs
  <2>4. ASSUME FindIndex(client.id) < n PROVE FALSE
    <3>1. PICK b \in believed : b.nth = FindIndex(client.id)
      BY <1>1, <2>2, <2>4 DEF InOrder, n
    <3>2. profile_list[FindIndex(client.id)].in_use /\ profile_list[FindIndex(client.id)].id = b.id
      BY <1>1, <2>2, <2>4, <3>1 DEF InOrder, n
    <3> QED BY <1>3, <2>3, <3>2
  <2> QED BY <1>4, <2>2, <2>4, PtNumbers
<1>6. /\ profile_list' = [profile_list EXCEPT ![n] = p]
      /\ TimerAdd(n, client.kind, client.method, same, fault) /\ Collect(client, fault)
  BY <1>5 DEF ProfileGetPeriodic, FillSlot
<1> DEFINE created == ProfileCreate(rules, client.id, "none")
<1>7. client.method = "5tuple" => created.rv = "success" /\ Consistent(created.rules)
                                  /\ Traced(created.rules) = Traced(rules) \cup {client.id}
  <2>1. client.id \notin Traced(rules)
    BY <1>1, <1>3 DEF TracedIds
  <2>2. UsedEntries(rules) # Entries /\ Groups \ {h.group : h \in rules.hw} # {}
    BY <1>1, <1>3, RoomInTable DEF n
  <2> QED BY <1>1, <1>2, <2>1, <2>2, ProfileCreateConsistent
<1> HIDE DEF created
<1>8. /\ believed' = believed \cup {b0} /\ client' = Idle
      /\ rules' = IF client.method = "5tuple" THEN created.rules ELSE rules
  <2>1. CASE client.method = "5tuple"
    BY <1>1, <1>6, <1>7, <2>1 DEF Collect, Answer, created, n
  <2>2. CASE client.method # "5tuple"
    BY <1>1, <1>2, <1>6, <2>2 DEF Collect, Answer, n
  <2> QED BY <2>1, <2>2
<1>9. AskedWithCare'
  BY <1>8 DEF AskedWithCare, Idle
<1>10. b0 \in Belief /\ b0 \notin believed
  BY <1>2, <1>3, <1>4 DEF Belief
<1>11. b0.nth = n /\ b0.id = client.id /\ b0.method = client.method
  OBVIOUS
<1>12. p.in_use /\ p.id = client.id /\ p.req_method = client.method
  OBVIOUS
<1> HIDE DEF b0, p
<1>13. IsFiniteSet(believed') /\ Cardinality(believed') = n + 1
  BY <1>4, <1>8, <1>10, FS_AddElement DEF n
<1>14. /\ profile_list'[n] = p /\ \A s \in Slots : s # n => profile_list'[s] = profile_list[s]
  <2>1. profile_list \in [Slots -> Profile]
    BY DEF PtInv, PtSlots
  <2> QED BY <1>4, <1>6, <2>1
<1>15. InOrder'
  <2>1. believed' \in SUBSET Belief /\ n + 1 <= MaxProfiles
    BY <1>3, <1>4, <1>8, <1>10, PtNumbers
  <2>2. \A b \in believed : b.nth < n /\ b.nth \in Slots
    BY <1>1, <1>3, <1>4, PtNumbers DEF InOrder, Belief, n
  <2>3. \A b \in believed' : b.nth < n + 1
    BY <1>4, <1>8, <1>11, <2>2, PtNumbers
  <2>4. \A b, c \in believed' : b.nth = c.nth \/ b.id = c.id => b = c
    BY <1>1, <1>3, <1>4, <1>8, <1>11, <2>2, PtNumbers DEF InOrder
  <2>5. \A s \in Slots : s < n + 1 => s < n \/ s = n
    BY <1>4, PtNumbers
  <2>6. \A s \in Slots : s < n + 1 => \E b \in believed' : b.nth = s
    BY <1>1, <1>8, <1>11, <2>5 DEF InOrder, n
  <2>7. \A s \in Slots : profile_list'[s].in_use <=> s < n + 1
    <3> SUFFICES ASSUME NEW s \in Slots PROVE profile_list'[s].in_use <=> s < n + 1
      OBVIOUS
    <3>1. CASE s = n
      BY <1>4, <1>12, <1>14, <3>1, PtNumbers
    <3>2. CASE s # n
      <4>1. profile_list[s].in_use <=> s < n
        BY <1>1 DEF InOrder, n
      <4>2. s < n <=> s < n + 1
        BY <1>4, <3>2, PtNumbers
      <4> QED BY <1>14, <3>2, <4>1, <4>2
    <3> QED BY <3>1, <3>2
  <2>8. \A b \in believed' : profile_list'[b.nth].id = b.id /\ profile_list'[b.nth].req_method = b.method
    <3> SUFFICES ASSUME NEW b \in believed'
                 PROVE  profile_list'[b.nth].id = b.id /\ profile_list'[b.nth].req_method = b.method
      OBVIOUS
    <3>1. CASE b = b0
      BY <1>11, <1>12, <1>14, <3>1
    <3>2. CASE b \in believed
      <4>1. b.nth # n /\ b.nth \in Slots
        BY <1>4, <2>2, <3>2
      <4> QED BY <1>1, <1>14, <3>2, <4>1 DEF InOrder
    <3> QED BY <1>8, <3>1, <3>2
  <2> QED BY <1>13, <2>1, <2>3, <2>4, <2>6, <2>7, <2>8 DEF InOrder
<1>16. TimedWhenUsed'
  <2>1. running[n] = 0 /\ ~pt_timer[n].in_use
    BY <1>1, <1>4 DEF TimedWhenUsed, InOrder, n
  <2>2. PtSlots
    BY DEF PtInv
  <2>3. PICK k \in 0..MaxTimers, timer \in PtTimer :
           /\ running' = [running EXCEPT ![n] = k] /\ pt_timer' = [pt_timer EXCEPT ![n] = timer]
           /\ ~pt_timer[n].in_use /\ running[n] < MaxTimers /\ fault # "timer" => k = running[n] + 1 /\ timer.in_use
    BY <1>2, <1>4, <1>6, <2>2, TimerAddFacts
  <2>4. k = 1 /\ timer.in_use
    BY <1>1, <2>1, <2>3, PtNumbers DEF RoomForProfiles
  <2>5. /\ running'[n] = 1 /\ pt_timer'[n].in_use
        /\ \A s \in Slots : s # n => running'[s] = running[s] /\ pt_timer'[s] = pt_timer[s]
    BY <1>4, <2>2, <2>3, <2>4 DEF PtSlots
  <2> QED BY <1>1, <1>12, <1>14, <2>5 DEF TimedWhenUsed
<1>17. TracedIds' = IF client.method = "5tuple" THEN TracedIds \cup {client.id} ELSE TracedIds
  BY <1>8, <1>11 DEF TracedIds
<1>18. Consistent(rules') /\ Traced(rules') = TracedIds'
  <2>1. CASE client.method = "5tuple"
    BY <1>1, <1>7, <1>8, <1>17, <2>1
  <2>2. CASE client.method # "5tuple"
    BY <1>1, <1>8, <1>17, <2>2
  <2> QED BY <2>1, <2>2
<1> QED BY <1>9, <1>15, <1>16, <1>18

\* What a careful client cancels is the profile in the last slot in use, and
\* its slot, its timer and its rule go.
LEMMA CarefulCancel ==
  ASSUME PtInv, CarefulInv, NEW fault, careful => fault = "none", ProfileCancel(fault)
  PROVE  CarefulInv'
<1> SUFFICES ASSUME careful
             PROVE  InOrder' /\ TimedWhenUsed' /\ AskedWithCare' /\ Consistent(rules') /\ Traced(rules') = TracedIds'
  BY DEF CarefulInv, ProfileCancel, Traced, UsedEntries, Consistent, Copied
<1> DEFINE n == Cardinality(believed)
           s == n - 1
<1>1. InOrder /\ TimedWhenUsed /\ Consistent(rules) /\ Traced(rules) = TracedIds /\ AskedWithCare /\ fault = "none"
  BY DEF CarefulInv
<1>2. PICK b \in believed : b.id = client.id /\ b.kind = client.kind /\ \A c \in believed : c.nth <= b.nth
  BY <1>1 DEF AskedWithCare, MayCancel, ProfileCancel
<1>3. n \in Nat /\ n <= MaxProfiles /\ IsFiniteSet(believed) /\ believed \in SUBSET Belief
  BY <1>1, FS_CardinalityType DEF InOrder
<1>4. b.nth \in Nat /\ b.nth < n /\ b.id \in Ids
  BY <1>1, <1>3 DEF InOrder, Belief
<1>5. s \in Nat /\ s \in Slots /\ s < n
  BY <1>3, <1>4, PtNumbers
<1> HIDE DEF n
<1>6. b.nth = s
  <2>1. PICK c \in believed : c.nth = s
    BY <1>1, <1>5 DEF InOrder, n
  <2>2. s <= b.nth
    BY <1>2, <2>1
  <2> QED BY <1>3, <1>4, <2>2
<1>7. s < n /\ \A t \in Slots : t < n /\ t # s <=> t < s
  BY <1>3, <1>5, PtNumbers
<1> HIDE DEF s
<1>8. profile_list[s].in_use /\ profile_list[s].id = client.id /\ profile_list[s].req_method = b.method
  BY <1>1, <1>2, <1>5, <1>6 DEF InOrder, n
<1>9. CancelSlot(client.id) = s
  <2>1. FindIndex(client.id) \in Slots /\ FindIndex(client.id) <= s
    BY <1>5, <1>8, FindIndexIs
  <2>2. ~profile_list[FindIndex(client.id)].in_use \/ profile_list[FindIndex(client.id)].id = client.id
    BY <2>1, FindIndexIs
  <2>3. ASSUME FindIndex(client.id) < s PROVE FALSE
    <3>1. FindIndex(client.id) < n
      BY <1>7, <2>1, <2>3
    <3>2. PICK c \in believed : c.nth = FindIndex(client.id)
      BY <1>1, <2>1, <3>1 DEF InOrder, n
    <3>3. profile_list[FindIndex(client.id)].in_use /\ profile_list[FindIndex(client.id)].id = c.id
      BY <1>1, <2>1, <3>1, <3>2 DEF InOrder, n
    <3>4. c = b
      BY <1>1, <1>2, <2>2, <3>3 DEF InOrder
    <3> QED BY <1>5, <1>6, <2>3, <3>2, <3>4
  <2>4. FindIndex(client.id) = s
    BY <1>5, <2>1, <2>3, PtNumbers
  <2> QED BY <2>1, <2>4, PtNumbers DEF CancelSlot, PacketSlot
<1> DEFINE deleted == ProfileDelete(rules, client.id, "none")
<1>10. /\ TimerDelete(s) /\ profile_list' = [profile_list EXCEPT ![s] = FreeSlot]
       /\ rules' = IF b.method = "5tuple" THEN deleted.rules ELSE rules
       /\ Answer(IF b.method = "5tuple" THEN deleted.rv ELSE "success", {c \in believed : c.id # client.id})
  BY <1>1, <1>8, <1>9 DEF ProfileCancel
<1>11. b.method = "5tuple" => deleted.rv = "success" /\ Consistent(deleted.rules)
                              /\ Traced(deleted.rules) = Traced(rules) \ {client.id}
  <2>1. b.method = "5tuple" => client.id \in Traced(rules)
    BY <1>1, <1>2 DEF TracedIds
  <2> QED BY <1>1, <2>1, ProfileDeleteConsistent
<1> HIDE DEF deleted
<1>12. believed' = believed \ {b} /\ client' = Idle
  <2>1. {c \in believed : c.id # client.id} = believed \ {b}
    BY <1>1, <1>2 DEF InOrder
  <2> QED BY <1>10, <1>11, <2>1 DEF Answer
<1>13. IsFiniteSet(believed') /\ Cardinality(believed') = s
  BY <1>3, <1>12, FS_RemoveElement DEF n, s
<1>14. ~profile_list'[s].in_use /\ \A t \in Slots : t # s => profile_list'[t] = profile_list[t]
  <2>1. profile_list \in [Slots -> Profile]
    BY DEF PtInv, PtSlots
  <2> QED BY <1>5, <1>10, <2>1 DEF FreeSlot
<1>15. InOrder'
  <2>1. believed' \in SUBSET Belief /\ s <= MaxProfiles
    BY <1>3, <1>5, <1>7, <1>12, PtNumbers
  <2>2. \A c \in believed' : c.nth < s /\ c.nth \in Slots
    <3> SUFFICES ASSUME NEW c \in believed' PROVE c.nth < s /\ c.nth \in Slots
      OBVIOUS
    <3>1. c \in believed /\ c.nth # s /\ c.nth <= s /\ c.nth \in Nat
      BY <1>1, <1>2, <1>3, <1>6, <1>12 DEF InOrder, Belief
    <3> QED BY <1>5, <3>1, PtNumbers
  <2>3. \A c, d \in believed' : c.nth = d.nth \/ c.id = d.id => c = d
    BY <1>1, <1>12 DEF InOrder
  <2>4. \A t \in Slots : t < s => \E c \in believed' : c.nth = t
    BY <1>1, <1>6, <1>7, <1>12 DEF InOrder, n
  <2>5. \A t \in Slots : profile_list'[t].in_use <=> t < s
    BY <1>1, <1>5, <1>7, <1>14, PtNumbers DEF InOrder, n
  <2>6. \A c \in believed' : profile_list'[c.nth].id = c.id /\ profile_list'[c.nth].req_method = c.method
    <3> SUFFICES ASSUME NEW c \in believed'
                 PROVE  profile_list'[c.nth].id = c.id /\ profile_list'[c.nth].req_method = c.method
      OBVIOUS
    <3>1. c \in believed /\ c.nth # s /\ c.nth \in Slots
      BY <1>5, <1>12, <2>2, PtNumbers
    <3> QED BY <1>1, <1>14, <3>1 DEF InOrder
  <2> QED BY <1>13, <2>1, <2>2, <2>3, <2>4, <2>5, <2>6 DEF InOrder
<1>16. TimedWhenUsed'
  <2>1. running[s] = 1 /\ pt_timer[s].in_use
    BY <1>1, <1>5, <1>8 DEF TimedWhenUsed
  <2>2. PtSlots
    BY DEF PtInv
  <2>3. /\ running'[s] = 0 /\ ~pt_timer'[s].in_use
        /\ \A t \in Slots : t # s => running'[t] = running[t] /\ pt_timer'[t] = pt_timer[t]
    BY <1>5, <1>10, <2>1, <2>2 DEF TimerDelete, NoTimer, PtSlots
  <2> QED BY <1>1, <1>14, <2>3 DEF TimedWhenUsed
<1>17. TracedIds' = IF b.method = "5tuple" THEN TracedIds \ {client.id} ELSE TracedIds
  <2>1. \A c \in believed : c.id = client.id <=> c = b
    BY <1>1, <1>2 DEF InOrder
  <2> QED BY <1>2, <1>12, <2>1 DEF TracedIds
<1>18. Consistent(rules') /\ Traced(rules') = TracedIds'
  <2>1. CASE b.method = "5tuple"
    BY <1>1, <1>10, <1>11, <1>17, <2>1
  <2>2. CASE b.method # "5tuple"
    BY <1>1, <1>10, <1>17, <2>2
  <2> QED BY <2>1, <2>2
<1>19. AskedWithCare'
  BY <1>12 DEF AskedWithCare, Idle
<1> QED BY <1>15, <1>16, <1>18, <1>19

LEMMA CarefulStep == PtInv /\ CarefulInv /\ RoomForProfiles /\ [PtNext]_ptVars => CarefulInv'
<1> SUFFICES ASSUME PtInv, CarefulInv, RoomForProfiles, [PtNext]_ptVars PROVE CarefulInv'
  OBVIOUS
<1>1. CASE UNCHANGED ptVars
  <2>1. AskedWithCare => AskedWithCare'
    BY <1>1 DEF ptVars, AskedWithCare, MayGet, MayCancel
  <2> QED BY <1>1, <2>1, CarefulKeeps DEF ptVars, CarefulInv
<1>2. ASSUME (\E s \in Slots : PeriodicCollectionCb(s)) \/ (\E h \in rules.hw : PtPktMuxCb(h))
      PROVE  CarefulInv'
  <2>1. UNCHANGED <<careful, believed, client, rules, pt_timer, running, profile_list>>
    BY <1>2 DEF PeriodicCollectionCb, PtPktMuxCb
  <2>2. AskedWithCare => AskedWithCare'
    BY <2>1 DEF AskedWithCare, MayGet, MayCancel
  <2> QED BY <2>1, <2>2, CarefulKeeps DEF CarefulInv
<1>3. ASSUME NEW fault \in Inputs, PtAppMain(fault)
      PROVE  CarefulInv'
  <2>1. careful => fault = "none"
    BY <1>3 DEF Inputs
  <2>2. CASE SetFeature
    BY <2>2, CarefulAnswers DEF SetFeature
  <2>3. CASE ProfileGetRefused(fault)
    BY <2>3, CarefulAnswers DEF ProfileGetRefused
  <2> QED BY <1>3, <2>1, <2>2, <2>3, CarefulGet, CarefulOnce, CarefulReports, CarefulCancel DEF PtAppMain
<1> QED BY <1>1, <1>2, <1>3, CarefulAsks DEF PtNext

LEMMA CarefulInit == PtInit => CarefulInv
<1> SUFFICES ASSUME PtInit PROVE CarefulInv
  OBVIOUS
<1>1. believed = {} /\ rules = EmptyRules /\ client = Idle
      /\ \A s \in Slots : ~profile_list[s].in_use /\ running[s] = 0 /\ ~pt_timer[s].in_use
  BY DEF PtInit, FreeSlot, NoTimer
<1>2. IsFiniteSet(believed) /\ Cardinality(believed) = 0
  BY <1>1, FS_EmptySet
<1>3. InOrder
  BY <1>1, <1>2, PtNumbers DEF InOrder
<1>4. TimedWhenUsed /\ AskedWithCare
  BY <1>1 DEF TimedWhenUsed, AskedWithCare, Idle
<1>5. Consistent(rules) /\ Traced(rules) = TracedIds
  BY <1>1, EmptyIsConsistent DEF TracedIds
<1> QED BY <1>3, <1>4, <1>5 DEF CarefulInv

LEMMA PromisedGivesTable ==
  ASSUME Promised(rules)
  PROVE  TablePromisesRules
<1>1. UsedEntries(rules) = Entries \ EntriesOf(rules, NoRequest)
  BY DEF UsedEntries, EntriesOf
<1>2. \A e \in UsedEntries(rules) : /\ Copied(rules, e) \in rules.hw
                                    /\ RuleToReq(rules, rules.reqToRuleMap[e].ruleMatchId) = rules.reqToRuleMap[e].requestId
  BY PromisedReaches DEF Promised
<1>3. rules.cpuPolicy => TotalRules(rules) > 0
  BY TotalRulesIs DEF Promised
<1> QED BY <1>1, <1>2, <1>3 DEF TablePromisesRules, Copied

LEMMA PromisedStep ==
  ASSUME PtInv, Promised(rules), [PtNext]_ptVars
  PROVE  Promised(rules')
<1>1. ASSUME NEW fault, ProfileCancel(fault)
      PROVE  Promised(rules')
  <2>1. client.id \in Ids \cup {0}
    BY DEF PtInv, PtClient
  <2>2. rules' \in {ProfileDelete(rules, client.id, fault).rules, rules}
    BY <1>1 DEF ProfileCancel
  <2> QED BY <2>1, <2>2, ProfileDeletePromised
<1>2. ASSUME NEW fault, client.msg = "get", Collect(client, fault)
      PROVE  Promised(rules')
  <2>1. client.id \in Ids
    BY <1>2 DEF PtInv, PtClient
  <2>2. rules' \in {ProfileCreate(rules, client.id, fault).rules, rules}
    BY <1>2 DEF Collect
  <2> QED BY <2>1, <2>2, ProfileCreatePromised
<1>3. ASSUME NEW fault, PtAppMain(fault)
      PROVE  Promised(rules')
  <2>1. CASE SetFeature \/ ProfileGetRefused(fault) \/ ProfileTick(fault) \/ PacketReceived(fault)
    BY <2>1 DEF SetFeature, ProfileGetRefused, ProfileTick, PacketReceived
  <2>2. CASE (\E same \in BOOLEAN : ProfileGetPeriodic(same, fault)) \/ ProfileGetOnce(fault)
    BY <1>2, <2>2 DEF ProfileGetPeriodic, ProfileGetOnce
  <2> QED BY <1>1, <1>3, <2>1, <2>2 DEF PtAppMain
<1>4. CASE UNCHANGED rules
  BY <1>4
<1> QED BY <1>3, <1>4 DEF PtNext, ptVars, AskGet, AskCancel, AskFeature, Ask, PeriodicCollectionCb, PtPktMuxCb

LEMMA PromisedInit == PtInit => Promised(rules)
<1>1. Consistent(EmptyRules)
  BY EmptyIsConsistent
<1>2. Promised(EmptyRules)
  BY <1>1 DEF Consistent, Promised
<1> QED BY <1>2 DEF PtInit

LEMMA CarefulGivesBoth ==
  ASSUME PtInv, Promised(rules), CarefulInv
  PROVE  CollectsWhatWasAsked /\ RulesReachRequests
<1>1. careful => InOrder /\ TimedWhenUsed /\ Consistent(rules) /\ Traced(rules) = TracedIds
  BY DEF CarefulInv
<1>2. RulesReachRequests
  BY <1>1, ConsistentReaches, PromisedGivesTable DEF RulesReachRequests
<1>3. ASSUME careful
      PROVE  {profile_list[s].id : s \in {t \in Slots : profile_list[t].in_use}} = {b.id : b \in believed}
  <2>1. \A b \in believed : b.nth \in Slots /\ profile_list[b.nth].in_use /\ profile_list[b.nth].id = b.id
    BY <1>1, <1>3, PtNumbers, FS_CardinalityType DEF InOrder, Belief
  <2>2. \A s \in Slots : profile_list[s].in_use => \E b \in believed : profile_list[s].id = b.id
    BY <1>1, <1>3 DEF InOrder
  <2> QED BY <2>1, <2>2
<1>4. careful => {h.requestId : h \in rules.hw} = TracedIds
  BY <1>1, ConsistentReaches
<1> QED BY <1>1, <1>2, <1>3, <1>4 DEF CollectsWhatWasAsked, TimedWhenUsed, TracedIds

-----------------------------------------------------------------------------
(* Packet trace, for any behaviour of its specification.                    *)

LEMMA PtInvHolds == PtSpec => []PtInv
<1>1. PtInv /\ [PtNext]_ptVars => PtInv'
  BY PtInvStep DEF PtStep
<1> QED BY <1>1, PtInvInit, PTL DEF PtSpec

\* Types: the profiles, timers and rules of packet trace are what the code's
\* tables can hold, and its queue is never over its size (BVIEW_PT_CONFIG_t
\* and the plugin's request-to-rule map).
THEOREM PtTypeCorrect == PtSpec => []PtTypeOK
<1>1. PtInv => PtTypeOK
  BY DEF PtInv, PtSlots, PtTypeOK, Profile, PtTimer, KindsOrNone, MethodsOrNone, Rules, RuleEntry
<1> QED BY <1>1, PtInvHolds, PTL

\* The timer that the application knows of serves the profile in its slot,
\* whatever fails and whatever clients ask (pt_periodic_collection_timer_add
\* and pt_periodic_collection_timer_delete).
THEOREM TimersServeTheirProfiles == PtSpec => []TimersServeProfiles
<1>1. PtInv => TimersServeProfiles
  BY DEF PtInv, PtSlots, GoodSlot, TimersServeProfiles
<1> QED BY <1>1, PtInvHolds, PTL

\* Packets never occupy more than half the queue and one place: requests of
\* clients find room however fast packets are copied (packet_trace_main.c:877).
THEOREM PacketsLeaveRoom == PtSpec => []RoomForRequests
<1>1. PtInit => RoomForRequests
  <2>1. PtInit => {n \in DOMAIN queue : queue[n].msg = "packet"} = {}
    BY DEF PtInit
  <2> QED BY <2>1, FS_EmptySet, PtNumbers DEF RoomForRequests
<1>2. PtInv /\ PtInv' /\ RoomForRequests /\ [PtNext]_ptVars => RoomForRequests'
  BY RoomStep
<1> QED BY <1>1, <1>2, PtInvHolds, PTL DEF PtSpec

\* Packet trace implements SampledReports: a slot's packets are reported only
\* while it holds a 5-tuple profile, and PktLimit of them per interval at most.
THEOREM PacketTraceLimited == PtSpec => PacketsLimited
<1>1. PtInv /\ [PtNext]_ptVars => [PtLimits!Next]_PtLimits!sampledVars
  BY PtInvStep DEF PtStep
<1> QED BY <1>1, PtInvInit, PtInvHolds, PTL DEF PtSpec, PacketsLimited, PtLimits!Spec

LEMMA PromisedHolds == PtSpec => []Promised(rules)
<1>1. PtInv /\ Promised(rules) /\ [PtNext]_ptVars => Promised(rules)'
  <2>1. PtInv /\ Promised(rules) /\ [PtNext]_ptVars => Promised(rules')
    BY PromisedStep
  <2> QED BY <2>1 DEF Promised, Rules, UsedEntries, Copied
<1> QED BY <1>1, PromisedInit, PtInvHolds, PTL DEF PtSpec

LEMMA CarefulInvHolds ==
  ASSUME RoomForProfiles
  PROVE  PtSpec => []CarefulInv
<1>1. PtInv /\ CarefulInv /\ [PtNext]_ptVars => CarefulInv'
  BY CarefulStep
<1> QED BY <1>1, CarefulInit, PtInvHolds, PTL DEF PtSpec

\* When careful clients wait for nothing, the slots in use, the running timers
\* and the switch's rules are those of the profiles they were told of
\* (pt_trace_profile_get and _cancel), with as many table entries and groups
\* as slots.
THEOREM CollectsForItsClients ==
  ASSUME RoomForProfiles
  PROVE  PtSpec => []CollectsWhatWasAsked
<1>1. PtInv /\ Promised(rules) /\ CarefulInv => CollectsWhatWasAsked
  BY CarefulGivesBoth
<1> QED BY <1>1, CarefulInvHolds, PromisedHolds, PtInvHolds, PTL

\* Whatever fails and whatever clients ask, each request in the plugin's table
\* has its rule in the switch, under a match id that leads to it and to no
\* other, and the policy of the copies goes with the last of them
\* (sbplugin_common_pt_5_tuple_profile_create and _delete).
THEOREM TablePromisesKept == PtSpec => []TablePromisesRules
<1>1. Promised(rules) => TablePromisesRules
  BY PromisedGivesTable
<1> QED BY <1>1, PromisedHolds, PTL

\* The same and, with careful clients and without failures, with as many table
\* entries and groups as slots: a packet that any rule copied is reported for
\* the request that the rule was made for, and copies are policed while there
\* are rules (sbplugin_common_packet_trace.c).
THEOREM RulesReachTheirRequests ==
  ASSUME RoomForProfiles
  PROVE  PtSpec => []RulesReachRequests
<1>1. PtInv /\ Promised(rules) /\ CarefulInv => RulesReachRequests
  BY CarefulGivesBoth
<1> QED BY <1>1, CarefulInvHolds, PromisedHolds, PtInvHolds, PTL

-----------------------------------------------------------------------------
(* Black hole detection: the units, each with its configuration, sampling   *)
(* period, timer and reports.                                               *)

BhdConfig == [enable : BOOLEAN, configured : BOOLEAN, method : SamplingMethods \cup {"none"}]
BhdOper == [start_sampling : BOOLEAN, current_sample_count : 0..SampleCount]

Samples(c) == c.enable /\ c.configured /\ c.method = "agent"

GoodUnit(c, o, timer, n, r) ==
  /\ c.configured => c.enable
  /\ r <= o.current_sample_count
  /\ n = IF timer THEN 1 ELSE 0
  /\ timer <=> Samples(c)

BhdUnits ==
  /\ bhd_config \in [Units -> BhdConfig] /\ bhd_oper \in [Units -> BhdOper]
  /\ bhd_timer \in [Units -> BOOLEAN] /\ bhd_running \in [Units -> 0..1] /\ reports \in [Units -> Nat]
  /\ \A u \in Units : GoodUnit(bhd_config[u], bhd_oper[u], bhd_timer[u], bhd_running[u], reports[u])

LEMMA BhdNumbers ==
  /\ SampleCount \in Nat /\ BhdQueue \in Nat /\ BhdQueue >= 1 /\ BhdHalfQueue \in Nat /\ Unit1 \in Units
  /\ BhdGroups \subseteq Nat /\ Invalid \notin BhdGroups /\ IsFiniteSet(BhdGroups)
  BY BlackHoleAssumption, BhdPolicyAssumption DEF Invalid

\* What the abstract specification sees of a unit: a start, a stop, a new
\* interval, nothing, or a report.
Reported(c, r) == IF Samples(c) THEN r ELSE 0
UnitLimitsStep(c, r, c1, r1) ==
  \/ Reported(c1, r1) = 0
  \/ (Samples(c1) <=> Samples(c)) /\ Reported(c1, r1) = Reported(c, r)
  \/ Samples(c1) /\ Samples(c) /\ r < SampleCount /\ r1 = r + 1

LEMMA UnitStep ==
  ASSUME BhdUnits, NEW u \in Units,
         NEW c \in BhdConfig, NEW o \in BhdOper, NEW timer \in BOOLEAN, NEW n \in 0..1, NEW r \in Nat,
         bhd_config' = [bhd_config EXCEPT ![u] = c],
         bhd_oper' = [bhd_oper EXCEPT ![u] = o],
         bhd_timer' = [bhd_timer EXCEPT ![u] = timer],
         bhd_running' = [bhd_running EXCEPT ![u] = n],
         reports' = [reports EXCEPT ![u] = r],
         GoodUnit(c, o, timer, n, r),
         UnitLimitsStep(bhd_config[u], reports[u], c, r)
  PROVE  BhdUnits' /\ [Limits!Next]_Limits!sampledVars
<1>1. /\ bhd_config' \in [Units -> BhdConfig] /\ bhd_oper' \in [Units -> BhdOper]
      /\ bhd_timer' \in [Units -> BOOLEAN] /\ bhd_running' \in [Units -> 0..1] /\ reports' \in [Units -> Nat]
      /\ bhd_config'[u] = c /\ bhd_oper'[u] = o /\ bhd_timer'[u] = timer /\ bhd_running'[u] = n /\ reports'[u] = r
      /\ \A v \in Units : v # u => /\ bhd_config'[v] = bhd_config[v] /\ bhd_oper'[v] = bhd_oper[v]
                                 /\ bhd_timer'[v] = bhd_timer[v] /\ bhd_running'[v] = bhd_running[v]
                                 /\ reports'[v] = reports[v]
  BY Updated DEF BhdUnits
<1>2. BhdUnits'
  <2>1. \A v \in Units : GoodUnit(bhd_config'[v], bhd_oper'[v], bhd_timer'[v], bhd_running'[v], reports'[v])
    BY <1>1 DEF BhdUnits
  <2> QED BY <1>1, <2>1 DEF BhdUnits
<1> DEFINE before == [v \in Units |-> Sampling(v)]
           after == [v \in Units |-> Sampling(v)']
           counts == [v \in Units |-> IF Sampling(v) THEN reports[v] ELSE 0]
           counts1 == [v \in Units |-> IF Sampling(v)' THEN reports'[v] ELSE 0]
<1>3. \A v \in Units : /\ Sampling(v) <=> Samples(bhd_config[v])
                       /\ Sampling(v)' <=> Samples(bhd_config'[v])
                       /\ Sampling(v) \in BOOLEAN /\ Sampling(v)' \in BOOLEAN
  BY DEF Sampling, Samples, Enabled, Configured
<1>4. \A v \in Units : v # u => Sampling(v)' = Sampling(v) /\ reports'[v] = reports[v]
  BY <1>1, <1>3
<1>5. /\ before \in [Units -> BOOLEAN] /\ counts \in [Units -> Nat]
      /\ before[u] <=> Samples(bhd_config[u])
      /\ counts[u] = Reported(bhd_config[u], reports[u])
      /\ after[u] \in BOOLEAN /\ (after[u] <=> Samples(c))
      /\ counts1[u] = Reported(c, r)
  BY <1>1, <1>3 DEF BhdUnits, Reported
<1>6. after = [before EXCEPT ![u] = after[u]] /\ counts1 = [counts EXCEPT ![u] = counts1[u]]
  <2>1. after = [before EXCEPT ![u] = after[u]]
    BY <1>3, <1>4
  <2>2. \A v \in Units : v # u => (IF Sampling(v)' THEN reports'[v] ELSE 0) = (IF Sampling(v) THEN reports[v] ELSE 0)
    BY <1>4
  <2>3. counts1 \in [Units -> {counts1[v] : v \in Units}] /\ counts \in [Units -> {counts[v] : v \in Units}]
    OBVIOUS
  <2>4. \A v \in Units : v # u => counts1[v] = counts[v]
    BY <2>2
  <2> HIDE DEF counts, counts1
  <2>5. counts1 = [counts EXCEPT ![u] = counts1[u]]
    BY <2>3, <2>4
  <2> QED BY <2>1, <2>5
<1>7. /\ \/ after = [before EXCEPT ![u] = TRUE] /\ counts1 = [counts EXCEPT ![u] = 0]
         \/ after = [before EXCEPT ![u] = FALSE] /\ counts1 = [counts EXCEPT ![u] = 0]
         \/ counts1 = [counts EXCEPT ![u] = 0] /\ after = before
         \/ before[u] /\ counts[u] < SampleCount /\ counts1 = [counts EXCEPT ![u] = @ + 1] /\ after = before
         \/ after = before /\ counts1 = counts
      => [Limits!Next]_Limits!sampledVars
  BY DEF Limits!Next, Limits!Start, Limits!Stop, Limits!NewInterval, Limits!Report, Limits!sampledVars
<1> HIDE DEF before, after, counts, counts1
<1>8. [before EXCEPT ![u] = before[u]] = before /\ [counts EXCEPT ![u] = counts[u]] = counts
  <2>1. before \in [Units -> BOOLEAN] /\ counts \in [Units -> Nat]
    BY <1>5
  <2>2. [before EXCEPT ![u] = before[u]] = before
    BY <2>1
  <2>3. [counts EXCEPT ![u] = counts[u]] = counts
    BY <2>1
  <2> QED BY <2>2, <2>3
<1>9. CASE Reported(c, r) = 0
  <2>1. CASE after[u] = TRUE
    BY <1>2, <1>5, <1>6, <1>7, <1>9, <2>1
  <2>2. CASE after[u] = FALSE
    BY <1>2, <1>5, <1>6, <1>7, <1>9, <2>2
  <2> QED BY <1>5, <2>1, <2>2
<1>10. CASE (Samples(c) <=> Samples(bhd_config[u])) /\ Reported(c, r) = Reported(bhd_config[u], reports[u])
  <2>1. after[u] = before[u] /\ counts1[u] = counts[u]
    BY <1>5, <1>10
  <2>2. after = before
    BY <1>5, <1>6, <2>1, <1>8
  <2>3. counts1 = counts
    BY <1>5, <1>6, <2>1, <1>8
  <2> QED BY <1>2, <1>7, <2>2, <2>3
<1>11. CASE Samples(c) /\ Samples(bhd_config[u]) /\ reports[u] < SampleCount /\ r = reports[u] + 1
  <2>1. after[u] = before[u]
    BY <1>5, <1>11
  <2>2. after = before
    BY <1>5, <1>6, <2>1, <1>8
  <2>3. counts1[u] = counts[u] + 1 /\ counts[u] < SampleCount /\ before[u]
    BY <1>5, <1>11 DEF Reported
  <2> QED BY <1>2, <1>6, <1>7, <2>2, <2>3
<1> QED BY <1>9, <1>10, <1>11 DEF UnitLimitsStep

\* What the plugin remembers, and the groups and mirrors in the switch.
Policies == [ingress : BhdGroups \cup {Invalid}, egress : BhdGroups \cup {Invalid}, ports : BOOLEAN,
             sampling_type : {"none", "agent", "sflow"}]
SwitchGroup == [stage : {"ingress", "egress", "mirror"}, asic : Units, method : SamplingMethods, id : BhdGroups]
InSwitch(hw) == hw \in SUBSET SwitchGroup /\ IsFiniteSet(hw)
IdsIn(hw) == {h.id : h \in hw}
InstalledAs(stage, asic, method, id) == [stage |-> stage, asic |-> asic, method |-> method, id |-> id]

\* While there is room, what is installed gets an id of its own, and that id
\* is the one the plugin remembers.
LEMMA NewGroup ==
  ASSUME NEW hw, InSwitch(hw), NEW n \in Nat, n >= 1, RoomFor(hw, n),
         NEW stage \in {"ingress", "egress", "mirror"}, NEW asic \in Units, NEW method \in SamplingMethods
  PROVE  LET made == InHw(hw, stage, asic, method) IN
         \E g \in BhdGroups :
           /\ g \notin IdsIn(hw) /\ made = hw \cup {InstalledAs(stage, asic, method, g)}
           /\ InSwitch(made) /\ NewIn(hw, made) = g /\ (n = 2 => RoomFor(made, 1))
<1> DEFINE ids == IdsIn(hw)
           g == SomeGroup(hw)
           made == InHw(hw, stage, asic, method)
           new == InstalledAs(stage, asic, method, g)
<1>1. IsFiniteSet(ids)
  <2> DEFINE f == [h \in hw |-> h.id]
  <2>1. f \in [hw -> ids] /\ \A i \in ids : \E h \in hw : f[h] = i
    BY DEF IdsIn
  <2>2. f \in Surjection(hw, ids)
    BY <2>1 DEF Surjection
  <2> HIDE DEF f, ids
  <2> QED BY <2>2, FS_Surjection DEF InSwitch
<1>2. Cardinality(ids) \in Nat /\ Cardinality(BhdGroups) \in Nat /\ Cardinality(ids) + n <= Cardinality(BhdGroups)
  BY <1>1, BhdNumbers, FS_CardinalityType DEF RoomFor, IdsIn
<1>3. BhdGroups \ ids # {}
  <2>1. SUFFICES ASSUME BhdGroups \subseteq ids PROVE FALSE
    OBVIOUS
  <2> HIDE DEF ids
  <2>2. Cardinality(BhdGroups) <= Cardinality(ids)
    BY <1>1, <2>1, FS_Subset
  <2> QED BY <1>2, <2>2
<1>4. g \in BhdGroups /\ g \notin ids
  BY <1>3 DEF SomeGroup, IdsIn
<1> HIDE DEF g
<1>5. new \in SwitchGroup /\ new.id = g
  BY <1>4 DEF InstalledAs, SwitchGroup
<1>6. made = hw \cup {new}
  BY DEF InHw, InstalledAs, g
<1> HIDE DEF new
<1>7. InSwitch(made)
  BY <1>5, <1>6, FS_AddElement DEF InSwitch
<1>8. new \notin hw
  BY <1>4, <1>5 DEF IdsIn
<1>9. NewIn(hw, made) = g
  <2>1. {h.id : h \in made \ hw} = {g}
    BY <1>5, <1>6, <1>8
  <2> QED BY <2>1 DEF NewIn
<1>10. RoomFor(made, 1) \/ n # 2
  <2> HIDE DEF made
  <2>1. {h.id : h \in made} = ids \cup {g}
    BY <1>5, <1>6 DEF IdsIn
  <2> HIDE DEF ids
  <2>2. Cardinality(ids \cup {g}) = Cardinality(ids) + 1
    BY <1>1, <1>4, FS_AddElement
  <2>3. Cardinality({h.id : h \in made}) = Cardinality(ids) + 1
    BY <2>1, <2>2
  <2>4. n = 2 => Cardinality({h.id : h \in made}) + 1 <= Cardinality(BhdGroups)
    BY <1>2, <2>3
  <2> QED BY <2>4 DEF RoomFor
<1> QED BY <1>4, <1>6, <1>7, <1>9, <1>10 DEF new

TypedPolicy(made) == made.policy \in Policies /\ InSwitch(made.hw)

LEMMA NoPolicyTyped == NoPolicy \in Policies
  BY DEF NoPolicy, Policies, Invalid

LEMMA EgressPolicyTyped ==
  ASSUME NEW p \in Policies, NEW hw, InSwitch(hw), RoomFor(hw, 1), NEW asic \in Units, NEW fault
  PROVE  TypedPolicy(BhdEgressPolicy(p, hw, asic, fault))
<1> DEFINE made == InHw(hw, "egress", asic, "agent")
<1>1. PICK g \in BhdGroups : InSwitch(made) /\ NewIn(hw, made) = g
  <2>1. "egress" \in {"ingress", "egress", "mirror"} /\ "agent" \in SamplingMethods /\ 1 \in Nat /\ 1 >= 1
    BY DEF SamplingMethods
  <2> QED BY <2>1, NewGroup
<1>2. BhdEgressPolicy(p, hw, asic, fault) =
        IF fault = "egress" THEN PolicyFailed(p, made) ELSE PolicyDone([p EXCEPT !.egress = g], made)
  BY <1>1 DEF BhdEgressPolicy
<1> HIDE DEF made
<1>3. [p EXCEPT !.egress = g] \in Policies
  BY DEF Policies
<1> QED BY <1>1, <1>2, <1>3 DEF TypedPolicy, PolicyFailed, PolicyDone

LEMMA SflowMirrorTyped ==
  ASSUME NEW p \in Policies, NEW hw, InSwitch(hw), RoomFor(hw, 1), NEW asic \in Units, NEW fault
  PROVE  TypedPolicy(SflowMirrorConfig(p, hw, asic, fault))
<1> DEFINE made == InHw(hw, "mirror", asic, "sflow")
<1>1. InSwitch(made)
  <2>1. "mirror" \in {"ingress", "egress", "mirror"} /\ "sflow" \in SamplingMethods /\ 1 \in Nat /\ 1 >= 1
    BY DEF SamplingMethods
  <2> QED BY <2>1, NewGroup
<1>2. [p EXCEPT !.sampling_type = "sflow"] \in Policies
  BY DEF Policies
<1>3. SflowMirrorConfig(p, hw, asic, fault) \in
        {PolicyFailed(p, hw), PolicyDone([p EXCEPT !.sampling_type = "sflow"], hw),
         PolicyDone([p EXCEPT !.sampling_type = "sflow"], made)}
  BY DEF SflowMirrorConfig
<1> HIDE DEF made
<1> QED BY <1>1, <1>2, <1>3 DEF TypedPolicy, PolicyFailed, PolicyDone

\* What a configuration makes of the switch, on any chip, whatever fails.
LEMMA ConfigureTyped ==
  ASSUME policy \in Policies, InSwitch(bhd_hw), NEW u \in Units, NEW method \in SamplingMethods, NEW fault
  PROVE  TypedPolicy(PlatformConfigure(u, method, fault))
<1>1. ASSUME NEW p \in Policies, NEW way \in SamplingMethods, RoomFor(bhd_hw, 2)
      PROVE  LET made == InHw(bhd_hw, "ingress", u, way) IN
             /\ InSwitch(made) /\ RoomFor(made, 1)
             /\ [p EXCEPT !.ingress = NewIn(bhd_hw, made), !.ports = TRUE, !.sampling_type = "agent"] \in Policies
  <2>1. "ingress" \in {"ingress", "egress", "mirror"} /\ 2 \in Nat /\ 2 >= 1
    OBVIOUS
  <2>2. PICK g \in BhdGroups : LET made == InHw(bhd_hw, "ingress", u, way) IN
          InSwitch(made) /\ NewIn(bhd_hw, made) = g /\ RoomFor(made, 1)
    BY <1>1, <2>1, NewGroup
  <2>3. [p EXCEPT !.ingress = g, !.ports = TRUE, !.sampling_type = "agent"] \in Policies
    BY DEF Policies
  <2> QED BY <2>2, <2>3
<1>2. CASE chip = "qumran"
  <2> DEFINE made == InHw(bhd_hw, "ingress", u, "agent")
             installed == [policy EXCEPT !.ingress = NewIn(bhd_hw, made), !.ports = TRUE, !.sampling_type = "agent"]
             result == PlatformConfigure(u, method, fault)
  <2>1. result = IF fault \in {"group", "rule"} \/ ~RoomFor(bhd_hw, 2) THEN PolicyFailed(policy, bhd_hw)
                 ELSE IF fault = "stat" THEN PolicyFailed(policy, made)
                 ELSE BhdEgressPolicy(installed, made, u, fault)
    BY <1>2 DEF PlatformConfigure, ConfigBlackHoleDnx
  <2>2. RoomFor(bhd_hw, 2) => InSwitch(made) /\ RoomFor(made, 1) /\ installed \in Policies
    BY <1>1 DEF SamplingMethods
  <2> HIDE DEF made, installed, result
  <2>3. RoomFor(bhd_hw, 2) => TypedPolicy(BhdEgressPolicy(installed, made, u, fault))
    BY <2>2, EgressPolicyTyped
  <2>4. TypedPolicy(PolicyFailed(policy, bhd_hw)) /\ (RoomFor(bhd_hw, 2) => TypedPolicy(PolicyFailed(policy, made)))
    BY <2>2 DEF TypedPolicy, PolicyFailed
  <2>5. TypedPolicy(result)
    BY <2>1, <2>3, <2>4
  <2> QED BY <2>5 DEF result
<1>3. CASE chip # "qumran"
  <2> DEFINE made == InHw(bhd_hw, "ingress", u, method)
             installed == [NoPolicy EXCEPT !.ingress = NewIn(bhd_hw, made), !.ports = TRUE, !.sampling_type = "agent"]
             result == PlatformConfigure(u, method, fault)
             policed == [BhdEgressPolicy(installed, made, u, fault) EXCEPT !.rv = "success"]
  <2>1. result = IF fault = "group" \/ ~RoomFor(bhd_hw, 2) THEN PolicyFailed(NoPolicy, bhd_hw)
                 ELSE IF fault = "rule" THEN PolicyFailed(NoPolicy, made)
                 ELSE IF method = "agent" THEN policed
                 ELSE SflowMirrorConfig(installed, made, u, fault)
    BY <1>3 DEF PlatformConfigure, ConfigBlackHole
  <2>2. RoomFor(bhd_hw, 2) => InSwitch(made) /\ RoomFor(made, 1) /\ installed \in Policies
    BY <1>1, NoPolicyTyped
  <2> HIDE DEF made, installed, result
  <2>3. RoomFor(bhd_hw, 2) => TypedPolicy(BhdEgressPolicy(installed, made, u, fault))
    BY <2>2, EgressPolicyTyped
  <2>4. RoomFor(bhd_hw, 2) => TypedPolicy(SflowMirrorConfig(installed, made, u, fault))
    BY <2>2, SflowMirrorTyped
  <2>5. TypedPolicy(PolicyFailed(NoPolicy, bhd_hw)) /\ (RoomFor(bhd_hw, 2) => TypedPolicy(PolicyFailed(NoPolicy, made)))
    BY <2>2, NoPolicyTyped DEF TypedPolicy, PolicyFailed
  <2>6. RoomFor(bhd_hw, 2) => TypedPolicy(policed)
    BY <2>3 DEF TypedPolicy, BhdEgressPolicy, PolicyFailed, PolicyDone
  <2> HIDE DEF policed
  <2>7. TypedPolicy(result)
    BY <2>1, <2>4, <2>5, <2>6
  <2> QED BY <2>7 DEF result
<1> QED BY <1>2, <1>3

LEMMA CancelTyped ==
  ASSUME NEW p \in Policies, NEW hw, InSwitch(hw), NEW asic, NEW fault
  PROVE  TypedPolicy(CancelBlackHole(p, hw, asic, fault))
<1>1. ASSUME NEW less \in SUBSET hw
      PROVE  InSwitch(less)
  BY FS_Subset DEF InSwitch
<1> DEFINE noIngress == Without(hw, p.ingress)
           noGroups == Without(noIngress, p.egress)
           mirrors == {h \in hw : h.stage = "mirror" /\ h.asic = asic}
           result == CancelBlackHole(p, hw, asic, fault)
<1>2. noIngress \in SUBSET hw /\ noGroups \in SUBSET hw /\ noGroups \ mirrors \in SUBSET hw
  BY DEF Without
<1>3. result \in {PolicyFailed(p, hw), PolicyFailed(p, noIngress), PolicyFailed(p, noGroups),
                  PolicyDone(NoPolicy, noGroups \ mirrors), PolicyDone(NoPolicy, noGroups)}
  BY DEF CancelBlackHole
<1> HIDE DEF noIngress, noGroups, mirrors, result
<1>4. TypedPolicy(result)
  BY <1>1, <1>2, <1>3, NoPolicyTyped DEF TypedPolicy, PolicyFailed, PolicyDone
<1> QED BY <1>4 DEF result

-----------------------------------------------------------------------------
(* While nothing fails and one unit is used: what is configured is in the   *)
(* switch and in the plugin's memory, and nothing else.                     *)

Remembered(ingress, egress, ports, kind) ==
  [ingress |-> ingress, egress |-> egress, ports |-> ports, sampling_type |-> kind]

AgentInstalled(p, hw) ==
  \E i, e \in BhdGroups :
    /\ i # e
    /\ hw = {InstalledAs("ingress", Unit1, "agent", i), InstalledAs("egress", Unit1, "agent", e)}
    /\ p = Remembered(i, e, TRUE, "agent")
SflowInstalled(p, hw) ==
  \E i, e \in BhdGroups :
    /\ i # e
    /\ hw = {InstalledAs("ingress", Unit1, "sflow", i), InstalledAs("mirror", Unit1, "sflow", e)}
    /\ p = Remembered(i, Invalid, TRUE, "sflow")
NothingInstalled(p, hw) == p = NoPolicy /\ hw = {}

Installed(c, p, hw) ==
  IF ~c.configured THEN NothingInstalled(p, hw)
  ELSE (c.method = "agent" /\ AgentInstalled(p, hw)) \/ (c.method = "sflow" /\ SflowInstalled(p, hw))

LEMMA IngressInstalled ==
  ASSUME NEW method \in SamplingMethods, RoomFor({}, 2)
  PROVE  LET made == InHw({}, "ingress", Unit1, method) IN
         \E i \in BhdGroups : /\ made = {InstalledAs("ingress", Unit1, method, i)} /\ NewIn({}, made) = i
                              /\ InSwitch(made) /\ RoomFor(made, 1) /\ IdsIn(made) = {i}
<1> DEFINE made == InHw({}, "ingress", Unit1, method)
<1>1. InSwitch({}) /\ 2 \in Nat /\ 2 >= 1 /\ "ingress" \in {"ingress", "egress", "mirror"}
  BY FS_EmptySet DEF InSwitch
<1>2. PICK i \in BhdGroups : /\ made = {} \cup {InstalledAs("ingress", Unit1, method, i)} /\ NewIn({}, made) = i
                             /\ InSwitch(made) /\ RoomFor(made, 1)
  BY <1>1, NewGroup, BhdNumbers
<1> HIDE DEF made
<1>3. made = {InstalledAs("ingress", Unit1, method, i)}
  BY <1>2
<1>4. IdsIn(made) = {i}
  BY <1>3 DEF IdsIn, InstalledAs
<1> QED BY <1>2, <1>3, <1>4 DEF made

LEMMA PolicyUpdates ==
  ASSUME NEW i, NEW e
  PROVE  /\ [NoPolicy EXCEPT !.ingress = i, !.ports = TRUE, !.sampling_type = "agent"] = Remembered(i, Invalid, TRUE, "agent")
         /\ [Remembered(i, Invalid, TRUE, "agent") EXCEPT !.egress = e] = Remembered(i, e, TRUE, "agent")
         /\ [Remembered(i, Invalid, TRUE, "agent") EXCEPT !.sampling_type = "sflow"] = Remembered(i, Invalid, TRUE, "sflow")
<1> DEFINE yes == TRUE
           no == FALSE
<1>1. NoPolicy = Remembered(Invalid, Invalid, no, "none")
  BY DEF NoPolicy, Remembered
<1> HIDE DEF yes, no
<1>2. [NoPolicy EXCEPT !.ingress = i, !.ports = yes, !.sampling_type = "agent"] = Remembered(i, Invalid, yes, "agent")
  <2>1. [NoPolicy EXCEPT !.ingress = i] = Remembered(i, Invalid, no, "none")
    BY <1>1 DEF Remembered
  <2>2. [Remembered(i, Invalid, no, "none") EXCEPT !.ports = yes] = Remembered(i, Invalid, yes, "none")
    BY DEF Remembered
  <2>3. [Remembered(i, Invalid, yes, "none") EXCEPT !.sampling_type = "agent"] = Remembered(i, Invalid, yes, "agent")
    BY DEF Remembered
  <2>4. [NoPolicy EXCEPT !.ingress = i, !.ports = yes, !.sampling_type = "agent"]
          = [[[NoPolicy EXCEPT !.ingress = i] EXCEPT !.ports = yes] EXCEPT !.sampling_type = "agent"]
    OBVIOUS
  <2> QED BY <2>1, <2>2, <2>3, <2>4
<1>3. [Remembered(i, Invalid, yes, "agent") EXCEPT !.egress = e] = Remembered(i, e, yes, "agent")
  BY DEF Remembered
<1>4. [Remembered(i, Invalid, yes, "agent") EXCEPT !.sampling_type = "sflow"] = Remembered(i, Invalid, yes, "sflow")
  BY DEF Remembered
<1> QED BY <1>2, <1>3, <1>4, Zenon DEF yes

\* A configuration without fault installs all or, without room, nothing.
LEMMA ConfigureInstalls ==
  ASSUME NothingInstalled(policy, bhd_hw), NEW method \in SamplingCapabilities
  PROVE  LET made == PlatformConfigure(Unit1, method, "none") IN
         /\ made.rv \in {"success", "failure"}
         /\ made.rv = "failure" => NothingInstalled(made.policy, made.hw)
         /\ made.rv = "success" /\ method = "agent" => AgentInstalled(made.policy, made.hw)
         /\ made.rv = "success" /\ method = "sflow" => SflowInstalled(made.policy, made.hw)
<1> DEFINE result == PlatformConfigure(Unit1, method, "none")
           made == InHw({}, "ingress", Unit1, method)
           installed(id) == Remembered(id, Invalid, TRUE, "agent")
<1>1. method \in SamplingMethods /\ (chip = "qumran" => method = "agent")
  BY DEF SamplingCapabilities, SamplingMethods
<1>2. CASE ~RoomFor({}, 2)
  <2>1. result = PolicyFailed(NoPolicy, {})
    BY <1>2 DEF PlatformConfigure, ConfigBlackHole, ConfigBlackHoleDnx, NothingInstalled
  <2> QED BY <2>1 DEF PolicyFailed, NothingInstalled
<1>3. CASE RoomFor({}, 2)
  <2>1. PICK i \in BhdGroups : /\ made = {InstalledAs("ingress", Unit1, method, i)} /\ NewIn({}, made) = i
                              /\ InSwitch(made) /\ RoomFor(made, 1) /\ IdsIn(made) = {i}
    BY <1>1, <1>3, IngressInstalled
  <2>2. [NoPolicy EXCEPT !.ingress = i, !.ports = TRUE, !.sampling_type = "agent"] = installed(i)
    BY PolicyUpdates
  <2>3. result = IF method = "agent" THEN BhdEgressPolicy(installed(i), made, Unit1, "none")
                 ELSE SflowMirrorConfig(installed(i), made, Unit1, "none")
    <3>1. CASE chip = "qumran"
      BY <1>1, <1>3, <2>1, <2>2, <3>1 DEF PlatformConfigure, ConfigBlackHoleDnx, NothingInstalled
    <3>2. CASE chip # "qumran"
      <4>1. result = IF method = "agent"
                     THEN [BhdEgressPolicy(installed(i), made, Unit1, "none") EXCEPT !.rv = "success"]
                     ELSE SflowMirrorConfig(installed(i), made, Unit1, "none")
        BY <1>3, <2>1, <2>2, <3>2 DEF PlatformConfigure, ConfigBlackHole, NothingInstalled
      <4>2. \A p, hw : [BhdEgressPolicy(p, hw, Unit1, "none") EXCEPT !.rv = "success"] = BhdEgressPolicy(p, hw, Unit1, "none")
        BY DEF BhdEgressPolicy, PolicyDone
      <4> HIDE DEF result, made, installed
      <4> QED BY <4>1, <4>2
    <3> QED BY <3>1, <3>2
  <2> HIDE DEF result, made
  <2>4. InSwitch(made) /\ RoomFor(made, 1)
    BY <2>1
  <2>5. CASE method = "agent"
    <3> DEFINE both == InHw(made, "egress", Unit1, "agent")
    <3>1. "egress" \in {"ingress", "egress", "mirror"} /\ "agent" \in SamplingMethods /\ 1 \in Nat /\ 1 >= 1
      BY DEF SamplingMethods
    <3>2. PICK e \in BhdGroups : /\ e \notin IdsIn(made) /\ both = made \cup {InstalledAs("egress", Unit1, "agent", e)}
                                /\ NewIn(made, both) = e
      BY <2>4, <3>1, NewGroup, BhdNumbers
    <3>3. [installed(i) EXCEPT !.egress = e] = Remembered(i, e, TRUE, "agent")
      BY PolicyUpdates
    <3>4. result = PolicyDone([installed(i) EXCEPT !.egress = NewIn(made, both)], both)
      BY <2>3, <2>5 DEF BhdEgressPolicy
    <3> HIDE DEF both, installed
    <3>5. result = PolicyDone(Remembered(i, e, TRUE, "agent"), both)
      BY <3>2, <3>3, <3>4
    <3>6. /\ both = {InstalledAs("ingress", Unit1, "agent", i), InstalledAs("egress", Unit1, "agent", e)} /\ i # e
      BY <2>1, <2>5, <3>2
    <3>7. AgentInstalled(result.policy, result.hw) /\ result.rv = "success"
      BY <3>5, <3>6 DEF AgentInstalled, PolicyDone
    <3> QED BY <2>5, <3>7 DEF result
  <2>6. CASE method = "sflow"
    <3> DEFINE both == InHw(made, "mirror", Unit1, "sflow")
    <3>1. "mirror" \in {"ingress", "egress", "mirror"} /\ "sflow" \in SamplingMethods /\ 1 \in Nat /\ 1 >= 1
      BY DEF SamplingMethods
    <3>2. PICK e \in BhdGroups : e \notin IdsIn(made) /\ both = made \cup {InstalledAs("mirror", Unit1, "sflow", e)}
      BY <2>4, <3>1, NewGroup, BhdNumbers
    <3>3. [installed(i) EXCEPT !.sampling_type = "sflow"]
            = Remembered(i, Invalid, TRUE, "sflow")
      BY PolicyUpdates
    <3>4. ~ \E h \in made : h.stage = "mirror" /\ h.asic = Unit1
      BY <2>1 DEF InstalledAs
    <3>5. result = PolicyDone([installed(i) EXCEPT !.sampling_type = "sflow"], both)
      BY <2>3, <2>6, <3>4 DEF SflowMirrorConfig
    <3> HIDE DEF both, installed
    <3>6. result = PolicyDone(Remembered(i, Invalid, TRUE, "sflow"), both)
      BY <3>3, <3>5
    <3>7. both = {InstalledAs("ingress", Unit1, "sflow", i), InstalledAs("mirror", Unit1, "sflow", e)} /\ i # e
      BY <2>1, <2>6, <3>2
    <3>8. SflowInstalled(result.policy, result.hw) /\ result.rv = "success"
      BY <3>6, <3>7 DEF SflowInstalled, PolicyDone
    <3> QED BY <2>6, <3>8 DEF result
  <2> QED BY <1>1, <2>5, <2>6 DEF SamplingMethods
<1> QED BY <1>2, <1>3

\* A cancellation without fault leaves nothing behind.
LEMMA CancelRemoves ==
  ASSUME NEW c, NEW p, NEW hw, Installed(c, p, hw)
  PROVE  CancelBlackHole(p, hw, Unit1, "none") = PolicyDone(NoPolicy, {})
<1>1. CASE NothingInstalled(p, hw)
  BY <1>1 DEF NothingInstalled, CancelBlackHole, NoPolicy, Without, PolicyDone
<1>2. CASE AgentInstalled(p, hw)
  <2>1. PICK i, e \in BhdGroups :
          /\ i # e
          /\ hw = {InstalledAs("ingress", Unit1, "agent", i), InstalledAs("egress", Unit1, "agent", e)}
          /\ p = Remembered(i, e, TRUE, "agent")
    BY <1>2 DEF AgentInstalled
  <2>2. Without(Without(hw, i), e) = {}
    BY <2>1 DEF Without, InstalledAs
  <2>3. (\E h \in hw : h.id = i) /\ (\E h \in hw : h.id = e)
    BY <2>1 DEF InstalledAs
  <2> QED BY <2>1, <2>2, <2>3 DEF CancelBlackHole, Remembered
<1>3. CASE SflowInstalled(p, hw)
  <2>1. PICK i, e \in BhdGroups :
          /\ i # e
          /\ hw = {InstalledAs("ingress", Unit1, "sflow", i), InstalledAs("mirror", Unit1, "sflow", e)}
          /\ p = Remembered(i, Invalid, TRUE, "sflow")
    BY <1>3 DEF SflowInstalled
  <2> DEFINE mirrors == {h \in hw : h.stage = "mirror" /\ h.asic = Unit1}
             noGroups == Without(Without(hw, i), Invalid)
  <2>2. mirrors = {InstalledAs("mirror", Unit1, "sflow", e)}
    BY <2>1 DEF InstalledAs
  <2>3. noGroups \ mirrors = {}
    BY <2>1, <2>2, BhdNumbers DEF Without, InstalledAs
  <2>4. \E h \in hw : h.id = i
    BY <2>1 DEF InstalledAs
  <2>5. mirrors # {}
    BY <2>2
  <2>6. CancelBlackHole(p, hw, Unit1, "none") = PolicyDone(NoPolicy, noGroups \ mirrors)
    BY <2>1, <2>4, <2>5 DEF CancelBlackHole, Remembered
  <2> QED BY <2>3, <2>6
<1> QED BY <1>1, <1>2, <1>3 DEF Installed

-----------------------------------------------------------------------------
(* The state of black hole detection, and its steps.                        *)

BhdArgs == BOOLEAN \cup SamplingMethods \cup {"none", "feature", "black_hole"}
BhdMessage == [msg : {"feature", "configure", "cancel", "get", "period", "event"}, unit : Units,
               arg : BhdArgs]
FromUsed(m) == m.msg \in {"period", "event"} \/ m.unit \in UnitsAsked

BhdQueueInv ==
  /\ bhd_queue \in Seq(BhdMessage) /\ Len(bhd_queue) <= BhdQueue
  /\ \A i \in 1 .. Len(bhd_queue) : FromUsed(bhd_queue[i])

BhdInv ==
  /\ BhdUnits /\ BhdQueueInv
  /\ policy \in Policies /\ InSwitch(bhd_hw) /\ bhd_hook \in BOOLEAN

BhdStep == BhdInv' /\ [Limits!Next]_Limits!sampledVars

LEMMA BhdPosts ==
  ASSUME BhdQueueInv, NEW m \in BhdMessage, FromUsed(m), BhdSendRequest(m), trouble' = trouble
  PROVE  BhdQueueInv'
<1>1. /\ bhd_queue' \in Seq(BhdMessage) /\ Len(bhd_queue') = Len(bhd_queue) + 1
      /\ \A i \in 1 .. Len(bhd_queue) : bhd_queue'[i] = bhd_queue[i]
      /\ bhd_queue'[Len(bhd_queue) + 1] = m
  BY AppendFacts DEF BhdQueueInv, BhdSendRequest
<1>2. Len(bhd_queue) \in Nat /\ Len(bhd_queue) < BhdQueue /\ \A i \in 1 .. Len(bhd_queue) : FromUsed(bhd_queue[i])
  BY DEF BhdQueueInv, BhdSendRequest
<1>3. \A i \in 1 .. Len(bhd_queue') : FromUsed(bhd_queue'[i])
  BY <1>1, <1>2
<1>4. \A i \in 1 .. Len(bhd_queue') : FromUsed(bhd_queue[i])'
  BY <1>3 DEF FromUsed, UnitsAsked
<1> QED BY <1>1, <1>2, <1>4, BhdNumbers DEF BhdQueueInv

LEMMA BhdTakes ==
  ASSUME BhdQueueInv, NEW msg, BhdServing(msg), trouble' = trouble
  PROVE  BhdQueueInv' /\ M \in BhdMessage /\ M.unit \in Units /\ FromUsed(M)
<1> DEFINE q == bhd_queue
<1>1. q \in Seq(BhdMessage) /\ q # << >> /\ bhd_queue' = Tail(q) /\ \A i \in 1 .. Len(q) : FromUsed(q[i])
  BY DEF BhdQueueInv, BhdServing
<1>2. /\ M \in BhdMessage /\ M = q[1] /\ Len(q) >= 1 /\ Len(q) \in Nat
      /\ Tail(q) \in Seq(BhdMessage) /\ Len(Tail(q)) = Len(q) - 1
      /\ \A i \in 1 .. Len(q) - 1 : Tail(q)[i] = q[i + 1]
  BY <1>1, TailFacts DEF M
<1>3. M.unit \in Units
  BY <1>2 DEF BhdMessage
<1>4. FromUsed(M)
  BY <1>1, <1>2
<1>5. \A i \in 1 .. Len(bhd_queue') : FromUsed(bhd_queue'[i])
  BY <1>1, <1>2
<1>6. \A i \in 1 .. Len(bhd_queue') : FromUsed(bhd_queue[i])'
  BY <1>5 DEF FromUsed, UnitsAsked
<1> QED BY <1>1, <1>2, <1>3, <1>4, <1>6, BhdNumbers DEF BhdQueueInv

\* Steps that leave the units alone, and what the others leave alone of one.
LEMMA UnitsKept ==
  ASSUME BhdUnits, UNCHANGED <<bhd_config, bhd_oper, bhd_timer, bhd_running, reports>>
  PROVE  BhdUnits' /\ [Limits!Next]_Limits!sampledVars
  BY DEF BhdUnits, Limits!sampledVars, Sampling, Enabled, Configured

LEMMA UnitFields ==
  ASSUME BhdUnits, NEW u \in Units
  PROVE  /\ bhd_config[u] \in BhdConfig /\ bhd_oper[u] \in BhdOper /\ bhd_timer[u] \in BOOLEAN
         /\ bhd_running[u] \in 0..1 /\ reports[u] \in Nat
         /\ GoodUnit(bhd_config[u], bhd_oper[u], bhd_timer[u], bhd_running[u], reports[u])
         /\ [bhd_config EXCEPT ![u] = bhd_config[u]] = bhd_config
         /\ [bhd_oper EXCEPT ![u] = bhd_oper[u]] = bhd_oper
         /\ [bhd_timer EXCEPT ![u] = bhd_timer[u]] = bhd_timer
         /\ [bhd_running EXCEPT ![u] = bhd_running[u]] = bhd_running
         /\ [reports EXCEPT ![u] = reports[u]] = reports
<1>1. /\ bhd_config \in [Units -> BhdConfig] /\ bhd_oper \in [Units -> BhdOper]
      /\ bhd_timer \in [Units -> BOOLEAN] /\ bhd_running \in [Units -> 0..1] /\ reports \in [Units -> Nat]
  BY DEF BhdUnits
<1>2. [bhd_config EXCEPT ![u] = bhd_config[u]] = bhd_config
  BY <1>1
<1>3. [bhd_oper EXCEPT ![u] = bhd_oper[u]] = bhd_oper
  BY <1>1
<1>4. [bhd_timer EXCEPT ![u] = bhd_timer[u]] = bhd_timer
  BY <1>1
<1>5. [bhd_running EXCEPT ![u] = bhd_running[u]] = bhd_running
  BY <1>1
<1>6. [reports EXCEPT ![u] = reports[u]] = reports
  BY <1>1
<1>7. /\ bhd_config[u] \in BhdConfig /\ bhd_oper[u] \in BhdOper /\ bhd_timer[u] \in BOOLEAN
      /\ bhd_running[u] \in 0..1 /\ reports[u] \in Nat
  BY <1>1
<1>8. GoodUnit(bhd_config[u], bhd_oper[u], bhd_timer[u], bhd_running[u], reports[u])
  BY DEF BhdUnits
<1> QED BY <1>2, <1>3, <1>4, <1>5, <1>6, <1>7, <1>8

LEMMA BhdPostStep ==
  ASSUME BhdInv, \/ \E m \in BhdRequests : BhdAsk(m)
                 \/ \E u \in Units : PeriodicSamplingCb(u)
                 \/ \E u \in Units : BhdPktMuxCb(u)
  PROVE  BhdStep
<1>1. PICK m \in BhdMessage :
        /\ FromUsed(m) /\ BhdSendRequest(m)
        /\ UNCHANGED <<trouble, bhd_config, bhd_oper, bhd_timer, bhd_running, bhd_hook, reports, policy, bhd_hw>>
  <2>1. ASSUME NEW m \in BhdRequests, BhdAsk(m)
        PROVE  m \in BhdMessage /\ FromUsed(m)
    <3>1. UnitsAsked \subseteq Units
      BY BhdNumbers DEF UnitsAsked
    <3>2. ASSUME NEW u \in UnitsAsked, NEW msg \in {"feature", "configure", "cancel", "get"},
                 NEW arg \in BhdArgs,
                 m = [msg |-> msg, unit |-> u, arg |-> arg]
          PROVE  m \in BhdMessage /\ FromUsed(m)
      BY <3>1, <3>2 DEF BhdMessage, FromUsed
    <3>3. CASE m \in BhdDetectionRequests
      <4>1. PICK u \in UnitsAsked, e \in BOOLEAN : m = [msg |-> "feature", unit |-> u, arg |-> e]
        BY <3>3 DEF BhdDetectionRequests
      <4>2. e \in BhdArgs
        BY DEF BhdArgs
      <4> QED BY <3>2, <4>1, <4>2, Zenon
    <3>4. CASE m \in BhdConfigureRequests
      BY <3>2, <3>4 DEF BhdConfigureRequests, BhdArgs
    <3>5. CASE m \in BhdCancelRequests
      <4>1. PICK u \in UnitsAsked : m = [msg |-> "cancel", unit |-> u, arg |-> "none"]
        BY <3>5 DEF BhdCancelRequests
      <4>2. "none" \in BhdArgs
        BY DEF BhdArgs
      <4> QED BY <3>2, <4>1, <4>2
    <3>6. CASE m \in BhdGetRequests
      <4>1. PICK u \in UnitsAsked, g \in {"feature", "black_hole", "sflow"} : m = [msg |-> "get", unit |-> u, arg |-> g]
        BY <3>6 DEF BhdGetRequests
      <4>2. g \in BhdArgs
        BY DEF BhdArgs, SamplingMethods
      <4> QED BY <3>2, <4>1, <4>2
    <3> QED BY <3>3, <3>4, <3>5, <3>6 DEF BhdRequests
  <2>2. \A u \in Units : /\ [msg |-> "period", unit |-> u, arg |-> "none"] \in BhdMessage
                         /\ [msg |-> "event", unit |-> u, arg |-> "none"] \in BhdMessage
                         /\ FromUsed([msg |-> "period", unit |-> u, arg |-> "none"])
                         /\ FromUsed([msg |-> "event", unit |-> u, arg |-> "none"])
    BY DEF BhdMessage, FromUsed, BhdArgs
  <2>3. CASE \E m \in BhdRequests : BhdAsk(m)
    BY <2>1, <2>3 DEF BhdAsk
  <2>4. CASE \E u \in Units : PeriodicSamplingCb(u)
    BY <2>2, <2>4 DEF PeriodicSamplingCb
  <2>5. CASE \E u \in Units : BhdPktMuxCb(u)
    BY <2>2, <2>5 DEF BhdPktMuxCb
  <2> QED BY <2>3, <2>4, <2>5
<1>2. BhdUnits' /\ [Limits!Next]_Limits!sampledVars
  BY <1>1, UnitsKept DEF BhdInv
<1>3. BhdQueueInv'
  BY <1>1, BhdPosts DEF BhdInv
<1> QED BY <1>1, <1>2, <1>3 DEF BhdStep, BhdInv

UnitsMove == BhdUnits' /\ [Limits!Next]_Limits!sampledVars

\* A unit that samples neither before nor after may change its configuration.
LEMMA QuietUnits ==
  ASSUME BhdUnits, NEW u \in Units, NEW c \in BhdConfig, bhd_config' = [bhd_config EXCEPT ![u] = c],
         bhd_oper' = [bhd_oper EXCEPT ![u] = bhd_oper[u]], bhd_timer' = [bhd_timer EXCEPT ![u] = bhd_timer[u]],
         bhd_running' = [bhd_running EXCEPT ![u] = bhd_running[u]], reports' = [reports EXCEPT ![u] = reports[u]],
         c.configured => c.enable, ~Samples(c), ~Samples(bhd_config[u])
  PROVE  UnitsMove
<1>1. /\ bhd_oper[u] \in BhdOper /\ bhd_timer[u] \in BOOLEAN /\ bhd_running[u] \in 0..1 /\ reports[u] \in Nat
      /\ GoodUnit(bhd_config[u], bhd_oper[u], bhd_timer[u], bhd_running[u], reports[u])
  BY UnitFields
<1>2. GoodUnit(c, bhd_oper[u], bhd_timer[u], bhd_running[u], reports[u])
  BY <1>1 DEF GoodUnit
<1>3. UnitLimitsStep(bhd_config[u], reports[u], c, reports[u])
  BY DEF UnitLimitsStep, Reported
<1> QED BY <1>1, <1>2, <1>3, UnitStep DEF UnitsMove

LEMMA UnchangedOf ==
  ASSUME BhdUnits, NEW u \in Units, UNCHANGED <<bhd_oper, bhd_timer, bhd_running, reports>>
  PROVE  /\ bhd_oper' = [bhd_oper EXCEPT ![u] = bhd_oper[u]] /\ bhd_timer' = [bhd_timer EXCEPT ![u] = bhd_timer[u]]
         /\ bhd_running' = [bhd_running EXCEPT ![u] = bhd_running[u]] /\ reports' = [reports EXCEPT ![u] = reports[u]]
  BY UnitFields

LEMMA BhdEnableUnits ==
  ASSUME BhdUnits, M.unit \in Units, BhdFeatureEnable
  PROVE  UnitsMove
<1> DEFINE u == M.unit
           c == [bhd_config[u] EXCEPT !.enable = TRUE]
<1>1. /\ bhd_config' = [bhd_config EXCEPT ![u] = c] /\ ~bhd_config[u].enable
      /\ UNCHANGED <<bhd_oper, bhd_timer, bhd_running, reports>>
  BY DEF BhdFeatureEnable, Enabled, BhdUnits
<1>2. c \in BhdConfig /\ c.configured = bhd_config[u].configured
  BY UnitFields DEF BhdConfig
<1>3. ~bhd_config[u].configured
  BY <1>1, UnitFields DEF GoodUnit
<1> HIDE DEF c, u
<1>4. ~c.configured /\ ~Samples(c) /\ ~Samples(bhd_config[u])
  BY <1>2, <1>3 DEF Samples
<1>5. PICK d \in BhdConfig : bhd_config' = [bhd_config EXCEPT ![u] = d] /\ (d.configured => d.enable) /\ ~Samples(d)
  BY <1>1, <1>2, <1>4
<1>6. u \in Units
  BY DEF u
<1>7. /\ bhd_oper' = [bhd_oper EXCEPT ![u] = bhd_oper[u]] /\ bhd_timer' = [bhd_timer EXCEPT ![u] = bhd_timer[u]]
      /\ bhd_running' = [bhd_running EXCEPT ![u] = bhd_running[u]] /\ reports' = [reports EXCEPT ![u] = reports[u]]
  BY <1>1, <1>6, UnchangedOf
<1> QED BY <1>4, <1>5, <1>6, <1>7, QuietUnits

\* Taking a timer away: a unit has none afterwards, and no system timer.
LEMMA TimerTaken ==
  ASSUME BhdUnits, NEW u \in Units, TimerDeleted(u)
  PROVE  bhd_timer' = [bhd_timer EXCEPT ![u] = FALSE] /\ bhd_running' = [bhd_running EXCEPT ![u] = 0]
<1>1. bhd_running[u] = IF bhd_timer[u] THEN 1 ELSE 0
  BY UnitFields DEF GoodUnit
<1>2. (IF bhd_timer[u] THEN bhd_running[u] - 1 ELSE bhd_running[u]) = 0
  BY <1>1
<1>3. bhd_running' = [bhd_running EXCEPT ![u] = IF bhd_timer[u] THEN bhd_running[u] - 1 ELSE bhd_running[u]]
  BY DEF TimerDeleted, BhdUnits
<1> QED BY <1>2, <1>3 DEF TimerDeleted

LEMMA NoConfigTyped ==
  ASSUME NEW enable \in BOOLEAN
  PROVE  /\ NotConfigured(enable) \in BhdConfig /\ ~NotConfigured(enable).configured
         /\ [start_sampling |-> TRUE, current_sample_count |-> 0] \in BhdOper
  BY BhdNumbers DEF NotConfigured, BhdConfig, BhdOper

LEMMA BhdDisableUnits ==
  ASSUME BhdUnits, M.unit \in Units, NEW fault, BhdFeatureDisable(fault)
  PROVE  UnitsMove
<1> DEFINE u == M.unit
           c == NotConfigured(FALSE)
           o == [start_sampling |-> TRUE, current_sample_count |-> 0]
<1>1. /\ bhd_config' = [bhd_config EXCEPT ![u] = c] /\ TimerDeleted(u)
      /\ bhd_oper' = [bhd_oper EXCEPT ![u] = o] /\ reports' = [reports EXCEPT ![u] = 0]
  BY DEF BhdFeatureDisable, OpenWindow
<1>2. c \in BhdConfig /\ ~c.configured /\ o \in BhdOper /\ o.current_sample_count = 0
  BY NoConfigTyped
<1> HIDE DEF c, o, u
<1>3. u \in Units
  BY DEF u
<1>4. bhd_timer' = [bhd_timer EXCEPT ![u] = FALSE] /\ bhd_running' = [bhd_running EXCEPT ![u] = 0]
  BY <1>1, <1>3, TimerTaken
<1>5. GoodUnit(c, o, FALSE, 0, 0) /\ UnitLimitsStep(bhd_config[u], reports[u], c, 0)
  BY <1>2 DEF GoodUnit, Samples, UnitLimitsStep, Reported
<1>6. 0 \in 0..1 /\ 0 \in Nat /\ FALSE \in BOOLEAN
  OBVIOUS
<1> QED BY <1>1, <1>2, <1>3, <1>4, <1>5, <1>6, UnitStep DEF UnitsMove

LEMMA BhdCancelUnits ==
  ASSUME BhdUnits, M.unit \in Units, NEW fault, Cancel(fault)
  PROVE  UnitsMove
<1> DEFINE u == M.unit
           c == NotConfigured(TRUE)
<1>1. bhd_config' = [bhd_config EXCEPT ![u] = c] /\ TimerDeleted(u) /\ UNCHANGED <<bhd_oper, reports>>
  BY DEF Cancel
<1>2. c \in BhdConfig /\ ~c.configured
  BY NoConfigTyped
<1> HIDE DEF c, u
<1>3. u \in Units
  BY DEF u
<1>4. bhd_timer' = [bhd_timer EXCEPT ![u] = FALSE] /\ bhd_running' = [bhd_running EXCEPT ![u] = 0]
  BY <1>1, <1>3, TimerTaken
<1>5. /\ bhd_oper[u] \in BhdOper /\ reports[u] \in Nat /\ reports[u] <= bhd_oper[u].current_sample_count
      /\ bhd_oper' = [bhd_oper EXCEPT ![u] = bhd_oper[u]] /\ reports' = [reports EXCEPT ![u] = reports[u]]
  BY <1>1, <1>3, UnitFields DEF GoodUnit
<1>6. GoodUnit(c, bhd_oper[u], FALSE, 0, reports[u]) /\ UnitLimitsStep(bhd_config[u], reports[u], c, reports[u])
  BY <1>2, <1>5 DEF GoodUnit, Samples, UnitLimitsStep, Reported
<1>7. 0 \in 0..1 /\ FALSE \in BOOLEAN
  OBVIOUS
<1> QED BY <1>1, <1>2, <1>3, <1>4, <1>5, <1>6, <1>7, UnitStep DEF UnitsMove

\* Before it is configured, a unit does not sample and has no timer.
LEMMA BeforeConfigure ==
  ASSUME BhdUnits, M.unit \in Units, MayConfigure
  PROVE  ~Samples(bhd_config[M.unit]) /\ ~bhd_timer[M.unit] /\ bhd_running[M.unit] = 0
<1>1. ~Samples(bhd_config[M.unit])
  BY DEF MayConfigure, Configured, Samples
<1> QED BY <1>1, UnitFields DEF GoodUnit

LEMMA BhdUndoneUnits ==
  ASSUME BhdUnits, M.unit \in Units, NEW fault, ConfigureUndone(fault) \/ ConfigureSflow(fault)
  PROVE  UnitsMove
<1> DEFINE u == M.unit
<1>1. UNCHANGED <<bhd_oper, bhd_timer, bhd_running, reports>> /\ MayConfigure
  BY DEF ConfigureUndone, ConfigureSflow, TimerUntouched
<1>2. \E c \in BhdConfig : bhd_config' = [bhd_config EXCEPT ![u] = c] /\ (c.configured => c.enable) /\ ~Samples(c)
  <2>1. CASE ConfigureUndone(fault)
    <3> DEFINE c == [bhd_config[u] EXCEPT !.method = "agent"]
    <3>1. bhd_config' = [bhd_config EXCEPT ![u] = c]
      BY <2>1 DEF ConfigureUndone, BhdUnits
    <3>2. c \in BhdConfig /\ c.configured = bhd_config[u].configured
      BY UnitFields DEF BhdConfig, SamplingMethods
    <3>3. ~c.configured
      BY <1>1, <3>2 DEF MayConfigure, Configured
    <3> HIDE DEF c
    <3> QED BY <3>1, <3>2, <3>3 DEF Samples
  <2>2. CASE ConfigureSflow(fault)
    <3> DEFINE c == [enable |-> TRUE, configured |-> TRUE, method |-> "sflow"]
    <3>1. bhd_config' = [bhd_config EXCEPT ![u] = c]
      BY <2>2 DEF ConfigureSflow
    <3>2. c \in BhdConfig /\ c.enable /\ c.method = "sflow"
      BY DEF BhdConfig, SamplingMethods
    <3> HIDE DEF c
    <3> QED BY <3>1, <3>2 DEF Samples
  <2> QED BY <2>1, <2>2
<1>3. PICK c \in BhdConfig : bhd_config' = [bhd_config EXCEPT ![u] = c] /\ (c.configured => c.enable) /\ ~Samples(c)
  BY <1>2
<1> HIDE DEF u
<1>4. u \in Units /\ ~Samples(bhd_config[u])
  BY <1>1, BeforeConfigure DEF u
<1>5. /\ bhd_oper' = [bhd_oper EXCEPT ![u] = bhd_oper[u]] /\ bhd_timer' = [bhd_timer EXCEPT ![u] = bhd_timer[u]]
      /\ bhd_running' = [bhd_running EXCEPT ![u] = bhd_running[u]] /\ reports' = [reports EXCEPT ![u] = reports[u]]
  BY <1>1, <1>4, UnchangedOf
<1> QED BY <1>3, <1>4, <1>5, QuietUnits

LEMMA BhdAgentUnits ==
  ASSUME BhdUnits, M.unit \in Units, NEW fault, ConfigureAgent(fault)
  PROVE  UnitsMove
<1> DEFINE u == M.unit
           c == [enable |-> TRUE, configured |-> TRUE, method |-> "agent"]
           o == [start_sampling |-> TRUE, current_sample_count |-> 0]
<1>1. /\ bhd_config' = [bhd_config EXCEPT ![u] = c] /\ MayConfigure /\ TimerAdded(u)
      /\ bhd_oper' = [bhd_oper EXCEPT ![u] = o] /\ reports' = [reports EXCEPT ![u] = 0]
  BY DEF ConfigureAgent, OpenWindow
<1>2. c \in BhdConfig /\ c.enable /\ Samples(c) /\ o \in BhdOper /\ o.current_sample_count = 0
  BY BhdNumbers DEF BhdConfig, SamplingMethods, Samples, BhdOper
<1> HIDE DEF c, o
<1>3. bhd_running[u] = 0
  BY <1>1, BeforeConfigure
<1> HIDE DEF u
<1>4. u \in Units
  BY DEF u
<1>5. bhd_timer' = [bhd_timer EXCEPT ![u] = TRUE] /\ bhd_running' = [bhd_running EXCEPT ![u] = 1]
  <2>1. bhd_running' = [bhd_running EXCEPT ![u] = bhd_running[u] + 1]
    BY <1>1 DEF TimerAdded, BhdUnits
  <2> QED BY <1>1, <1>3, <2>1 DEF TimerAdded
<1>6. GoodUnit(c, o, TRUE, 1, 0) /\ UnitLimitsStep(bhd_config[u], reports[u], c, 0)
  BY <1>2 DEF GoodUnit, UnitLimitsStep, Reported
<1>7. 1 \in 0..1 /\ 0 \in Nat /\ TRUE \in BOOLEAN
  OBVIOUS
<1> QED BY <1>1, <1>2, <1>4, <1>5, <1>6, <1>7, UnitStep DEF UnitsMove

LEMMA BhdPeriodUnits ==
  ASSUME BhdUnits, M.unit \in Units, PeriodStart
  PROVE  UnitsMove
<1> DEFINE u == M.unit
           o == [start_sampling |-> TRUE, current_sample_count |-> 0]
<1>1. /\ bhd_oper' = [bhd_oper EXCEPT ![u] = o] /\ reports' = [reports EXCEPT ![u] = 0]
      /\ UNCHANGED <<bhd_config, bhd_timer, bhd_running>>
  BY DEF PeriodStart, OpenWindow
<1>2. o \in BhdOper /\ o.current_sample_count = 0
  BY NoConfigTyped
<1> HIDE DEF o, u
<1>3. u \in Units
  BY DEF u
<1>4. /\ bhd_config[u] \in BhdConfig /\ bhd_timer[u] \in BOOLEAN /\ bhd_running[u] \in 0..1 /\ 0 \in Nat
      /\ GoodUnit(bhd_config[u], bhd_oper[u], bhd_timer[u], bhd_running[u], reports[u])
  BY <1>3, UnitFields
<1>5. /\ bhd_config' = [bhd_config EXCEPT ![u] = bhd_config[u]] /\ bhd_timer' = [bhd_timer EXCEPT ![u] = bhd_timer[u]]
      /\ bhd_running' = [bhd_running EXCEPT ![u] = bhd_running[u]]
  BY <1>1, <1>3, UnitFields
<1>6. GoodUnit(bhd_config[u], o, bhd_timer[u], bhd_running[u], 0)
  BY <1>2, <1>4 DEF GoodUnit
<1>7. UnitLimitsStep(bhd_config[u], reports[u], bhd_config[u], 0)
  BY DEF UnitLimitsStep, Reported
<1>8. bhd_oper' = [bhd_oper EXCEPT ![u] = o] /\ reports' = [reports EXCEPT ![u] = 0] /\ o \in BhdOper
  BY <1>1, <1>2
<1> QED BY <1>3, <1>4, <1>5, <1>6, <1>7, <1>8, UnitStep DEF UnitsMove

LEMMA BhdEventUnits ==
  ASSUME BhdUnits, M.unit \in Units, NEW fault, EventReported(fault)
  PROVE  UnitsMove
<1> DEFINE u == M.unit
           o == [bhd_oper[u] EXCEPT !.current_sample_count = bhd_oper[u].current_sample_count + 1]
           r == IF fault = "encode" THEN reports[u] ELSE reports[u] + 1
<1>0. u \in Units
  OBVIOUS
<1>1. /\ bhd_oper' = [bhd_oper EXCEPT ![u] = o]
      /\ UNCHANGED <<bhd_config, bhd_timer, bhd_running>>
      /\ Samples(bhd_config[u]) /\ bhd_oper[u].current_sample_count < SampleCount
  BY DEF EventReported, Sampling, Samples, Enabled, Configured, WindowOpen, BhdUnits
<1>2. reports' = [reports EXCEPT ![u] = r]
  <2>1. CASE fault = "encode"
    BY <1>0, <2>1, UnitFields DEF EventReported
  <2>2. CASE fault # "encode"
    BY <2>2 DEF EventReported, BhdUnits
  <2> QED BY <2>1, <2>2
<1>3. /\ bhd_config[u] \in BhdConfig /\ bhd_timer[u] \in BOOLEAN /\ bhd_running[u] \in 0..1
      /\ bhd_oper[u] \in BhdOper /\ reports[u] \in Nat
      /\ GoodUnit(bhd_config[u], bhd_oper[u], bhd_timer[u], bhd_running[u], reports[u])
  BY <1>0, UnitFields
<1>4. o \in BhdOper /\ o.current_sample_count = bhd_oper[u].current_sample_count + 1
  BY <1>1, <1>3, BhdNumbers DEF BhdOper
<1>5. bhd_oper[u].current_sample_count \in Nat /\ r \in Nat /\ r \in {reports[u], reports[u] + 1}
      /\ reports[u] <= bhd_oper[u].current_sample_count
  BY <1>3, BhdNumbers DEF BhdOper, GoodUnit
<1> HIDE DEF o, u, r
<1>6. /\ bhd_config' = [bhd_config EXCEPT ![u] = bhd_config[u]] /\ bhd_timer' = [bhd_timer EXCEPT ![u] = bhd_timer[u]]
      /\ bhd_running' = [bhd_running EXCEPT ![u] = bhd_running[u]]
  BY <1>0, <1>1, UnitFields
<1>7. r <= o.current_sample_count
  <2> DEFINE told == reports[u]
             count == bhd_oper[u].current_sample_count
  <2>1. told \in Nat /\ count \in Nat /\ r \in {told, told + 1} /\ told <= count
    BY <1>3, <1>5
  <2>2. o.current_sample_count = count + 1
    BY <1>4
  <2> HIDE DEF told, count
  <2>3. r <= count + 1
    BY <2>1
  <2> QED BY <2>2, <2>3
<1>8. GoodUnit(bhd_config[u], o, bhd_timer[u], bhd_running[u], r)
  BY <1>3, <1>7 DEF GoodUnit
<1>9. reports[u] < SampleCount
  BY <1>1, <1>3, <1>5, BhdNumbers
<1>10. UnitLimitsStep(bhd_config[u], reports[u], bhd_config[u], r)
  <2>1. CASE r = reports[u]
    BY <2>1 DEF UnitLimitsStep
  <2>2. CASE r = reports[u] + 1
    BY <1>1, <1>9, <2>2 DEF UnitLimitsStep
  <2> QED BY <1>5, <2>1, <2>2
<1>11. bhd_oper' = [bhd_oper EXCEPT ![u] = o] /\ o \in BhdOper
  BY <1>1, <1>4
<1>12. bhd_config[u] \in BhdConfig /\ bhd_timer[u] \in BOOLEAN /\ bhd_running[u] \in 0..1 /\ r \in Nat
  BY <1>3, <1>5
<1> QED BY <1>0, <1>2, <1>6, <1>8, <1>10, <1>11, <1>12, UnitStep DEF UnitsMove

LEMMA BhdAppStep ==
  ASSUME BhdInv, NEW fault, BhdAppMain(fault)
  PROVE  BhdStep
<1> USE DEF BhdInv
<1>0. trouble' = trouble /\ \E msg : BhdServing(msg)
  BY DEF BhdAppMain, BhdFeatureUnchanged, BhdFeatureEnable, BhdFeatureDisable, ConfigureRefused, ConfigureFails,
     ConfigureSflow, ConfigureUndone, ConfigureAgent, BhdFeatureGet, GetBlackHole, SflowSampleStatusGet, BhdAnswerGet,
     CancelRefused, Cancel, PeriodStart, EventReported, EventDropped, MayConfigure
<1>1. BhdQueueInv' /\ M.unit \in Units
  BY <1>0, BhdTakes
<1>2. ASSUME UNCHANGED <<bhd_config, bhd_oper, bhd_timer, bhd_running, bhd_hook, reports>>, TypedPolicy([policy |-> policy', hw |-> bhd_hw'])
      PROVE  BhdStep
  <2>1. policy' \in Policies /\ InSwitch(bhd_hw)'
    BY <1>2 DEF TypedPolicy, InSwitch
  <2> QED BY <1>1, <1>2, <2>1, UnitsKept DEF BhdStep
<1>3. ASSUME UnitsMove, TypedPolicy([policy |-> policy', hw |-> bhd_hw']), bhd_hook' \in BOOLEAN
      PROVE  BhdStep
  <2>1. policy' \in Policies /\ InSwitch(bhd_hw)'
    BY <1>3 DEF TypedPolicy, InSwitch
  <2> QED BY <1>1, <1>3, <2>1 DEF BhdStep, UnitsMove
<1>4. TypedPolicy([policy |-> policy, hw |-> bhd_hw])
  BY DEF TypedPolicy
<1>5. ASSUME NEW made, TypedPolicy(made), policy' = made.policy, bhd_hw' = made.hw
      PROVE  TypedPolicy([policy |-> policy', hw |-> bhd_hw'])
  BY <1>5 DEF TypedPolicy
<1>6. \A f : TypedPolicy(CancelBlackHole(policy, bhd_hw, M.unit, f))
  BY CancelTyped
<1>7. MayConfigure => \A f : TypedPolicy(PlatformConfigure(M.unit, M.arg, f))
  <2>1. MayConfigure => M.arg \in SamplingMethods
    BY DEF MayConfigure, SamplingCapabilities, SamplingMethods
  <2> QED BY <1>1, <2>1, ConfigureTyped
<1>8. CASE BhdFeatureUnchanged \/ ConfigureRefused \/ BhdFeatureGet \/ GetBlackHole \/ SflowSampleStatusGet \/ EventDropped(fault)
  BY <1>2, <1>4, <1>8 DEF BhdFeatureUnchanged, ConfigureRefused, BhdFeatureGet, GetBlackHole, SflowSampleStatusGet,
                          BhdAnswerGet, EventDropped
<1>9. CASE ConfigureFails(fault)
  BY <1>2, <1>5, <1>7, <1>9 DEF ConfigureFails
<1>10. CASE CancelRefused(fault)
  <2>1. TypedPolicy([policy |-> policy', hw |-> bhd_hw'])
    <3>1. CASE Enabled(M.unit) /\ Configured(M.unit)
      BY <1>5, <1>6, <1>10, <3>1 DEF CancelRefused
    <3>2. CASE ~(Enabled(M.unit) /\ Configured(M.unit))
      BY <1>4, <1>10, <3>2 DEF CancelRefused
    <3> QED BY <3>1, <3>2
  <2> QED BY <1>2, <1>10, <2>1 DEF CancelRefused
<1>11. CASE BhdFeatureEnable
  BY <1>1, <1>3, <1>4, <1>11, BhdEnableUnits DEF BhdFeatureEnable
<1>12. CASE BhdFeatureDisable(fault)
  BY <1>1, <1>3, <1>5, <1>6, <1>12, BhdDisableUnits DEF BhdFeatureDisable
<1>13. CASE Cancel(fault)
  BY <1>1, <1>3, <1>5, <1>6, <1>13, BhdCancelUnits DEF Cancel
<1>14. CASE ConfigureSflow(fault)
  BY <1>1, <1>3, <1>5, <1>7, <1>14, BhdUndoneUnits DEF ConfigureSflow
<1>15. CASE ConfigureUndone(fault)
  <2>1. MayConfigure /\ M.arg = "agent" /\ UNCHANGED bhd_hook
    BY <1>15 DEF ConfigureUndone
  <2> DEFINE made == PlatformConfigure(M.unit, "agent", fault)
             undone == CancelBlackHole(made.policy, made.hw, M.unit, fault)
  <2>2. TypedPolicy(made)
    BY <1>7, <2>1
  <2>3. policy' = undone.policy /\ bhd_hw' = undone.hw
    BY <1>15 DEF ConfigureUndone
  <2> HIDE DEF made
  <2>4. TypedPolicy(undone)
    BY <2>2, CancelTyped DEF TypedPolicy
  <2> HIDE DEF undone
  <2>5. TypedPolicy([policy |-> policy', hw |-> bhd_hw'])
    BY <1>5, <2>3, <2>4
  <2> QED BY <1>1, <1>3, <1>15, <2>1, <2>5, BhdUndoneUnits
<1>16. CASE ConfigureAgent(fault)
  <2>1. TypedPolicy([policy |-> policy', hw |-> bhd_hw']) /\ bhd_hook' = TRUE
    BY <1>5, <1>7, <1>16 DEF ConfigureAgent
  <2> QED BY <1>1, <1>3, <1>16, <2>1, BhdAgentUnits
<1>17. CASE PeriodStart
  BY <1>1, <1>3, <1>4, <1>17, BhdPeriodUnits DEF PeriodStart
<1>18. CASE EventReported(fault)
  BY <1>1, <1>3, <1>4, <1>18, BhdEventUnits DEF EventReported
<1> QED BY <1>8, <1>9, <1>10, <1>11, <1>12, <1>13, <1>14, <1>15, <1>16, <1>17, <1>18 DEF BhdAppMain

LEMMA BhdInvStep == BhdInv /\ [BhdNext]_bhdVars => BhdStep
<1> SUFFICES ASSUME BhdInv, [BhdNext]_bhdVars PROVE BhdStep
  OBVIOUS
<1>1. CASE UNCHANGED bhdVars
  <2>1. BhdUnits' /\ [Limits!Next]_Limits!sampledVars
    BY <1>1, UnitsKept DEF BhdInv, bhdVars
  <2>2. BhdQueueInv'
    BY <1>1 DEF BhdInv, BhdQueueInv, FromUsed, UnitsAsked, bhdVars
  <2> QED BY <1>1, <2>1, <2>2 DEF BhdStep, BhdInv, InSwitch, bhdVars
<1> QED BY <1>1, BhdPostStep, BhdAppStep DEF BhdNext

LEMMA BhdInvInit == BhdInit => BhdInv /\ Limits!Init
<1> SUFFICES ASSUME BhdInit PROVE BhdInv /\ Limits!Init
  OBVIOUS
<1> DEFINE o == [start_sampling |-> FALSE, current_sample_count |-> 0]
           c == NotConfigured(FALSE)
<1>1. /\ bhd_config = [u \in Units |-> c] /\ bhd_oper = [u \in Units |-> o] /\ bhd_timer = [u \in Units |-> FALSE]
      /\ bhd_running = [u \in Units |-> 0] /\ reports = [u \in Units |-> 0]
  BY DEF BhdInit
<1>2. c \in BhdConfig /\ ~c.configured /\ o \in BhdOper /\ o.current_sample_count = 0
  BY NoConfigTyped, BhdNumbers DEF BhdOper
<1>3. Limits!Init
  BY DEF BhdInit, Limits!Init, Sampling, Configured, NotConfigured
<1> HIDE DEF o, c
<1>4. BhdUnits
  BY <1>1, <1>2 DEF BhdUnits, GoodUnit, Samples
<1>5. bhd_queue = << >> /\ policy = NoPolicy /\ bhd_hw = {} /\ bhd_hook = FALSE
  BY DEF BhdInit
<1>6. BhdQueueInv
  BY <1>5, BhdNumbers DEF BhdQueueInv
<1>7. InSwitch(bhd_hw)
  BY <1>5, FS_EmptySet DEF InSwitch
<1> QED BY <1>3, <1>4, <1>5, <1>6, <1>7, NoPolicyTyped DEF BhdInv

\* With one unit and no fault, the switch and the plugin hold what the
\* application says is configured.
SwitchInv ==
  trouble = "none" => /\ Installed(bhd_config[Unit1], policy, bhd_hw)
                      /\ bhd_hook <=> bhd_config[Unit1].configured /\ bhd_config[Unit1].method = "agent"

LEMMA SwitchKept ==
  ASSUME SwitchInv, UNCHANGED <<trouble, policy, bhd_hw, bhd_hook>>,
         /\ bhd_config'[Unit1].configured = bhd_config[Unit1].configured
         /\ bhd_config'[Unit1].method = bhd_config[Unit1].method
  PROVE  SwitchInv'
  BY DEF SwitchInv, Installed, NothingInstalled, AgentInstalled, SflowInstalled

LEMMA SwitchAppStep ==
  ASSUME BhdInv, SwitchInv, NEW fault \in BhdInputs, BhdAppMain(fault), trouble = "none"
  PROVE  SwitchInv'
<1>0. fault = "none" /\ UnitsAsked = {Unit1}
  BY DEF BhdInputs, UnitsAsked
<1>1. /\ Installed(bhd_config[Unit1], policy, bhd_hw)
      /\ bhd_hook <=> bhd_config[Unit1].configured /\ bhd_config[Unit1].method = "agent"
  BY DEF SwitchInv
<1>2. bhd_config \in [Units -> BhdConfig] /\ Unit1 \in Units
  BY BhdNumbers DEF BhdInv, BhdUnits
<1>3. ASSUME NEW msg \in {"feature", "configure", "cancel", "get"}, BhdServing(msg)
      PROVE  M.unit = Unit1
  <2>1. FromUsed(bhd_queue[1]) /\ M = bhd_queue[1]
    <3>1. bhd_queue \in Seq(BhdMessage) /\ bhd_queue # << >> /\ \A i \in 1 .. Len(bhd_queue) : FromUsed(bhd_queue[i])
      BY <1>3 DEF BhdInv, BhdQueueInv, BhdServing
    <3>2. Len(bhd_queue) >= 1 /\ Len(bhd_queue) \in Nat /\ Head(bhd_queue) = bhd_queue[1]
      BY <3>1, TailFacts
    <3> QED BY <3>1, <3>2 DEF M
  <2>2. M.msg = msg
    BY <1>3 DEF BhdServing, M
  <2> QED BY <1>0, <2>1, <2>2 DEF FromUsed
<1>4. CASE \/ BhdFeatureUnchanged \/ ConfigureRefused \/ BhdFeatureGet \/ GetBlackHole \/ SflowSampleStatusGet
           \/ PeriodStart \/ EventReported(fault) \/ EventDropped(fault)
  BY <1>4, SwitchKept DEF BhdFeatureUnchanged, ConfigureRefused, BhdFeatureGet, GetBlackHole, SflowSampleStatusGet,
       BhdAnswerGet, PeriodStart, EventReported, EventDropped
<1>5. CASE BhdFeatureEnable
  <2>1. /\ bhd_config' = [bhd_config EXCEPT ![M.unit].enable = TRUE]
        /\ UNCHANGED <<trouble, policy, bhd_hw, bhd_hook>>
    BY <1>5 DEF BhdFeatureEnable
  <2>2. M.unit \in Units
    BY <1>2, <1>3, <1>5 DEF BhdFeatureEnable
  <2>3. /\ bhd_config'[Unit1].configured = bhd_config[Unit1].configured
        /\ bhd_config'[Unit1].method = bhd_config[Unit1].method
    BY <1>2, <2>1, <2>2 DEF BhdConfig
  <2> QED BY <2>1, <2>3, SwitchKept
<1>6. CancelBlackHole(policy, bhd_hw, Unit1, "none") = PolicyDone(NoPolicy, {})
  BY <1>1, CancelRemoves
<1>7. ASSUME NEW enable, bhd_config' = [bhd_config EXCEPT ![Unit1] = NotConfigured(enable)],
             policy' = NoPolicy, bhd_hw' = {}, bhd_hook' = FALSE
      PROVE  SwitchInv'
  <2>1. ~bhd_config'[Unit1].configured
    BY <1>2, <1>7 DEF NotConfigured
  <2> QED BY <1>7, <2>1 DEF SwitchInv, Installed, NothingInstalled
<1>8. CASE BhdFeatureDisable(fault)
  <2>1. M.unit = Unit1
    BY <1>3, <1>8 DEF BhdFeatureDisable
  <2>2. policy' = NoPolicy /\ bhd_hw' = {} /\ bhd_hook' = FALSE
        /\ bhd_config' = [bhd_config EXCEPT ![Unit1] = NotConfigured(FALSE)]
    BY <1>0, <1>6, <1>8, <2>1 DEF BhdFeatureDisable, PolicyDone
  <2> QED BY <1>7, <2>2
<1>9. CASE Cancel(fault)
  <2>1. M.unit = Unit1
    BY <1>3, <1>9 DEF Cancel
  <2>2. policy' = NoPolicy /\ bhd_hw' = {} /\ bhd_hook' = FALSE
        /\ bhd_config' = [bhd_config EXCEPT ![Unit1] = NotConfigured(TRUE)]
    BY <1>0, <1>6, <1>9, <2>1 DEF Cancel, PolicyDone
  <2> QED BY <1>7, <2>2
<1>10. CASE CancelRefused(fault)
  <2>1. M.unit = Unit1
    BY <1>3, <1>10 DEF CancelRefused
  <2>2. CancelBlackHole(policy, bhd_hw, M.unit, fault).rv = "success"
    BY <1>0, <1>6, <2>1 DEF PolicyDone
  <2>3. UNCHANGED <<trouble, policy, bhd_hw, bhd_hook, bhd_config>>
    BY <1>10, <2>2 DEF CancelRefused
  <2> QED BY <2>3, SwitchKept
<1>11. MayConfigure => /\ M.unit = Unit1 /\ NothingInstalled(policy, bhd_hw) /\ ~bhd_hook /\ M.arg \in SamplingCapabilities
                       /\ ~bhd_config[Unit1].configured
  BY <1>1, <1>3 DEF MayConfigure, Configured, Installed
<1> DEFINE made == PlatformConfigure(Unit1, M.arg, "none")
<1>12. MayConfigure => /\ made.rv = "failure" => NothingInstalled(made.policy, made.hw)
                       /\ made.rv = "success" /\ M.arg = "agent" => AgentInstalled(made.policy, made.hw)
                       /\ made.rv = "success" /\ M.arg = "sflow" => SflowInstalled(made.policy, made.hw)
  BY <1>11, ConfigureInstalls
<1> HIDE DEF made
<1>13. CASE ConfigureFails(fault)
  <2>1. NothingInstalled(policy', bhd_hw') /\ UNCHANGED <<bhd_hook, bhd_config>> /\ MayConfigure
    BY <1>0, <1>11, <1>12, <1>13 DEF ConfigureFails, made
  <2> QED BY <1>11, <2>1 DEF SwitchInv, Installed, NothingInstalled
<1>14. CASE ConfigureSflow(fault)
  <2>1. MayConfigure /\ M.arg = "sflow"
    BY <1>14 DEF ConfigureSflow
  <2>2. /\ SflowInstalled(policy', bhd_hw') /\ UNCHANGED bhd_hook
        /\ bhd_config' = [bhd_config EXCEPT ![Unit1] = [enable |-> TRUE, configured |-> TRUE, method |-> "sflow"]]
    BY <1>0, <1>11, <1>12, <1>14, <2>1 DEF ConfigureSflow, made
  <2>3. bhd_config'[Unit1].configured /\ bhd_config'[Unit1].method = "sflow"
    BY <1>2, <2>2
  <2> QED BY <1>11, <2>1, <2>2, <2>3 DEF SwitchInv, Installed, SflowInstalled
<1>15. CASE ConfigureUndone(fault)
  BY <1>0, <1>11, <1>15 DEF ConfigureUndone
<1>16. CASE ConfigureAgent(fault)
  <2>1. MayConfigure /\ M.arg = "agent"
    BY <1>16 DEF ConfigureAgent
  <2>2. /\ AgentInstalled(policy', bhd_hw') /\ bhd_hook' = TRUE
        /\ bhd_config' = [bhd_config EXCEPT ![Unit1] = [enable |-> TRUE, configured |-> TRUE, method |-> "agent"]]
    BY <1>0, <1>11, <1>12, <1>16, <2>1 DEF ConfigureAgent, made
  <2>3. bhd_config'[Unit1].configured /\ bhd_config'[Unit1].method = "agent"
    BY <1>2, <2>2
  <2> QED BY <2>2, <2>3 DEF SwitchInv, Installed, AgentInstalled
<1> QED BY <1>4, <1>5, <1>8, <1>9, <1>10, <1>13, <1>14, <1>15, <1>16 DEF BhdAppMain

LEMMA SwitchStep == BhdInv /\ SwitchInv /\ [BhdNext]_bhdVars => SwitchInv'
<1> SUFFICES ASSUME BhdInv, SwitchInv, [BhdNext]_bhdVars PROVE SwitchInv'
  OBVIOUS
<1>1. CASE UNCHANGED bhdVars
  BY <1>1, SwitchKept DEF bhdVars
<1>2. CASE \/ \E m \in BhdRequests : BhdAsk(m)
           \/ \E u \in Units : PeriodicSamplingCb(u)
           \/ \E u \in Units : BhdPktMuxCb(u)
  <2>1. UNCHANGED <<trouble, policy, bhd_hw, bhd_hook, bhd_config>>
    BY <1>2 DEF BhdAsk, PeriodicSamplingCb, BhdPktMuxCb
  <2> QED BY <2>1, SwitchKept
<1>3. ASSUME NEW fault \in BhdInputs, BhdAppMain(fault)
      PROVE  SwitchInv'
  <2>1. trouble' = trouble
    BY <1>3 DEF BhdAppMain, BhdFeatureUnchanged, BhdFeatureEnable, BhdFeatureDisable, ConfigureRefused, ConfigureFails,
       ConfigureSflow, ConfigureUndone, ConfigureAgent, BhdFeatureGet, GetBlackHole, SflowSampleStatusGet, BhdAnswerGet,
       CancelRefused, Cancel, PeriodStart, EventReported, EventDropped
  <2>2. CASE trouble = "none"
    BY <1>3, <2>2, SwitchAppStep
  <2>3. CASE trouble # "none"
    BY <2>1, <2>3 DEF SwitchInv
  <2> QED BY <2>2, <2>3
<1> QED BY <1>1, <1>2, <1>3 DEF BhdNext

LEMMA SwitchInit == BhdInit => SwitchInv
  BY BhdNumbers DEF BhdInit, SwitchInv, Installed, NothingInstalled, NotConfigured

\* What is installed is the groups of the sampling method, and no other.
LEMMA SwitchInvMatches ==
  ASSUME BhdInv, SwitchInv, SampledPacketsArrive
  PROVE  SwitchMatchesConfig
<1> SUFFICES ASSUME trouble = "none"
    PROVE  LET c == bhd_config[Unit1]
               stages == (IF c.configured THEN {"ingress"} ELSE {})
                         \cup (IF ~c.configured THEN {} ELSE IF c.method = "agent" THEN {"egress"} ELSE {"mirror"})
           IN /\ {h.stage : h \in bhd_hw} = stages /\ Cardinality(bhd_hw) = Cardinality(stages)
              /\ c.configured => c.enable
              /\ policy.ports <=> c.configured
  BY DEF SwitchMatchesConfig
<1> DEFINE c == bhd_config[Unit1]
<1>1. /\ Installed(c, policy, bhd_hw) /\ (bhd_hook <=> c.configured /\ c.method = "agent")
  BY DEF SwitchInv
<1>2. c.configured => c.enable
  BY BhdNumbers, UnitFields DEF BhdInv, GoodUnit
<1> HIDE DEF c
<1>3. \A a, b : a # b => Cardinality({a, b}) = 2
  <2> SUFFICES ASSUME NEW a, NEW b, a # b PROVE Cardinality({a, b}) = 2
    OBVIOUS
  <2>1. IsFiniteSet({a}) /\ Cardinality({a}) = 1
    BY FS_Singleton
  <2>2. Cardinality({a} \cup {b}) = 2
    BY <2>1, FS_AddElement
  <2>3. {a} \cup {b} = {a, b}
    OBVIOUS
  <2> QED BY <2>2, <2>3
<1>4. CASE ~c.configured
  <2>1. bhd_hw = {} /\ ~policy.ports /\ {h.stage : h \in bhd_hw} = {}
    BY <1>1, <1>4 DEF Installed, NothingInstalled, NoPolicy
  <2> QED BY <1>1, <1>2, <1>4, <2>1 DEF c
<1>5. CASE c.configured /\ c.method = "agent"
  <2>1. AgentInstalled(policy, bhd_hw)
    BY <1>1, <1>5 DEF Installed
  <2>2. PICK i, e \in BhdGroups :
          /\ bhd_hw = {InstalledAs("ingress", Unit1, "agent", i), InstalledAs("egress", Unit1, "agent", e)}
          /\ policy = Remembered(i, e, TRUE, "agent")
    BY <2>1 DEF AgentInstalled
  <2>3. {h.stage : h \in bhd_hw} = {"ingress", "egress"} /\ policy.ports
    BY <2>2 DEF InstalledAs, Remembered
  <2>4. Cardinality(bhd_hw) = 2 /\ Cardinality({"ingress", "egress"}) = 2
    <3>1. InstalledAs("ingress", Unit1, "agent", i) # InstalledAs("egress", Unit1, "agent", e)
      BY DEF InstalledAs
    <3> QED BY <1>3, <2>2, <3>1
  <2>5. {"ingress"} \cup {"egress"} = {"ingress", "egress"}
    OBVIOUS
  <2> QED BY <1>1, <1>2, <1>5, <2>3, <2>4, <2>5 DEF c
<1>6. CASE c.configured /\ c.method # "agent"
  <2>1. SflowInstalled(policy, bhd_hw)
    BY <1>1, <1>6 DEF Installed
  <2>2. PICK i, e \in BhdGroups :
          /\ bhd_hw = {InstalledAs("ingress", Unit1, "sflow", i), InstalledAs("mirror", Unit1, "sflow", e)}
          /\ policy = Remembered(i, Invalid, TRUE, "sflow")
    BY <2>1 DEF SflowInstalled
  <2>3. {h.stage : h \in bhd_hw} = {"ingress", "mirror"} /\ policy.ports
    BY <2>2 DEF InstalledAs, Remembered
  <2>4. Cardinality(bhd_hw) = 2 /\ Cardinality({"ingress", "mirror"}) = 2
    <3>1. InstalledAs("ingress", Unit1, "sflow", i) # InstalledAs("mirror", Unit1, "sflow", e)
      BY DEF InstalledAs
    <3> QED BY <1>3, <2>2, <3>1
  <2>5. {"ingress"} \cup {"mirror"} = {"ingress", "mirror"}
    OBVIOUS
  <2> QED BY <1>1, <1>2, <1>6, <2>3, <2>4, <2>5 DEF c
<1> QED BY <1>4, <1>5, <1>6

-----------------------------------------------------------------------------
(* With one unit in use, whichever calls fail: what is sampled arrives.     *)

\* The ingress group that the plugin remembers copies the unit's packets, and
\* what else a cancellation looks for is in the switch.
InForce(p, hw) ==
  /\ p.ports /\ p.sampling_type = "agent"
  /\ p.egress = Invalid \/ \E h \in hw : h.id = p.egress
  /\ \E h \in hw : h.stage = "ingress" /\ h.asic = Unit1 /\ h.method = "agent" /\ h.id = p.ingress

LEMMA AgentPolicyInForce ==
  ASSUME NEW p \in Policies, NEW hw, InSwitch(hw), RoomFor(hw, 2), NEW fault
  PROVE  LET made == InHw(hw, "ingress", Unit1, "agent")
             installed == [p EXCEPT !.ingress = NewIn(hw, made), !.ports = TRUE, !.sampling_type = "agent"]
             result == BhdEgressPolicy(installed, made, Unit1, fault)
         IN (p.egress = Invalid \/ result.rv = "success") => InForce(result.policy, result.hw)
<1> DEFINE made == InHw(hw, "ingress", Unit1, "agent")
           installed == [p EXCEPT !.ingress = NewIn(hw, made), !.ports = TRUE, !.sampling_type = "agent"]
           both == InHw(made, "egress", Unit1, "agent")
           result == BhdEgressPolicy(installed, made, Unit1, fault)
<1>1. PICK i \in BhdGroups : /\ made = hw \cup {InstalledAs("ingress", Unit1, "agent", i)} /\ NewIn(hw, made) = i
                             /\ InSwitch(made) /\ RoomFor(made, 1)
  <2>1. /\ "ingress" \in {"ingress", "egress", "mirror"} /\ "agent" \in SamplingMethods /\ Unit1 \in Units
        /\ 2 \in Nat /\ 2 >= 1
    BY BhdNumbers DEF SamplingMethods
  <2> QED BY <2>1, NewGroup
<1>2. installed = [p EXCEPT !.ingress = i, !.ports = TRUE, !.sampling_type = "agent"]
  BY <1>1
<1>3. installed \in Policies /\ installed.ingress = i /\ installed.ports /\ installed.sampling_type = "agent"
      /\ installed.egress = p.egress
  BY <1>2 DEF Policies
<1> DEFINE ingress == InstalledAs("ingress", Unit1, "agent", i)
<1>4. ingress \in made /\ ingress.stage = "ingress" /\ ingress.asic = Unit1 /\ ingress.method = "agent" /\ ingress.id = i
  BY <1>1 DEF InstalledAs
<1> HIDE DEF made, installed, ingress
<1>5. PICK e \in BhdGroups : both = made \cup {InstalledAs("egress", Unit1, "agent", e)} /\ NewIn(made, both) = e
  <2>1. /\ "egress" \in {"ingress", "egress", "mirror"} /\ "agent" \in SamplingMethods /\ Unit1 \in Units
        /\ 1 \in Nat /\ 1 >= 1
    BY BhdNumbers DEF SamplingMethods
  <2> QED BY <1>1, <2>1, NewGroup
<1>6. ingress \in both /\ \E h \in both : h.id = e
  <2>1. InstalledAs("egress", Unit1, "agent", e).id = e
    BY DEF InstalledAs
  <2> QED BY <1>4, <1>5, <2>1
<1>7. result = IF fault = "egress" THEN PolicyFailed(installed, both)
               ELSE PolicyDone([installed EXCEPT !.egress = e], both)
  BY <1>5 DEF BhdEgressPolicy
<1> HIDE DEF both, result
<1>8. CASE fault = "egress"
  <2>1. result.rv = "failure" /\ result.policy = installed /\ result.hw = both
    BY <1>7, <1>8 DEF PolicyFailed
  <2>2. p.egress = Invalid => InForce(installed, both)
    BY <1>3, <1>4, <1>6 DEF InForce
  <2> QED BY <2>1, <2>2 DEF result, installed, made
<1>9. CASE fault # "egress"
  <2> DEFINE policed == [installed EXCEPT !.egress = e]
  <2>1. /\ policed.ingress = i /\ policed.ports /\ policed.sampling_type = "agent" /\ policed.egress = e
    BY <1>3 DEF Policies
  <2> HIDE DEF policed
  <2>2. InForce(policed, both)
    BY <1>4, <1>6, <2>1 DEF InForce
  <2>3. result.policy = policed /\ result.hw = both
    BY <1>7, <1>9 DEF PolicyDone, policed
  <2> QED BY <2>2, <2>3 DEF result, installed, made
<1> QED BY <1>8, <1>9

\* A configuration for the agent that succeeds is in force, on any chip.
LEMMA ConfiguredInForce ==
  ASSUME policy \in Policies, InSwitch(bhd_hw), NEW fault, PlatformConfigure(Unit1, "agent", fault).rv = "success"
  PROVE  InForce(PlatformConfigure(Unit1, "agent", fault).policy, PlatformConfigure(Unit1, "agent", fault).hw)
<1> DEFINE made == InHw(bhd_hw, "ingress", Unit1, "agent")
           installed(p) == [p EXCEPT !.ingress = NewIn(bhd_hw, made), !.ports = TRUE, !.sampling_type = "agent"]
           egress(p) == BhdEgressPolicy(installed(p), made, Unit1, fault)
           result == PlatformConfigure(Unit1, "agent", fault)
<1>1. \A p \in Policies : RoomFor(bhd_hw, 2) /\ (p.egress = Invalid \/ egress(p).rv = "success")
                            => InForce(egress(p).policy, egress(p).hw)
  BY AgentPolicyInForce
<1>2. \A p, hw : PolicyFailed(p, hw).rv # "success"
  BY DEF PolicyFailed
<1>3. CASE chip = "qumran"
  <2>1. result = IF fault \in {"group", "rule"} \/ ~RoomFor(bhd_hw, 2) THEN PolicyFailed(policy, bhd_hw)
                 ELSE IF fault = "stat" THEN PolicyFailed(policy, made) ELSE egress(policy)
    BY <1>3 DEF PlatformConfigure, ConfigBlackHoleDnx
  <2> HIDE DEF egress, made, result
  <2>2. RoomFor(bhd_hw, 2) /\ result = egress(policy)
    BY <1>2, <2>1 DEF result
  <2> QED BY <1>1, <2>2 DEF result
<1>4. CASE chip # "qumran"
  <2>1. result = IF fault = "group" \/ ~RoomFor(bhd_hw, 2) THEN PolicyFailed(NoPolicy, bhd_hw)
                 ELSE IF fault = "rule" THEN PolicyFailed(NoPolicy, made)
                 ELSE [egress(NoPolicy) EXCEPT !.rv = "success"]
    BY <1>4 DEF PlatformConfigure, ConfigBlackHole
  <2>2. NoPolicy.egress = Invalid
    BY DEF NoPolicy
  <2>3. /\ [egress(NoPolicy) EXCEPT !.rv = "success"].policy = egress(NoPolicy).policy
        /\ [egress(NoPolicy) EXCEPT !.rv = "success"].hw = egress(NoPolicy).hw
    BY DEF BhdEgressPolicy, PolicyFailed, PolicyDone
  <2> HIDE DEF egress, made, result
  <2>4. RoomFor(bhd_hw, 2) /\ result = [egress(NoPolicy) EXCEPT !.rv = "success"]
    BY <1>2, <2>1 DEF result
  <2> QED BY <1>1, <2>2, <2>3, <2>4, NoPolicyTyped DEF result
<1> QED BY <1>3, <1>4

\* A cancellation of what is in force removes it, or it fails before it has
\* touched anything.
LEMMA CancelInForce ==
  ASSUME NEW p, NEW hw, InForce(p, hw), NEW asic, NEW fault, CancelBlackHole(p, hw, asic, fault).rv = "failure"
  PROVE  CancelBlackHole(p, hw, asic, fault) = PolicyFailed(p, hw)
<1>1. p.sampling_type # "sflow" /\ (\E h \in hw : h.id = p.ingress) /\ (p.egress = Invalid \/ \E h \in hw : h.id = p.egress)
  BY DEF InForce
<1>2. \A q, w : PolicyDone(q, w).rv # "failure"
  BY DEF PolicyDone
<1> QED BY <1>1, <1>2 DEF CancelBlackHole

ArrivalInv ==
  trouble # "units" =>
    LET c == bhd_config[Unit1]
    IN /\ bhd_hook <=> c.configured /\ c.method = "agent"
       /\ c.configured /\ c.method = "agent" => InForce(policy, bhd_hw)

LEMMA ArrivalKept ==
  ASSUME ArrivalInv, UNCHANGED <<trouble, policy, bhd_hw, bhd_hook>>,
         /\ bhd_config'[Unit1].configured = bhd_config[Unit1].configured
         /\ bhd_config'[Unit1].method = bhd_config[Unit1].method
  PROVE  ArrivalInv'
  BY DEF ArrivalInv, InForce

LEMMA ArrivalAppStep ==
  ASSUME BhdInv, ArrivalInv, NEW fault \in BhdInputs, BhdAppMain(fault), trouble # "units", trouble' = trouble
  PROVE  ArrivalInv'
<1>1. UnitsAsked = {Unit1} /\ policy \in Policies /\ InSwitch(bhd_hw)
  BY DEF UnitsAsked, BhdInv
<1> DEFINE c == bhd_config[Unit1]
<1>2. /\ bhd_hook <=> c.configured /\ c.method = "agent"
      /\ c.configured /\ c.method = "agent" => InForce(policy, bhd_hw)
  BY DEF ArrivalInv
<1>3. bhd_config \in [Units -> BhdConfig] /\ Unit1 \in Units /\ (c.configured => c.enable)
  BY BhdNumbers, UnitFields DEF BhdInv, BhdUnits, GoodUnit
<1>4. ASSUME NEW msg \in {"feature", "configure", "cancel", "get"}, BhdServing(msg)
      PROVE  M.unit = Unit1
  <2>1. FromUsed(M) /\ M.msg = msg
    BY <1>4, BhdTakes DEF BhdServing, M, BhdInv
  <2> QED BY <1>1, <2>1 DEF FromUsed
<1>5. CASE \/ BhdFeatureUnchanged \/ ConfigureRefused \/ BhdFeatureGet \/ GetBlackHole \/ SflowSampleStatusGet
           \/ PeriodStart \/ EventReported(fault) \/ EventDropped(fault)
  BY <1>5, ArrivalKept DEF BhdFeatureUnchanged, ConfigureRefused, BhdFeatureGet, GetBlackHole, SflowSampleStatusGet,
       BhdAnswerGet, PeriodStart, EventReported, EventDropped
<1>6. CASE BhdFeatureEnable
  <2>1. /\ bhd_config' = [bhd_config EXCEPT ![M.unit].enable = TRUE]
        /\ UNCHANGED <<trouble, policy, bhd_hw, bhd_hook>>
    BY <1>6 DEF BhdFeatureEnable
  <2>2. M.unit \in Units
    BY <1>3, <1>4, <1>6 DEF BhdFeatureEnable
  <2>3. /\ bhd_config'[Unit1].configured = bhd_config[Unit1].configured
        /\ bhd_config'[Unit1].method = bhd_config[Unit1].method
    BY <1>3, <2>1, <2>2 DEF BhdConfig
  <2> QED BY <2>1, <2>3, ArrivalKept
<1>7. ASSUME ~bhd_hook', ~(bhd_config'[Unit1].configured /\ bhd_config'[Unit1].method = "agent")
      PROVE  ArrivalInv'
  BY <1>7 DEF ArrivalInv
<1>8. CASE BhdFeatureDisable(fault) \/ Cancel(fault)
  <2>1. M.unit = Unit1 /\ ~bhd_hook'
    BY <1>4, <1>8 DEF BhdFeatureDisable, Cancel
  <2>2. \E e \in BOOLEAN : bhd_config' = [bhd_config EXCEPT ![Unit1] = NotConfigured(e)]
    BY <1>8, <2>1 DEF BhdFeatureDisable, Cancel
  <2>3. ~bhd_config'[Unit1].configured
    BY <1>3, <2>2 DEF NotConfigured
  <2> QED BY <1>7, <2>1, <2>3
<1>9. CASE CancelRefused(fault)
  <2> DEFINE cancelled == CancelBlackHole(policy, bhd_hw, Unit1, fault)
             tried == Enabled(Unit1) /\ Configured(Unit1)
  <2>1. M.unit = Unit1 /\ UNCHANGED <<bhd_hook, bhd_config>>
    BY <1>4, <1>9 DEF CancelRefused
  <2>2. /\ tried => cancelled.rv = "failure"
        /\ policy' = IF tried THEN cancelled.policy ELSE policy
        /\ bhd_hw' = IF tried THEN cancelled.hw ELSE bhd_hw
    BY <1>9, <2>1 DEF CancelRefused
  <2>3. CASE c.configured /\ c.method = "agent"
    <3>1. InForce(policy, bhd_hw) /\ tried
      BY <1>2, <1>3, <2>3 DEF Enabled, Configured
    <3>2. cancelled = PolicyFailed(policy, bhd_hw)
      BY <2>2, <3>1, CancelInForce
    <3>3. policy' = policy /\ bhd_hw' = bhd_hw
      BY <2>2, <3>1, <3>2 DEF PolicyFailed
    <3> QED BY <2>1, <3>3, ArrivalKept
  <2>4. CASE ~(c.configured /\ c.method = "agent")
    BY <1>2, <1>7, <2>1, <2>4
  <2> QED BY <2>3, <2>4
<1>10. MayConfigure => M.unit = Unit1 /\ ~c.configured /\ ~bhd_hook
  BY <1>2, <1>4 DEF MayConfigure, Configured
<1>11. CASE ConfigureFails(fault)
  BY <1>7, <1>10, <1>11 DEF ConfigureFails
<1>12. CASE ConfigureSflow(fault)
  <2>1. MayConfigure /\ UNCHANGED bhd_hook
        /\ bhd_config' = [bhd_config EXCEPT ![M.unit] = [enable |-> TRUE, configured |-> TRUE, method |-> "sflow"]]
    BY <1>12 DEF ConfigureSflow
  <2>2. bhd_config'[Unit1].method = "sflow"
    BY <1>3, <1>10, <2>1
  <2> QED BY <1>7, <1>10, <2>1, <2>2
<1>13. CASE ConfigureUndone(fault)
  <2>1. MayConfigure /\ UNCHANGED bhd_hook /\ bhd_config' = [bhd_config EXCEPT ![M.unit].method = "agent"]
    BY <1>13 DEF ConfigureUndone
  <2>2. ~bhd_config'[Unit1].configured
    BY <1>3, <1>10, <2>1 DEF BhdConfig
  <2> QED BY <1>7, <1>10, <2>1, <2>2
<1>14. CASE ConfigureAgent(fault)
  <2> DEFINE made == PlatformConfigure(Unit1, "agent", fault)
  <2>1. MayConfigure /\ bhd_hook' = TRUE
        /\ bhd_config' = [bhd_config EXCEPT ![M.unit] = [enable |-> TRUE, configured |-> TRUE, method |-> "agent"]]
    BY <1>14 DEF ConfigureAgent
  <2>2. made.rv = "success" /\ policy' = made.policy /\ bhd_hw' = made.hw
    BY <1>10, <1>14, <2>1 DEF ConfigureAgent
  <2>3. InForce(made.policy, made.hw)
    BY <1>1, <2>2, ConfiguredInForce
  <2> HIDE DEF made
  <2>4. InForce(policy, bhd_hw)'
    BY <2>2, <2>3 DEF InForce
  <2>5. bhd_config'[Unit1].configured /\ bhd_config'[Unit1].method = "agent"
    BY <1>3, <1>10, <2>1
  <2> QED BY <2>1, <2>4, <2>5 DEF ArrivalInv
<1> QED BY <1>5, <1>6, <1>8, <1>9, <1>11, <1>12, <1>13, <1>14 DEF BhdAppMain

LEMMA ArrivalStep == BhdInv /\ ArrivalInv /\ [BhdNext]_bhdVars => ArrivalInv'
<1> SUFFICES ASSUME BhdInv, ArrivalInv, [BhdNext]_bhdVars PROVE ArrivalInv'
  OBVIOUS
<1>1. CASE UNCHANGED bhdVars
  BY <1>1, ArrivalKept DEF bhdVars
<1>2. CASE \/ \E m \in BhdRequests : BhdAsk(m)
           \/ \E u \in Units : PeriodicSamplingCb(u)
           \/ \E u \in Units : BhdPktMuxCb(u)
  <2>1. UNCHANGED <<trouble, policy, bhd_hw, bhd_hook, bhd_config>>
    BY <1>2 DEF BhdAsk, PeriodicSamplingCb, BhdPktMuxCb
  <2> QED BY <2>1, ArrivalKept
<1>3. ASSUME NEW fault \in BhdInputs, BhdAppMain(fault)
      PROVE  ArrivalInv'
  <2>1. trouble' = trouble
    BY <1>3 DEF BhdAppMain, BhdFeatureUnchanged, BhdFeatureEnable, BhdFeatureDisable, ConfigureRefused, ConfigureFails,
       ConfigureSflow, ConfigureUndone, ConfigureAgent, BhdFeatureGet, GetBlackHole, SflowSampleStatusGet, BhdAnswerGet,
       CancelRefused, Cancel, PeriodStart, EventReported, EventDropped
  <2>2. CASE trouble # "units"
    BY <1>3, <2>1, <2>2, ArrivalAppStep
  <2>3. CASE trouble = "units"
    BY <2>1, <2>3 DEF ArrivalInv
  <2> QED BY <2>2, <2>3
<1> QED BY <1>1, <1>2, <1>3 DEF BhdNext

LEMMA ArrivalInit == BhdInit => ArrivalInv
  BY BhdNumbers DEF BhdInit, ArrivalInv, NotConfigured

LEMMA ArrivalInvMatches ==
  ASSUME BhdInv, ArrivalInv
  PROVE  SampledPacketsArrive
<1>1. bhd_config[Unit1].configured => bhd_config[Unit1].enable
  BY BhdNumbers, UnitFields DEF BhdInv, GoodUnit
<1>2. Sampling(Unit1) <=> bhd_config[Unit1].configured /\ bhd_config[Unit1].method = "agent"
  BY <1>1 DEF Sampling, Enabled, Configured
<1> QED BY <1>2 DEF ArrivalInv, SampledPacketsArrive, InForce

-----------------------------------------------------------------------------
(* Black hole detection, for any behaviour of its specification.            *)

LEMMA BhdInvHolds == BhdSpec => []BhdInv
<1>1. BhdInv /\ [BhdNext]_bhdVars => BhdInv'
  BY BhdInvStep DEF BhdStep
<1> QED BY <1>1, BhdInvInit, PTL DEF BhdSpec

\* Types: a unit never reports more packets than it counts, nor counts more
\* than a window holds (bhd_process_black_hole_event), and the plugin remembers
\* groups of the switch (sbplugin_bhd_config_init).
THEOREM BhdTypeCorrect == BhdSpec => []BhdTypeOK
<1>1. ASSUME BhdInv PROVE BhdTypeOK
  <2>1. BhdUnits /\ BhdQueueInv /\ policy \in Policies /\ bhd_hook \in BOOLEAN
    BY <1>1 DEF BhdInv
  <2>2. ASSUME NEW u \in Units PROVE reports[u] \in 0..SampleCount
    <3> DEFINE told == reports[u]
               count == bhd_oper[u].current_sample_count
    <3>1. told \in Nat /\ count \in 0..SampleCount /\ told <= count
      BY <2>1, UnitFields DEF GoodUnit, BhdOper
    <3> HIDE DEF told, count
    <3>2. told \in 0..SampleCount
      BY <3>1, BhdNumbers
    <3> QED BY <3>2 DEF told
  <2>3. reports \in [Units -> 0..SampleCount]
    BY <2>1, <2>2 DEF BhdUnits
  <2> QED BY <2>1, <2>3 DEF BhdTypeOK, BhdUnits, BhdConfig, BhdOper, BhdQueueInv, Policies
<1> QED BY <1>1, BhdInvHolds, PTL

\* A unit's sampling timer runs exactly while a black hole is sampled by the
\* agent on it, whichever call failed (bhd_periodic_sampling_timer_add and
\* bhd_periodic_sampling_timer_delete).
THEOREM TimersSample == BhdSpec => []TimerWhileSampling
<1>1. ASSUME BhdInv PROVE TimerWhileSampling
  BY <1>1, UnitFields DEF BhdInv, GoodUnit, TimerWhileSampling, Samples, Sampling, Enabled, Configured
<1> QED BY <1>1, BhdInvHolds, PTL

\* Black hole detection implements SampledReports: events are reported of units
\* that sample, SampleCount of them per period at most
\* (bhd_process_black_hole_event, bhd_start_time_period).
THEOREM BlackHoleLimited == BhdSpec => ReportsLimited
<1>1. BhdInv /\ [BhdNext]_bhdVars => [Limits!Next]_Limits!sampledVars
  BY BhdInvStep DEF BhdStep
<1> QED BY <1>1, BhdInvInit, BhdInvHolds, PTL DEF BhdSpec, ReportsLimited, Limits!Spec

LEMMA ArrivalHolds == BhdSpec => []ArrivalInv
<1>1. BhdInv /\ ArrivalInv /\ [BhdNext]_bhdVars => ArrivalInv'
  BY ArrivalStep
<1> QED BY <1>1, ArrivalInit, BhdInvHolds, PTL DEF BhdSpec

\* With one unit in use, whichever calls fail: while a black hole is sampled by
\* the agent the switch copies its packets, the plugin recognises them and the
\* hook is there, and otherwise there is no hook (bhd_configure_black_hole,
\* bhd_cancel_black_hole).
THEOREM WhatIsSampledArrives == BhdSpec => []SampledPacketsArrive
<1>1. BhdInv /\ ArrivalInv => SampledPacketsArrive
  BY ArrivalInvMatches
<1> QED BY <1>1, ArrivalHolds, BhdInvHolds, PTL

\* The same and, with one unit and no failing call, the switch has the groups
\* of the sampling method of the configured black hole and no other, and the
\* plugin remembers them (sbplugin_common_bhd_config_black_hole and
\* _cancel_black_hole).
THEOREM SwitchHasTheBlackHole == BhdSpec => []SwitchMatchesConfig
<1>1. BhdInv /\ SwitchInv /\ [BhdNext]_bhdVars => SwitchInv'
  BY SwitchStep
<1>2. BhdInv /\ SwitchInv /\ SampledPacketsArrive => SwitchMatchesConfig
  BY SwitchInvMatches
<1> QED BY <1>1, <1>2, SwitchInit, BhdInvHolds, WhatIsSampledArrives, PTL DEF BhdSpec

-----------------------------------------------------------------------------
(* The instance that TLC checks runs one part at a time: each part's        *)
(* behaviours are those of its own specification.                           *)

LEMMA Parts == MCSpec => PktMuxSpec /\ PtSpec /\ BhdSpec
<1>1. MCInit => PktMuxInit /\ PtInit /\ BhdInit
  BY DEF MCInit
<1>2. [MCNext]_appsVars => [PktMuxNext]_muxVars /\ [PtNext]_ptVars /\ [BhdNext]_bhdVars
  BY DEF MCNext, MuxRuns, PtRuns, BhdRuns, appsVars
<1> QED BY <1>1, <1>2, PTL DEF MCSpec, PktMuxSpec, PtSpec, BhdSpec

\* The types of the three parts.
THEOREM AppsTypeCorrect == MCSpec => []AppsTypeOK
<1>1. PktMuxTypeOK /\ PtTypeOK /\ BhdTypeOK => AppsTypeOK
  BY DEF AppsTypeOK
<1> QED BY <1>1, Parts, MuxTypeCorrect, PtTypeCorrect, BhdTypeCorrect, PTL

\* Whichever calls failed on the way, a timer of packet trace serves the profile
\* of its slot and one of black hole detection a unit that samples.
THEOREM TimersServeHolds == MCSpec => []TimersServe
<1>1. TimersServeProfiles /\ TimerWhileSampling => TimersServe
  BY DEF TimersServe
<1> QED BY <1>1, Parts, TimersServeTheirProfiles, TimersSample, PTL

\* Whichever call failed, what packet trace's table promises is in the switch,
\* whatever clients ask, and with one unit in use what a black hole samples
\* arrives.  Where no call fails, and of packet trace with careful clients, the
\* switch has nothing besides; for this last part the rule map and the groups
\* have room for every profile (sbplugin_common_packet_trace.h:40).
THEOREM SwitchInStepHolds ==
  ASSUME RoomForProfiles
  PROVE  MCSpec => []SwitchInStep
<1>1. RulesReachRequests /\ SwitchMatchesConfig => SwitchInStep
  BY DEF SwitchInStep
<1>2. PtSpec => []RulesReachRequests
  BY RulesReachTheirRequests
<1> QED BY <1>1, <1>2, Parts, SwitchHasTheBlackHole, PTL

\* Packet trace and black hole detection both implement SampledReports.
THEOREM ReportsWithinLimitsHold == MCSpec => ReportsWithinLimits
  BY Parts, PacketTraceLimited, BlackHoleLimited, PTL DEF ReportsWithinLimits
=============================================================================
