----------------------------- MODULE BstDataProofs -----------------------------
(***************************************************************************)
(* Proofs about the data of the BST application: the records its reports   *)
(* are made of, for every set of counters, every range of values and every *)
(* combination of disturbances, and the periodic requests for drop         *)
(* counters, for any ids, any number of records and any queue.             *)
(***************************************************************************)
EXTENDS BstReports, BstDropCounters, ProofLemmas

(***************************************************************************)
(* Reports.                                                                *)
(*                                                                         *)
(* RecordsDistinct with the types is inductive: a rotation permutes the    *)
(* pointers.  PeriodicInSync needs the strengthening Agree: while nothing  *)
(* has disturbed the periodic reports, the collector knows exactly the     *)
(* active record, which is the one the next report is compared with.       *)
(***************************************************************************)
RecordsInv == TypeOK /\ RecordsDistinct

-----------------------------------------------------------------------------
LEMMA CollectedType ==
  ASSUME TypeOK, NEW ok \in BOOLEAN, NEW now \in Collected(ok)
  PROVE  now \in Snapshot /\ (ok => now = asic)
<1>1. CASE ok
  BY <1>1 DEF TypeOK, Collected
<1>2. CASE ~ok
  <2>1. PICK got \in SUBSET Counters :
               now = [c \in Counters |-> IF c \in got THEN asic[c] ELSE 0]
    BY <1>2 DEF Collected
  <2>2. asic \in [Counters -> Values] /\ 0 \in Values
    BY ReportsAssumption DEF TypeOK, Snapshot, Values
  <2>3. now \in [Counters -> Values]
    BY <2>1, <2>2
  <2> QED BY <1>2, <2>3 DEF Snapshot
<1> QED BY <1>1, <1>2

LEMMA OutcomesType == Outcomes \subseteq BOOLEAN /\ Arrivals \subseteq BOOLEAN
  BY DEF Outcomes, Arrivals

LEMMA ZeroType == Zero \in Snapshot
  BY ReportsAssumption DEF Zero, Snapshot, Values

\* A rotation makes the record just written the active one.
LEMMA RotatedPermutes ==
  ASSUME RecordsInv, records' = Rotated
  PROVE  /\ records' \in [current : Records, active : Records, backup : Records]
         /\ RecordsDistinct'
         /\ records'.active = records.current
         /\ records'.backup = records.active
  BY DEF RecordsInv, TypeOK, RecordsDistinct, Rotated

\* What every report does to the records, and to a collector that gets it.
LEMMA ReportType ==
  ASSUME RecordsInv, NEW now \in Snapshot,
         memory' = [memory EXCEPT ![records.current] = now],
         records' = Rotated
  PROVE  /\ memory' \in [Records -> Snapshot]
         /\ RecordsDistinct'
         /\ records' \in [current : Records, active : Records, backup : Records]
         /\ memory'[records'.active] = now
         /\ \A included : Received(included) => collector' \in Snapshot
<1>1. memory \in [Records -> Snapshot] /\ records.current \in Records
  BY DEF RecordsInv, TypeOK
<1>2. memory' \in [Records -> Snapshot] /\ memory'[records.current] = now
  BY <1>1
<1>3. /\ records' \in [current : Records, active : Records, backup : Records]
      /\ RecordsDistinct'
      /\ records'.active = records.current
  BY RotatedPermutes
<1>4. ASSUME NEW included, Received(included)
      PROVE  collector' \in Snapshot
  <2>1. collector \in [Counters -> Values] /\ now \in [Counters -> Values]
    BY DEF RecordsInv, TypeOK, Snapshot
  <2>2. collector' = [c \in Counters |-> IF c \in included THEN now[c]
                                                          ELSE collector[c]]
    BY <1>2, <1>3, <1>4 DEF Received
  <2> QED BY <2>1, <2>2 DEF Snapshot
<1> QED BY <1>2, <1>3, <1>4

-----------------------------------------------------------------------------
LEMMA InitInv == Init => RecordsInv
<1> SUFFICES ASSUME Init PROVE RecordsInv
  OBVIOUS
<1>1. asic \in Snapshot /\ collector \in Snapshot
      /\ memory \in [Records -> Snapshot]
  BY ZeroType DEF Init
<1>2. records \in [current : Records, active : Records, backup : Records]
      /\ RecordsDistinct
  BY DEF Init, Records, RecordsDistinct
<1>3. config \in [incremental : BOOLEAN, track : SUBSET Counters]
  BY DEF Init
<1>4. arrived \in BOOLEAN /\ undisturbed \in BOOLEAN
  BY DEF Init
<1> QED BY <1>1, <1>2, <1>3, <1>4 DEF RecordsInv, TypeOK

LEMMA StepInv == RecordsInv /\ [Next]_vars => RecordsInv'
<1> SUFFICES ASSUME RecordsInv, [Next]_vars PROVE RecordsInv'
  OBVIOUS
<1>t. /\ asic \in Snapshot
      /\ memory \in [Records -> Snapshot]
      /\ records \in [current : Records, active : Records, backup : Records]
      /\ config \in [incremental : BOOLEAN, track : SUBSET Counters]
      /\ collector \in Snapshot
      /\ undisturbed \in BOOLEAN
      /\ RecordsDistinct
  BY DEF RecordsInv, TypeOK
<1>1. CASE CounterChanges
  <2>1. asic' \in Snapshot
    BY <1>1, <1>t DEF CounterChanges, Snapshot
  <2>2. arrived' \in BOOLEAN
        /\ UNCHANGED <<memory, records, config, collector, undisturbed>>
    BY <1>1 DEF CounterChanges
  <2> QED BY <1>t, <2>1, <2>2 DEF RecordsInv, TypeOK, RecordsDistinct
<1>2. CASE ConfigureFeature
  <2>1. config' \in [incremental : BOOLEAN, track : SUBSET Counters]
    BY <1>2, <1>t DEF ConfigureFeature
  <2>2. arrived' \in BOOLEAN /\ undisturbed' \in BOOLEAN
        /\ UNCHANGED <<asic, memory, records, collector>>
    BY <1>2, <1>t DEF ConfigureFeature
  <2> QED BY <1>t, <2>1, <2>2 DEF RecordsInv, TypeOK, RecordsDistinct
<1>3. CASE ConfigureTracking
  <2>1. config' \in [incremental : BOOLEAN, track : SUBSET Counters]
    BY <1>3, <1>t DEF ConfigureTracking
  <2>2. arrived' \in BOOLEAN /\ undisturbed' \in BOOLEAN
        /\ UNCHANGED <<asic, memory, records, collector>>
    BY <1>3 DEF ConfigureTracking
  <2> QED BY <1>t, <2>1, <2>2 DEF RecordsInv, TypeOK, RecordsDistinct
<1>4. CASE ClearStats
  BY <1>4, <1>t, ZeroType DEF ClearStats, RecordsInv, TypeOK, RecordsDistinct
<1>5. CASE PeriodicReport
  <2>1. PICK ok \in Outcomes : \E now \in Collected(ok) :
          memory' = [memory EXCEPT ![records.current] = now]
    BY <1>5 DEF PeriodicReport
  <2>2. PICK now \in Collected(ok) :
          memory' = [memory EXCEPT ![records.current] = now]
    BY <2>1
  <2>3. ok \in BOOLEAN /\ now \in Snapshot
    BY <2>2, OutcomesType, CollectedType DEF RecordsInv
  <2>4. records' = Rotated /\ UNCHANGED <<asic, config>>
    BY <1>5 DEF PeriodicReport
  <2>5. UNCHANGED collector \/ \E included : Received(included)
    BY <1>5 DEF PeriodicReport
  <2>6. /\ memory' \in [Records -> Snapshot] /\ RecordsDistinct'
        /\ records' \in [current : Records, active : Records, backup : Records]
        /\ collector' \in Snapshot
    BY <1>t, <2>2, <2>3, <2>4, <2>5, ReportType
  <2>7. arrived' \in BOOLEAN /\ undisturbed' \in BOOLEAN
    BY <1>5, <1>t, OutcomesType DEF PeriodicReport
  <2> QED BY <1>t, <2>4, <2>6, <2>7 DEF RecordsInv, TypeOK
<1>6. CASE TriggerReport
  <2>1. PICK ok \in Outcomes : \E now \in Collected(ok) :
          memory' = [memory EXCEPT ![records.current] = now]
    BY <1>6 DEF TriggerReport
  <2>2. PICK now \in Collected(ok) :
          memory' = [memory EXCEPT ![records.current] = now]
    BY <2>1
  <2>3. ok \in BOOLEAN /\ now \in Snapshot
    BY <2>2, OutcomesType, CollectedType DEF RecordsInv
  <2>4. records' = Rotated /\ UNCHANGED <<asic, config>>
    BY <1>6 DEF TriggerReport
  <2>5. UNCHANGED collector \/ \E included : Received(included)
    BY <1>6 DEF TriggerReport
  <2>6. /\ memory' \in [Records -> Snapshot] /\ RecordsDistinct'
        /\ records' \in [current : Records, active : Records, backup : Records]
        /\ collector' \in Snapshot
    BY <1>t, <2>2, <2>3, <2>4, <2>5, ReportType
  <2>7. arrived' \in BOOLEAN /\ undisturbed' \in BOOLEAN
    BY <1>6, <1>t, OutcomesType DEF TriggerReport
  <2> QED BY <1>t, <2>4, <2>6, <2>7 DEF RecordsInv, TypeOK
<1>7. CASE GetReport
  <2>1. PICK ok \in Outcomes : \E now \in Collected(ok) :
          memory' = [memory EXCEPT ![records.current] = now]
    BY <1>7 DEF GetReport
  <2>2. PICK now \in Collected(ok) :
          memory' = [memory EXCEPT ![records.current] = now]
    BY <2>1
  <2>3. ok \in BOOLEAN /\ now \in Snapshot
    BY <2>2, OutcomesType, CollectedType DEF RecordsInv
  <2>4. records' = Rotated /\ UNCHANGED <<asic, config>>
    BY <1>7 DEF GetReport
  <2>5. UNCHANGED collector \/ \E included : Received(included)
    BY <1>7 DEF GetReport
  <2>6. /\ memory' \in [Records -> Snapshot] /\ RecordsDistinct'
        /\ records' \in [current : Records, active : Records, backup : Records]
        /\ collector' \in Snapshot
    BY <1>t, <2>2, <2>3, <2>4, <2>5, ReportType
  <2>7. arrived' \in BOOLEAN /\ undisturbed' \in BOOLEAN
    BY <1>7, <1>t, OutcomesType DEF GetReport
  <2> QED BY <1>t, <2>4, <2>6, <2>7 DEF RecordsInv, TypeOK
<1>8. CASE UNCHANGED vars
  BY <1>8 DEF vars, RecordsInv, TypeOK, RecordsDistinct
<1> QED BY <1>1, <1>2, <1>3, <1>4, <1>5, <1>6, <1>7, <1>8 DEF Next

\* The invariant the properties follow from.
THEOREM RecordsInvHolds == Spec => []RecordsInv
<1>1. Init => RecordsInv
  BY InitInv
<1>2. RecordsInv /\ [Next]_vars => RecordsInv'
  BY StepInv
<1> QED BY <1>1, <1>2, PTL DEF Spec

(***************************************************************************)
(* The state keeps its types: snapshots, the pointers into the records,    *)
(* the configuration (bst.c, bst_main.c).                                  *)
(***************************************************************************)
THEOREM TypeCorrect == Spec => []TypeOK
<1>1. RecordsInv => TypeOK
  BY DEF RecordsInv
<1> QED BY <1>1, RecordsInvHolds, PTL

(***************************************************************************)
(* The rotation of bst_update_data, whatever mixture of reports runs it,   *)
(* never lets two of the three pointers share a record.                    *)
(***************************************************************************)
THEOREM RecordsDistinctHolds == Spec => []RecordsDistinct
<1>1. RecordsInv => RecordsDistinct
  BY DEF RecordsInv
<1> QED BY <1>1, RecordsInvHolds, PTL

-----------------------------------------------------------------------------
\* Until disturbed, the collector knows what the next report is compared with.
Agree ==
  /\ undisturbed => \A c \in config.track : collector[c] = memory[records.active][c]
  /\ arrived /\ undisturbed => InStep

\* A periodic report that is collected and arrives.
LEMMA PeriodicArrives ==
  ASSUME RecordsInv, PeriodicReport, undisturbed'
  PROVE  /\ memory' = [memory EXCEPT ![records.current] = asic]
         /\ records' = Rotated
         /\ Received(Included(Previous, config.incremental, config.track))
         /\ config.incremental => undisturbed
         /\ memory'[records'.active] = asic
<1>1. PICK ok \in Outcomes, received \in Arrivals : \E now \in Collected(ok) :
        /\ memory' = [memory EXCEPT ![records.current] = now]
        /\ records' = Rotated
        /\ IF ok /\ received
             THEN Received(Included(Previous, config.incremental, config.track))
             ELSE UNCHANGED collector
        /\ arrived' = (ok /\ received)
        /\ undisturbed' = (arrived' /\ (config.incremental => undisturbed))
  BY DEF PeriodicReport
<1>2. ok = TRUE /\ received = TRUE /\ (config.incremental => undisturbed)
  BY <1>1, OutcomesType
<1>3. memory' = [memory EXCEPT ![records.current] = asic]
  BY <1>1, <1>2, CollectedType DEF RecordsInv
<1>4. Received(Included(Previous, config.incremental, config.track))
  BY <1>1, <1>2
<1>5. memory'[records'.active] = asic
  BY <1>1, <1>3, ReportType DEF RecordsInv, TypeOK
<1> QED BY <1>1, <1>2, <1>3, <1>4, <1>5

LEMMA AgreeStep ==
  ASSUME RecordsInv, Agree, [Next]_vars
  PROVE  Agree'
<1>1. CASE CounterChanges \/ ConfigureFeature
  <2>1. /\ UNCHANGED <<collector, memory, records, undisturbed>>
        /\ config'.track = config.track
        /\ arrived' = FALSE
    BY <1>1 DEF CounterChanges, ConfigureFeature
  <2> QED BY <2>1 DEF Agree
<1>2. CASE ConfigureTracking \/ ClearStats \/ TriggerReport \/ GetReport
  <2>1. undisturbed' = FALSE
    BY <1>2 DEF ConfigureTracking, ClearStats, TriggerReport, GetReport
  <2> QED BY <2>1 DEF Agree
<1>3. CASE PeriodicReport /\ ~undisturbed'
  BY <1>3 DEF Agree
<1>4. CASE PeriodicReport /\ undisturbed'
  <2>1. /\ memory' = [memory EXCEPT ![records.current] = asic]
        /\ records' = Rotated
        /\ Received(Included(Previous, config.incremental, config.track))
        /\ config.incremental => undisturbed
        /\ memory'[records'.active] = asic
        /\ UNCHANGED <<asic, config>>
    BY <1>4, PeriodicArrives DEF PeriodicReport
  <2>2. /\ records.active \in Records /\ records.current # records.active
        /\ memory \in [Records -> Snapshot]
        /\ records'.backup = records.active
        /\ config.track \subseteq Counters
    BY <2>1, RotatedPermutes DEF RecordsInv, TypeOK, RecordsDistinct
  \* What the report is compared with is what the collector knows.
  <2>3. ASSUME config.incremental, NEW c \in config.track
        PROVE  memory'[records'.backup][c] = collector[c]
    BY <2>1, <2>2, <2>3 DEF Agree
  <2>4. \A c \in config.track :
          \/ c \in Included(Previous, config.incremental, config.track)
          \/ collector[c] = asic[c]
    <3>1. CASE config.incremental
      <4>1. Previous = records'.backup /\ Previous # NoRecord
        BY <3>1, <2>2 DEF Previous, NoRecord, Records
      <4> QED BY <3>1, <4>1, <2>1, <2>3 DEF Included
    <3>2. CASE ~config.incremental
      BY <3>2, <2>1 DEF Included, Previous
    <3> QED BY <3>1, <3>2
  <2>5. \A c \in config.track : collector'[c] = asic[c]
    BY <2>1, <2>2, <2>4 DEF Received
  <2> QED BY <2>1, <2>5 DEF Agree, InStep
<1>5. CASE UNCHANGED vars
  BY <1>5 DEF vars, Agree, InStep
<1> QED BY <1>1, <1>2, <1>3, <1>4, <1>5 DEF Next

LEMMA InitAgree == Init => Agree
<1>1. Init => collector = memory[records.active]
  BY DEF Init, Records
<1>2. Init => ~arrived
  BY DEF Init
<1> QED BY <1>1, <1>2 DEF Agree

(***************************************************************************)
(* A complete periodic report gives the collector every tracked counter    *)
(* after any history, and the incremental reports of bst_copy_reply_params *)
(* keep it up to date for as long as nothing else rotates or clears the    *)
(* records and no report fails or is lost.                                 *)
(***************************************************************************)
THEOREM PeriodicInSyncHolds == Spec => []PeriodicInSync
<1>1. Init => Agree
  BY InitAgree
<1>2. RecordsInv /\ Agree /\ [Next]_vars => Agree'
  BY AgreeStep
<1>3. Agree => PeriodicInSync
  BY DEF Agree, PeriodicInSync
<1> QED BY <1>1, <1>2, <1>3, RecordsInvHolds, PTL DEF Spec

(***************************************************************************)
(* Drop counters.                                                          *)
(*                                                                         *)
(* That an id has one record holds however requests and cancellations      *)
(* interleave.  The rest holds when a client waits for each answer (the    *)
(* run drops_race shows why): then no cancellation runs while a record is  *)
(* being added, and every record that neither thread is working on is free *)
(* or serves its request.                                                  *)
(***************************************************************************)
Requests == [type : {"request"}, id : Ids, intrvl : 0 .. 1]
Expiries == [type : {"periodic"}, id : Ids \cup {0}]

Adding == app.pc \in {"store", "in_use", "context", "delete", "create", "armed", "failed"}

\* The types, without the bounds of armed, which have other reasons.
Types ==
  /\ db \in [Slots -> Record]
  /\ timer \in [Slots -> Timer]
  /\ armed \in [Slots -> Int]
  /\ callbacks \subseteq Slots
  /\ recvMsgQ \in Seq(Requests \cup Expiries)
  /\ app \in [pc : {"receive"}]
       \cup [pc : {"store", "in_use", "context", "delete", "create", "armed",
                   "failed", "report"}, id : Ids \cup {0}, slot : Slots]
  /\ cancel \in [pc : {"receive"}]
       \cup [pc : {"find"}, id : CancelIds, slot : {NoSlot}]
       \cup [pc : {"delete", "clear", "rest"}, id : CancelIds, slot : Slots]
  /\ waiting \subseteq {"request", "cancel"}
  /\ accepted \subseteq Ids
  /\ lastReport \in Ids \cup {0}
  /\ Adding => app.id \in Ids

LEMMA Numbers ==
  /\ MaxRecords \in Nat /\ MaxRecords >= 1 /\ QueueSize \in Nat
  /\ Slots \subseteq Nat /\ NoSlot \notin Slots
  /\ Ids \subseteq Nat /\ 0 \notin Ids /\ CancelIds \subseteq Nat
<1>1. \A k : \A n \in 1 .. k : n \in Nat /\ n # 0
  OBVIOUS
<1> QED BY <1>1, DropAssumption DEF Slots, NoSlot

\* The searches of the table find what they look for, if it is there.
LEMMA FirstOfIs ==
  ASSUME NEW S \in SUBSET Slots
  PROVE  IF S = {} THEN FirstOf(S) = NoSlot ELSE FirstOf(S) \in S
<1>1. CASE S = {}
  BY <1>1 DEF FirstOf
<1>2. CASE S # {}
  <2>1. \E s \in S : \A t \in S : s <= t
    BY <1>2, LeastExists, Numbers
  <2> QED BY <1>2, <2>1 DEF FirstOf
<1> QED BY <1>1, <1>2

LEMMA RecIndexIs ==
  ASSUME NEW id
  PROVE  /\ RecIndex(id) \in Slots \cup {NoSlot}
         /\ RecIndex(id) \in Slots => db[RecIndex(id)].id = id
         /\ RecIndex(id) = NoSlot => \A s \in Slots : db[s].id # id
<1> DEFINE S == {s \in Slots : db[s].id = id}
<1>1. IF S = {} THEN RecIndex(id) = NoSlot ELSE RecIndex(id) \in S
  BY FirstOfIs DEF RecIndex
<1> QED BY <1>1, Numbers

LEMMA FreeIndexIs ==
  /\ FreeIndex \in Slots \cup {NoSlot}
  /\ FreeIndex \in Slots => ~db[FreeIndex].in_use
<1> DEFINE S == {s \in Slots : ~db[s].in_use}
<1>1. IF S = {} THEN FreeIndex = NoSlot ELSE FreeIndex \in S
  BY FirstOfIs DEF FreeIndex
<1> QED BY <1>1, Numbers

\* A message that the application takes leaves the others.
LEMMA ReceivesFacts ==
  ASSUME Types, NEW type \in {"request", "periodic"}, Receives(type)
  PROVE  /\ recvMsgQ' \in Seq(Requests \cup Expiries)
         /\ Head(recvMsgQ) = recvMsgQ[1] /\ 1 \in DOMAIN recvMsgQ
         /\ Head(recvMsgQ) \in Requests \cup Expiries
         /\ type = "request" => Head(recvMsgQ) \in Requests
         /\ type = "periodic" => Head(recvMsgQ) \in Expiries
         /\ Head(recvMsgQ).type = type
         /\ \A i \in DOMAIN recvMsgQ' : i \in Nat /\ i + 1 \in DOMAIN recvMsgQ /\ i + 1 # 1 /\ recvMsgQ'[i] = recvMsgQ[i + 1]
<1>1. recvMsgQ \in Seq(Requests \cup Expiries) /\ recvMsgQ # << >> /\ recvMsgQ' = Tail(recvMsgQ)
  BY DEF Types, Receives
<1>2. /\ recvMsgQ' \in Seq(Requests \cup Expiries)
      /\ Head(recvMsgQ) = recvMsgQ[1] /\ 1 \in DOMAIN recvMsgQ
      /\ Head(recvMsgQ) \in Requests \cup Expiries
      /\ \A i \in DOMAIN recvMsgQ' : i \in Nat /\ i + 1 \in DOMAIN recvMsgQ /\ i + 1 # 1 /\ recvMsgQ'[i] = recvMsgQ[i + 1]
  BY <1>1, TailFacts
<1>3. Head(recvMsgQ).type = type
  BY DEF Receives
<1> QED BY <1>2, <1>3 DEF Requests, Expiries

LEMMA TimerDeleteFacts ==
  ASSUME Types, NEW s \in Slots, TimerDelete(s)
  PROVE  /\ timer' \in [Slots -> Timer] /\ armed' \in [Slots -> Int]
         /\ \A t \in Slots : t # s => timer'[t] = timer[t] /\ armed'[t] = armed[t]
         /\ ~timer[s].in_use => timer'[s] = timer[s] /\ armed'[s] = armed[s]
         /\ timer[s].in_use /\ timer[s].handle = "armed" => ~timer'[s].in_use /\ armed'[s] = armed[s] - 1
<1>1. CASE timer[s].in_use /\ timer[s].handle # "none"
  <2>1. /\ timer' = [timer EXCEPT ![s].in_use = FALSE, ![s].index = 0, ![s].cmd = "0"]
        /\ armed' = [armed EXCEPT ![s] = IF timer[s].handle = "armed" THEN @ - 1 ELSE @]
    BY <1>1 DEF TimerDelete
  <2>2. timer \in [Slots -> Timer] /\ armed \in [Slots -> Int]
    BY DEF Types
  <2>3. armed' \in [Slots -> Int] /\ \A t \in Slots : t # s => armed'[t] = armed[t]
    BY <2>1, <2>2
  <2>4. armed'[s] = IF timer[s].handle = "armed" THEN armed[s] - 1 ELSE armed[s]
    BY <2>1, <2>2
  <2>5. /\ \A t \in Slots : t # s => timer'[t] = timer[t]
        /\ timer'[s] = [in_use |-> FALSE, index |-> 0, cmd |-> "0", handle |-> timer[s].handle]
    BY <2>1, <2>2 DEF Timer
  <2>6. timer'[s] \in Timer
    BY <2>2, <2>5 DEF Timer
  <2>7. timer' \in [Slots -> Timer]
    BY <2>1, <2>2, <2>5, <2>6
  <2> QED BY <1>1, <2>3, <2>4, <2>5, <2>7
<1>2. CASE ~(timer[s].in_use /\ timer[s].handle # "none")
  BY <1>2 DEF TimerDelete, Types
<1> QED BY <1>1, <1>2

LEMMA AppFields ==
  ASSUME Types
  PROVE  /\ app.pc \in {"receive", "store", "in_use", "context", "delete", "create", "armed", "failed", "report"}
         /\ app.pc # "receive" => app.id \in Ids \cup {0} /\ app.slot \in Slots
         /\ Adding => app.id \in Ids
  BY DEF Types

LEMMA CancelFields ==
  ASSUME Types
  PROVE  /\ cancel.pc \in {"receive", "find", "delete", "clear", "rest"}
         /\ cancel.pc # "receive" => cancel.id \in CancelIds
         /\ cancel.pc \in {"delete", "clear", "rest"} => cancel.slot \in Slots
  BY DEF Types

LEMMA GotoFacts ==
  ASSUME Types, Adding, NEW pc \in {"in_use", "context", "delete", "create", "armed", "failed"}, Goto(pc)
  PROVE  /\ app' \in [pc : {"store", "in_use", "context", "delete", "create", "armed",
                            "failed", "report"}, id : Ids \cup {0}, slot : Slots]
         /\ app'.pc = pc /\ app'.id = app.id /\ app'.slot = app.slot /\ Adding'
<1>1. app' = [pc |-> pc, id |-> app.id, slot |-> app.slot]
  BY DEF Goto
<1>2. app.id \in Ids /\ app.slot \in Slots
  BY AppFields DEF Adding
<1> QED BY <1>1, <1>2 DEF Adding

-----------------------------------------------------------------------------
(* What the steps that change a record or its timer make of it.             *)

AddingApp == [pc : {"store", "in_use", "context", "delete", "create", "armed", "failed", "report"},
              id : Ids \cup {0}, slot : Slots]

LEMMA StoreRequestFacts ==
  ASSUME Types, StoreRequest
  PROVE  /\ app.pc = "store" /\ app.id \in Ids /\ app.slot \in Slots
         /\ app' \in AddingApp /\ app'.pc = "in_use" /\ app'.id = app.id /\ app'.slot = app.slot
         /\ db' \in [Slots -> Record]
         /\ db'[app.slot] = [in_use |-> db[app.slot].in_use, id |-> app.id, intrvl |-> 1]
         /\ \A s \in Slots : s # app.slot => db'[s] = db[s]
         /\ UNCHANGED <<timer, armed, callbacks, recvMsgQ, cancel, waiting, accepted, lastReport>>
<1>1. app.pc = "store" /\ Goto("in_use") /\ app.id \in Ids /\ app.slot \in Slots /\ Adding
  BY AppFields DEF StoreRequest, Adding
<1>2. app' \in AddingApp /\ app'.pc = "in_use" /\ app'.id = app.id /\ app'.slot = app.slot
  BY <1>1, GotoFacts DEF AddingApp
<1>3. db' = [db EXCEPT ![app.slot].intrvl = 1, ![app.slot].id = app.id] /\ db \in [Slots -> Record]
  BY DEF StoreRequest, Types
<1>4. /\ db'[app.slot] = [in_use |-> db[app.slot].in_use, id |-> app.id, intrvl |-> 1]
      /\ \A s \in Slots : s # app.slot => db'[s] = db[s]
  BY <1>1, <1>3 DEF Record
<1>5. db[app.slot].in_use \in BOOLEAN
  BY <1>1, <1>3 DEF Record
<1>6. db'[app.slot] \in Record
  BY <1>1, <1>4, <1>5 DEF Record
<1>7. db' \in [Slots -> Record]
  BY <1>3, <1>4, <1>6
<1>8. UNCHANGED <<timer, armed, callbacks, recvMsgQ, cancel, waiting, accepted, lastReport>>
  BY DEF StoreRequest, history
<1> QED BY <1>1, <1>2, <1>4, <1>7, <1>8

LEMMA StoreInUseFacts ==
  ASSUME Types, StoreInUse
  PROVE  /\ app.pc = "in_use" /\ app.id \in Ids /\ app.slot \in Slots
         /\ app' \in AddingApp /\ app'.pc = "context" /\ app'.id = app.id /\ app'.slot = app.slot
         /\ db' \in [Slots -> Record]
         /\ db'[app.slot].in_use /\ db'[app.slot].id = db[app.slot].id /\ db'[app.slot].intrvl = db[app.slot].intrvl
         /\ \A s \in Slots : s # app.slot => db'[s] = db[s]
         /\ UNCHANGED <<timer, armed, callbacks, recvMsgQ, cancel, waiting, accepted, lastReport>>
<1>1. app.pc = "in_use" /\ Goto("context") /\ app.id \in Ids /\ app.slot \in Slots /\ Adding
  BY AppFields DEF StoreInUse, Adding
<1>2. app' \in AddingApp /\ app'.pc = "context" /\ app'.id = app.id /\ app'.slot = app.slot
  BY <1>1, GotoFacts DEF AddingApp
<1>3. db' = [db EXCEPT ![app.slot].in_use = TRUE] /\ db \in [Slots -> Record]
  BY DEF StoreInUse, Types
<1>4. /\ db'[app.slot].in_use /\ db'[app.slot].id = db[app.slot].id /\ db'[app.slot].intrvl = db[app.slot].intrvl
      /\ \A s \in Slots : s # app.slot => db'[s] = db[s]
      /\ db' \in [Slots -> Record]
  BY <1>1, <1>3 DEF Record
<1>5. UNCHANGED <<timer, armed, callbacks, recvMsgQ, cancel, waiting, accepted, lastReport>>
  BY DEF StoreInUse, history
<1> QED BY <1>1, <1>2, <1>4, <1>5

LEMMA FillContextFacts ==
  ASSUME Types, FillContext
  PROVE  /\ app.pc = "context" /\ app.id \in Ids /\ app.slot \in Slots
         /\ app' \in AddingApp /\ app'.pc = "delete" /\ app'.id = app.id /\ app'.slot = app.slot
         /\ timer' \in [Slots -> Timer]
         /\ timer'[app.slot] = [in_use |-> timer[app.slot].in_use, index |-> db[app.slot].id,
                                cmd |-> "GET_CGSN", handle |-> timer[app.slot].handle]
         /\ \A s \in Slots : s # app.slot => timer'[s] = timer[s]
         /\ UNCHANGED <<db, armed, callbacks, recvMsgQ, cancel, waiting, accepted, lastReport>>
<1>1. app.pc = "context" /\ Goto("delete") /\ app.id \in Ids /\ app.slot \in Slots /\ Adding
  BY AppFields DEF FillContext, Adding
<1>2. app' \in AddingApp /\ app'.pc = "delete" /\ app'.id = app.id /\ app'.slot = app.slot
  BY <1>1, GotoFacts DEF AddingApp
<1>3. /\ timer' = [timer EXCEPT ![app.slot].index = db[app.slot].id, ![app.slot].cmd = "GET_CGSN"]
      /\ timer \in [Slots -> Timer] /\ db \in [Slots -> Record]
  BY DEF FillContext, Types
<1>4. /\ timer'[app.slot] = [in_use |-> timer[app.slot].in_use, index |-> db[app.slot].id,
                             cmd |-> "GET_CGSN", handle |-> timer[app.slot].handle]
      /\ \A s \in Slots : s # app.slot => timer'[s] = timer[s]
  BY <1>1, <1>3 DEF Timer
<1>5. /\ timer[app.slot].in_use \in BOOLEAN /\ timer[app.slot].handle \in {"armed", "disarmed", "none"}
      /\ db[app.slot].id \in Ids \cup {0}
  BY <1>1, <1>3 DEF Timer, Record
<1>6. timer'[app.slot] \in Timer
  BY <1>4, <1>5 DEF Timer
<1>7. timer' \in [Slots -> Timer]
  BY <1>3, <1>4, <1>6
<1>8. UNCHANGED <<db, armed, callbacks, recvMsgQ, cancel, waiting, accepted, lastReport>>
  BY DEF FillContext, history
<1> QED BY <1>1, <1>2, <1>4, <1>7, <1>8

LEMMA CreateTimerFacts ==
  ASSUME Types, CreateTimer
  PROVE  /\ app.pc = "create" /\ app.id \in Ids /\ app.slot \in Slots
         /\ app' \in AddingApp /\ app'.pc = "armed" /\ app'.id = app.id /\ app'.slot = app.slot
         /\ timer' \in [Slots -> Timer] /\ armed' \in [Slots -> Int]
         /\ timer'[app.slot].in_use = timer[app.slot].in_use
         /\ timer'[app.slot].index = timer[app.slot].index /\ timer'[app.slot].cmd = timer[app.slot].cmd
         /\ db[app.slot].intrvl > 0 => timer'[app.slot].handle = "armed" /\ armed'[app.slot] = armed[app.slot] + 1
         /\ \A s \in Slots : s # app.slot => timer'[s] = timer[s] /\ armed'[s] = armed[s]
         /\ UNCHANGED <<db, callbacks, recvMsgQ, cancel, waiting, accepted, lastReport>>
<1>1. app.pc = "create" /\ Goto("armed") /\ app.id \in Ids /\ app.slot \in Slots /\ Adding
  BY AppFields DEF CreateTimer, Adding
<1>2. app' \in AddingApp /\ app'.pc = "armed" /\ app'.id = app.id /\ app'.slot = app.slot
  BY <1>1, GotoFacts DEF AddingApp
<1> DEFINE h == IF db[app.slot].intrvl > 0 THEN "armed" ELSE "disarmed"
<1>3. /\ timer' = [timer EXCEPT ![app.slot].handle = h] /\ timer \in [Slots -> Timer]
      /\ armed' = [armed EXCEPT ![app.slot] = IF db[app.slot].intrvl > 0 THEN @ + 1 ELSE @]
      /\ armed \in [Slots -> Int]
  BY DEF CreateTimer, Types
<1>4. /\ armed' \in [Slots -> Int] /\ \A s \in Slots : s # app.slot => armed'[s] = armed[s]
      /\ db[app.slot].intrvl > 0 => armed'[app.slot] = armed[app.slot] + 1
  BY <1>1, <1>3
<1>5. h \in {"armed", "disarmed"} /\ (db[app.slot].intrvl > 0 => h = "armed")
  OBVIOUS
<1> HIDE DEF h
<1>6. /\ timer' \in [Slots -> Timer] /\ timer'[app.slot].handle = h
      /\ timer'[app.slot].in_use = timer[app.slot].in_use
      /\ timer'[app.slot].index = timer[app.slot].index /\ timer'[app.slot].cmd = timer[app.slot].cmd
      /\ \A s \in Slots : s # app.slot => timer'[s] = timer[s]
  BY <1>1, <1>3, <1>5 DEF Timer
<1>7. UNCHANGED <<db, callbacks, recvMsgQ, cancel, waiting, accepted, lastReport>>
  BY DEF CreateTimer, history
<1> QED BY <1>1, <1>2, <1>4, <1>5, <1>6, <1>7

LEMMA CreateTimerFailsFacts ==
  ASSUME Types, CreateTimerFails
  PROVE  /\ app.pc = "create" /\ app.id \in Ids /\ app.slot \in Slots /\ TimerFaults
         /\ app' \in AddingApp /\ app'.pc = "failed" /\ app'.id = app.id /\ app'.slot = app.slot
         /\ timer' \in [Slots -> Timer]
         /\ timer'[app.slot].in_use = timer[app.slot].in_use
         /\ timer'[app.slot].index = timer[app.slot].index /\ timer'[app.slot].cmd = timer[app.slot].cmd
         /\ \A s \in Slots : s # app.slot => timer'[s] = timer[s]
         /\ UNCHANGED <<db, armed, callbacks, recvMsgQ, cancel, waiting, accepted, lastReport>>
<1>1. app.pc = "create" /\ Goto("failed") /\ app.id \in Ids /\ app.slot \in Slots /\ Adding /\ TimerFaults
  BY AppFields DEF CreateTimerFails, Adding
<1>2. app' \in AddingApp /\ app'.pc = "failed" /\ app'.id = app.id /\ app'.slot = app.slot
  BY <1>1, GotoFacts DEF AddingApp
<1>3. PICK handle \in {timer[app.slot].handle, "disarmed"} :
             timer' = [timer EXCEPT ![app.slot].handle = handle]
  BY DEF CreateTimerFails
<1>4. timer \in [Slots -> Timer]
  BY DEF Types
<1>5. handle \in {"armed", "disarmed", "none"}
  BY <1>1, <1>3, <1>4 DEF Timer
<1>6. /\ timer' \in [Slots -> Timer]
      /\ timer'[app.slot].in_use = timer[app.slot].in_use
      /\ timer'[app.slot].index = timer[app.slot].index /\ timer'[app.slot].cmd = timer[app.slot].cmd
      /\ \A s \in Slots : s # app.slot => timer'[s] = timer[s]
  BY <1>1, <1>3, <1>4, <1>5 DEF Timer
<1>7. UNCHANGED <<db, armed, callbacks, recvMsgQ, cancel, waiting, accepted, lastReport>>
  BY DEF CreateTimerFails, history
<1> QED BY <1>1, <1>2, <1>6, <1>7

LEMMA AcceptRequestFacts ==
  ASSUME Types, AcceptRequest
  PROVE  /\ app.pc \in {"armed", "failed"} /\ app.id \in Ids /\ app.slot \in Slots
         /\ app' = [pc |-> "receive"] /\ waiting' = waiting \ {"request"}
         /\ timer' \in [Slots -> Timer]
         /\ timer'[app.slot].in_use <=> timer[app.slot].in_use \/ app.pc = "armed"
         /\ timer'[app.slot].index = timer[app.slot].index /\ timer'[app.slot].cmd = timer[app.slot].cmd
         /\ timer'[app.slot].handle = timer[app.slot].handle
         /\ \A s \in Slots : s # app.slot => timer'[s] = timer[s]
         /\ accepted' = accepted \cup {app.id} /\ lastReport' = 0
         /\ UNCHANGED <<db, armed, callbacks, recvMsgQ, cancel>>
<1>1. app.pc \in {"armed", "failed"} /\ app.id \in Ids /\ app.slot \in Slots
  BY AppFields DEF AcceptRequest, Adding
<1> DEFINE b == timer[app.slot].in_use \/ app.pc = "armed"
<1>2. timer \in [Slots -> Timer] /\ timer' = [timer EXCEPT ![app.slot].in_use = b]
  BY DEF AcceptRequest, Types
<1>3. b \in BOOLEAN
  BY DEF b
<1> HIDE DEF b
<1>4. /\ timer' \in [Slots -> Timer] /\ timer'[app.slot].in_use = b
      /\ timer'[app.slot].index = timer[app.slot].index /\ timer'[app.slot].cmd = timer[app.slot].cmd
      /\ timer'[app.slot].handle = timer[app.slot].handle
      /\ \A s \in Slots : s # app.slot => timer'[s] = timer[s]
  BY <1>1, <1>2, <1>3 DEF Timer
<1>5. /\ app' = [pc |-> "receive"] /\ waiting' = waiting \ {"request"}
      /\ accepted' = accepted \cup {app.id} /\ lastReport' = 0
      /\ UNCHANGED <<db, armed, callbacks, recvMsgQ, cancel>>
  BY DEF AcceptRequest, AnswerRequest
<1>6. timer'[app.slot].in_use <=> timer[app.slot].in_use \/ app.pc = "armed"
  BY <1>4 DEF b
<1> QED BY <1>1, <1>4, <1>5, <1>6

LEMMA CancelFindFacts ==
  ASSUME Types, CancelFind
  PROVE  /\ cancel.pc = "find" /\ cancel.id \in CancelIds
         /\ cancel' \in [pc : {"receive"}] \cup [pc : {"delete", "clear", "rest"}, id : CancelIds, slot : Slots]
         /\ \/ cancel'.pc = "receive" /\ waiting' = waiting \ {"cancel"}
            \/ /\ cancel'.pc = "delete" /\ waiting' = waiting /\ cancel'.slot \in Slots
               /\ cancel'.id = cancel.id /\ db[cancel'.slot].id = cancel'.id
         /\ UNCHANGED <<db, timer, armed, callbacks, recvMsgQ, app, accepted, lastReport>>
<1> DEFINE s == RecIndex(cancel.id)
<1>1. /\ s \in Slots \cup {NoSlot} /\ cancel.id \in CancelIds /\ cancel.pc = "find"
      /\ s \in Slots => db[s].id = cancel.id
  BY RecIndexIs, CancelFields DEF CancelFind
<1>2. /\ s = NoSlot => cancel' = [pc |-> "receive"] /\ waiting' = waiting \ {"cancel"}
      /\ s # NoSlot => cancel' = [pc |-> "delete", id |-> cancel.id, slot |-> s] /\ waiting' = waiting
  BY DEF CancelFind, AnswerCancel
<1> HIDE DEF s
<1>3. UNCHANGED <<db, timer, armed, callbacks, recvMsgQ, app, accepted, lastReport>>
  BY DEF CancelFind, dbVars
<1> QED BY <1>1, <1>2, <1>3

LEMMA CancelDeleteTimerFacts ==
  ASSUME Types, CancelDeleteTimer
  PROVE  /\ cancel.pc = "delete" /\ cancel.id \in CancelIds /\ cancel.slot \in Slots
         /\ cancel' \in [pc : {"delete", "clear", "rest"}, id : CancelIds, slot : Slots]
         /\ cancel'.pc = "clear" /\ cancel'.id = cancel.id /\ cancel'.slot = cancel.slot
         /\ TimerDelete(cancel.slot)
         /\ UNCHANGED <<db, callbacks, recvMsgQ, app, waiting, accepted, lastReport>>
<1>1. cancel.pc = "delete" /\ cancel.id \in CancelIds /\ cancel.slot \in Slots
  BY CancelFields DEF CancelDeleteTimer
<1>2. cancel' = [pc |-> "clear", id |-> cancel.id, slot |-> cancel.slot]
  BY DEF CancelDeleteTimer
<1>3. TimerDelete(cancel.slot) /\ UNCHANGED <<db, callbacks, recvMsgQ, app, waiting, accepted, lastReport>>
  BY DEF CancelDeleteTimer, history
<1> QED BY <1>1, <1>2, <1>3

LEMMA CancelClearInUseFacts ==
  ASSUME Types, CancelClearInUse
  PROVE  /\ cancel.pc = "clear" /\ cancel.id \in CancelIds /\ cancel.slot \in Slots
         /\ cancel' \in [pc : {"delete", "clear", "rest"}, id : CancelIds, slot : Slots]
         /\ cancel'.pc = "rest" /\ cancel'.id = cancel.id /\ cancel'.slot = cancel.slot
         /\ db' \in [Slots -> Record]
         /\ ~db'[cancel.slot].in_use /\ db'[cancel.slot].id = db[cancel.slot].id
         /\ \A s \in Slots : s # cancel.slot => db'[s] = db[s]
         /\ UNCHANGED <<timer, armed, callbacks, recvMsgQ, app, waiting, accepted, lastReport>>
<1>1. cancel.pc = "clear" /\ cancel.id \in CancelIds /\ cancel.slot \in Slots
  BY CancelFields DEF CancelClearInUse
<1>2. cancel' = [pc |-> "rest", id |-> cancel.id, slot |-> cancel.slot]
  BY DEF CancelClearInUse
<1>3. db' = [db EXCEPT ![cancel.slot].in_use = FALSE] /\ db \in [Slots -> Record]
  BY DEF CancelClearInUse, Types
<1>4. /\ ~db'[cancel.slot].in_use /\ db'[cancel.slot].id = db[cancel.slot].id
      /\ \A s \in Slots : s # cancel.slot => db'[s] = db[s]
      /\ db' \in [Slots -> Record]
  BY <1>1, <1>3 DEF Record
<1>5. UNCHANGED <<timer, armed, callbacks, recvMsgQ, app, waiting, accepted, lastReport>>
  BY DEF CancelClearInUse, history
<1> QED BY <1>1, <1>2, <1>4, <1>5

LEMMA CancelClearRestFacts ==
  ASSUME Types, CancelClearRest
  PROVE  /\ cancel.pc = "rest" /\ cancel.id \in CancelIds /\ cancel.slot \in Slots
         /\ cancel' = [pc |-> "receive"] /\ waiting' = waiting \ {"cancel"}
         /\ db' \in [Slots -> Record] /\ timer' \in [Slots -> Timer]
         /\ db'[cancel.slot].id = 0 /\ db'[cancel.slot].in_use = db[cancel.slot].in_use
         /\ timer'[cancel.slot] = FreeTimer
         /\ \A s \in Slots : s # cancel.slot => db'[s] = db[s] /\ timer'[s] = timer[s]
         /\ accepted' = accepted \ {cancel.id}
         /\ UNCHANGED <<armed, callbacks, recvMsgQ, app, lastReport>>
<1>1. cancel.pc = "rest" /\ cancel.id \in CancelIds /\ cancel.slot \in Slots
  BY CancelFields DEF CancelClearRest
<1>2. /\ db' = [db EXCEPT ![cancel.slot].id = 0, ![cancel.slot].intrvl = 0] /\ db \in [Slots -> Record]
      /\ timer' = [timer EXCEPT ![cancel.slot] = FreeTimer] /\ timer \in [Slots -> Timer]
  BY DEF CancelClearRest, Types
<1>3. /\ db'[cancel.slot] = [in_use |-> db[cancel.slot].in_use, id |-> 0, intrvl |-> 0]
      /\ \A s \in Slots : s # cancel.slot => db'[s] = db[s]
  BY <1>1, <1>2 DEF Record
<1>4. db[cancel.slot].in_use \in BOOLEAN
  BY <1>1, <1>2 DEF Record
<1>5. db'[cancel.slot] \in Record
  BY <1>3, <1>4 DEF Record
<1>6. db' \in [Slots -> Record]
  BY <1>2, <1>3, <1>5
<1>7. FreeTimer \in Timer
  BY DEF Timer, FreeTimer
<1>8. /\ timer' \in [Slots -> Timer] /\ timer'[cancel.slot] = FreeTimer
      /\ \A s \in Slots : s # cancel.slot => timer'[s] = timer[s]
  BY <1>1, <1>2, <1>7
<1>9. /\ cancel' = [pc |-> "receive"] /\ waiting' = waiting \ {"cancel"}
      /\ accepted' = accepted \ {cancel.id} /\ UNCHANGED <<armed, callbacks, recvMsgQ, app, lastReport>>
  BY DEF CancelClearRest, AnswerCancel
<1> QED BY <1>1, <1>3, <1>6, <1>8, <1>9

-----------------------------------------------------------------------------
(* Types, whatever overlaps.                                                *)

LEMMA TypesInit == DropsInit => Types
<1> SUFFICES ASSUME DropsInit PROVE Types
  OBVIOUS
<1>1. app = [pc |-> "receive"] /\ ~Adding
  BY DEF DropsInit, Adding
<1> QED BY <1>1 DEF DropsInit, Types, Record, Timer, FreeRecord, FreeTimer

LEMMA TypesClients ==
  ASSUME Types, GetDropCounters \/ CancelRequest
  PROVE  Types'
<1>1. CASE GetDropCounters
  <2>1. PICK id \in Ids, intrvl \in 0 .. 1 :
               recvMsgQ' = Append(recvMsgQ, [type |-> "request", id |-> id, intrvl |-> intrvl])
    BY <1>1 DEF GetDropCounters
  <2>2. [type |-> "request", id |-> id, intrvl |-> intrvl] \in Requests \cup Expiries
    BY DEF Requests
  <2>3. recvMsgQ' \in Seq(Requests \cup Expiries)
    BY <2>1, <2>2, AppendFacts DEF Types
  <2> QED BY <1>1, <2>3 DEF GetDropCounters, Types, dbVars, history, Adding
<1>2. CASE CancelRequest
  <2>1. PICK id \in CancelIds : cancel' = [pc |-> "find", id |-> id, slot |-> NoSlot]
    BY <1>2 DEF CancelRequest
  <2>2. cancel' \in [pc : {"find"}, id : CancelIds, slot : {NoSlot}]
    BY <2>1
  <2> QED BY <1>2, <2>2 DEF CancelRequest, Types, dbVars, history, Adding
<1> QED BY <1>1, <1>2

LEMMA TypesTimers ==
  ASSUME Types, NEW s \in Slots, TimerExpires(s) \/ PeriodicCollectionCb(s)
  PROVE  Types'
<1>1. CASE TimerExpires(s)
  BY <1>1 DEF TimerExpires, Types, dbVars, history, Adding
<1>2. CASE PeriodicCollectionCb(s)
  <2>1. [type |-> "periodic", id |-> timer[s].index] \in Requests \cup Expiries
    BY DEF Types, Timer, Expiries
  <2>2. recvMsgQ' \in Seq(Requests \cup Expiries)
    BY <1>2, <2>1, AppendFacts DEF PeriodicCollectionCb, Types
  <2> QED BY <1>2, <2>2 DEF PeriodicCollectionCb, Types, dbVars, history, Adding
<1> QED BY <1>1, <1>2

LEMMA TypesAnswer ==
  ASSUME Types, RefuseDuplicate \/ RefuseTableFull \/ ServeOnce
  PROVE  Types'
<1>1. Receives("request") /\ AnswerRequest /\ UNCHANGED <<dbVars, callbacks, cancel, history>>
  BY DEF RefuseDuplicate, RefuseTableFull, ServeOnce
<1>2. recvMsgQ' \in Seq(Requests \cup Expiries)
  BY <1>1, ReceivesFacts
<1>3. app' = [pc |-> "receive"] /\ ~Adding' /\ waiting' \subseteq waiting
  BY <1>1 DEF AnswerRequest, Adding
<1> QED BY <1>1, <1>2, <1>3 DEF Types, dbVars, history

LEMMA TypesAdding ==
  ASSUME Types, AddRecord \/ StoreRequest \/ StoreInUse \/ FillContext \/ DeleteOldTimer
                \/ CreateTimer \/ CreateTimerFails \/ AcceptRequest
  PROVE  Types'
<1>1. CASE AddRecord
  <2>1. recvMsgQ' \in Seq(Requests \cup Expiries) /\ Head(recvMsgQ) \in Requests
    BY <1>1, ReceivesFacts DEF AddRecord
  <2>2. app' = [pc |-> "store", id |-> Head(recvMsgQ).id, slot |-> FreeIndex]
    BY <1>1 DEF AddRecord
  <2>3. Head(recvMsgQ).id \in Ids /\ FreeIndex \in Slots
    BY <1>1, <2>1, FreeIndexIs DEF AddRecord, Requests
  <2>4. /\ app' \in [pc : {"store", "in_use", "context", "delete", "create", "armed",
                           "failed", "report"}, id : Ids \cup {0}, slot : Slots]
        /\ app'.id \in Ids
    BY <2>2, <2>3
  <2> QED BY <1>1, <2>1, <2>4 DEF AddRecord, Types, dbVars, history
\* A step that keeps the request being added.
<1>0. ASSUME app' \in AddingApp, app'.id \in Ids, UNCHANGED <<recvMsgQ, callbacks, cancel, waiting, accepted, lastReport>>,
             db' \in [Slots -> Record], timer' \in [Slots -> Timer], armed' \in [Slots -> Int]
      PROVE  Types'
  BY <1>0 DEF Types, AddingApp
<1>9. db \in [Slots -> Record] /\ timer \in [Slots -> Timer] /\ armed \in [Slots -> Int]
  BY DEF Types
<1>2. CASE StoreRequest
  BY <1>0, <1>2, <1>9, StoreRequestFacts
<1>3. CASE StoreInUse
  BY <1>0, <1>3, <1>9, StoreInUseFacts
<1>4. CASE FillContext
  BY <1>0, <1>4, <1>9, FillContextFacts
<1>5. CASE DeleteOldTimer
  <2>1. app' \in AddingApp /\ app'.id \in Ids /\ app.slot \in Slots
    BY <1>5, GotoFacts, AppFields DEF DeleteOldTimer, Adding, AddingApp
  <2>2. timer' \in [Slots -> Timer] /\ armed' \in [Slots -> Int]
    BY <1>5, <2>1, TimerDeleteFacts DEF DeleteOldTimer
  <2>3. UNCHANGED <<db, callbacks, recvMsgQ, cancel, waiting, accepted, lastReport>>
    BY <1>5 DEF DeleteOldTimer, history
  <2> QED BY <1>0, <1>9, <2>1, <2>2, <2>3
<1>6. CASE CreateTimer
  BY <1>0, <1>6, <1>9, CreateTimerFacts
<1>7. CASE CreateTimerFails
  BY <1>0, <1>7, <1>9, CreateTimerFailsFacts
<1>8. CASE AcceptRequest
  <2>1. /\ app.id \in Ids /\ app' = [pc |-> "receive"] /\ waiting' = waiting \ {"request"}
        /\ timer' \in [Slots -> Timer] /\ accepted' = accepted \cup {app.id} /\ lastReport' = 0
        /\ UNCHANGED <<db, armed, callbacks, recvMsgQ, cancel>>
    BY <1>8, AcceptRequestFacts
  <2>2. ~Adding'
    BY <2>1 DEF Adding
  <2> QED BY <2>1, <2>2 DEF Types
<1> QED BY <1>1, <1>2, <1>3, <1>4, <1>5, <1>6, <1>7, <1>8

LEMMA TypesPeriodic ==
  ASSUME Types, PeriodicFind \/ PeriodicDrops
  PROVE  Types'
<1>1. CASE PeriodicFind
  <2>1. recvMsgQ' \in Seq(Requests \cup Expiries) /\ Head(recvMsgQ) \in Expiries
    BY <1>1, ReceivesFacts DEF PeriodicFind
  <2> DEFINE s == RecIndex(Head(recvMsgQ).id)
  <2>2. app' = IF s = NoSlot THEN [pc |-> "receive"]
               ELSE [pc |-> "report", id |-> Head(recvMsgQ).id, slot |-> s]
    BY <1>1 DEF PeriodicFind
  <2>3. Head(recvMsgQ).id \in Ids \cup {0} /\ s \in Slots \cup {NoSlot}
    BY <2>1, RecIndexIs DEF Expiries
  <2> HIDE DEF s
  <2>4. ~Adding' /\ app' \in [pc : {"receive"}]
       \cup [pc : {"store", "in_use", "context", "delete", "create", "armed",
                   "failed", "report"}, id : Ids \cup {0}, slot : Slots]
    BY <2>2, <2>3 DEF Adding
  <2> QED BY <1>1, <2>1, <2>4 DEF PeriodicFind, Types, dbVars, history
<1>2. CASE PeriodicDrops
  <2>1. app.slot \in Slots
    BY <1>2, AppFields DEF PeriodicDrops
  <2>2. db[app.slot].id \in Ids \cup {0}
    BY <2>1 DEF Types, Record
  <2>3. app' = [pc |-> "receive"] /\ ~Adding'
    BY <1>2 DEF PeriodicDrops, Adding
  <2> QED BY <1>2, <2>2, <2>3 DEF PeriodicDrops, Types, dbVars
<1> QED BY <1>1, <1>2

LEMMA TypesCancel ==
  ASSUME Types, CancelThread
  PROVE  Types'
<1>1. CASE CancelFind
  <2>1. waiting' \subseteq waiting
    BY <1>1, CancelFindFacts
  <2>2. /\ cancel' \in [pc : {"receive"}] \cup [pc : {"delete", "clear", "rest"}, id : CancelIds, slot : Slots]
        /\ UNCHANGED <<db, timer, armed, callbacks, recvMsgQ, app, accepted, lastReport>>
    BY <1>1, CancelFindFacts
  <2> QED BY <2>1, <2>2 DEF Types, Adding
<1>2. CASE CancelDeleteTimer
  <2>1. /\ cancel' \in [pc : {"delete", "clear", "rest"}, id : CancelIds, slot : Slots]
        /\ cancel.slot \in Slots /\ TimerDelete(cancel.slot)
        /\ UNCHANGED <<db, callbacks, recvMsgQ, app, waiting, accepted, lastReport>>
    BY <1>2, CancelDeleteTimerFacts
  <2>2. timer' \in [Slots -> Timer] /\ armed' \in [Slots -> Int]
    BY <2>1, TimerDeleteFacts
  <2> QED BY <2>1, <2>2 DEF Types, Adding
<1>3. CASE CancelClearInUse
  <2>1. /\ cancel' \in [pc : {"delete", "clear", "rest"}, id : CancelIds, slot : Slots]
        /\ db' \in [Slots -> Record]
        /\ UNCHANGED <<timer, armed, callbacks, recvMsgQ, app, waiting, accepted, lastReport>>
    BY <1>3, CancelClearInUseFacts
  <2> QED BY <2>1 DEF Types, Adding
<1>4. CASE CancelClearRest
  <2>1. /\ cancel' = [pc |-> "receive"] /\ waiting' = waiting \ {"cancel"}
        /\ db' \in [Slots -> Record] /\ timer' \in [Slots -> Timer]
        /\ accepted' = accepted \ {cancel.id}
        /\ UNCHANGED <<armed, callbacks, recvMsgQ, app, lastReport>>
    BY <1>4, CancelClearRestFacts
  <2> QED BY <2>1 DEF Types, Adding
<1> QED BY <1>1, <1>2, <1>3, <1>4 DEF CancelThread

LEMMA TypesStep == Types /\ [DropsNext]_dropsVars => Types'
<1> SUFFICES ASSUME Types, [DropsNext]_dropsVars PROVE Types'
  OBVIOUS
<1>1. CASE UNCHANGED dropsVars
  BY <1>1 DEF dropsVars, Types, Adding
<1>2. CASE AppThread
  BY <1>2, TypesAnswer, TypesAdding, TypesPeriodic DEF AppThread
<1> QED BY <1>1, <1>2, TypesClients, TypesTimers, TypesCancel DEF DropsNext

-----------------------------------------------------------------------------
(* An id has one record, whatever overlaps.                                 *)

\* The id of a record that is being added has no record yet.
NewId == app.pc = "store" => \A s \in Slots : db[s].id # app.id

NoDupInv == NoDuplicateRecords /\ NewId

LEMMA NoDupStep == Types /\ NoDupInv /\ [DropsNext]_dropsVars => NoDupInv'
<1> SUFFICES ASSUME Types, NoDupInv, [DropsNext]_dropsVars PROVE NoDupInv'
  OBVIOUS
<1>1. ASSUME db' = db, app'.pc # "store" \/ app' = app
      PROVE  NoDupInv'
  BY <1>1 DEF NoDupInv, NoDuplicateRecords, NewId
<1>2. CASE UNCHANGED dropsVars
  BY <1>1, <1>2 DEF dropsVars
<1>3. CASE GetDropCounters \/ CancelRequest
  BY <1>1, <1>3 DEF GetDropCounters, CancelRequest, dbVars
<1>4. CASE \E s \in Slots : TimerExpires(s) \/ PeriodicCollectionCb(s)
  BY <1>1, <1>4 DEF TimerExpires, PeriodicCollectionCb, dbVars
<1>5. CASE AppThread
  <2>1. CASE RefuseDuplicate \/ RefuseTableFull \/ ServeOnce
    BY <1>1, <2>1 DEF RefuseDuplicate, RefuseTableFull, ServeOnce, AnswerRequest, dbVars
  <2>2. CASE AddRecord
    <3>1. /\ db' = db /\ RecIndex(Head(recvMsgQ).id) = NoSlot
          /\ app' = [pc |-> "store", id |-> Head(recvMsgQ).id, slot |-> FreeIndex]
      BY <2>2 DEF AddRecord, dbVars
    <3>2. \A s \in Slots : db[s].id # app'.id
      BY <3>1, RecIndexIs
    <3> QED BY <3>1, <3>2 DEF NoDupInv, NoDuplicateRecords, NewId
  <2>3. CASE StoreRequest
    BY <2>3, StoreRequestFacts DEF NoDupInv, NoDuplicateRecords, NewId
  <2>4. CASE StoreInUse
    BY <2>4, StoreInUseFacts DEF NoDupInv, NoDuplicateRecords, NewId
  <2>5. CASE FillContext \/ CreateTimer \/ CreateTimerFails
    BY <1>1, <2>5, FillContextFacts, CreateTimerFacts, CreateTimerFailsFacts
  <2>6. CASE DeleteOldTimer
    BY <1>1, <2>6 DEF DeleteOldTimer, Goto
  <2>7. CASE AcceptRequest
    BY <1>1, <2>7, AcceptRequestFacts
  <2>8. CASE PeriodicFind
    BY <1>1, <2>8 DEF PeriodicFind, dbVars
  <2>9. CASE PeriodicDrops
    BY <1>1, <2>9 DEF PeriodicDrops, dbVars
  <2> QED BY <1>5, <2>1, <2>2, <2>3, <2>4, <2>5, <2>6, <2>7, <2>8, <2>9 DEF AppThread
<1>6. CASE CancelThread
  <2>1. CASE CancelFind \/ CancelDeleteTimer
    BY <1>1, <2>1, CancelFindFacts, CancelDeleteTimerFacts
  <2>2. CASE CancelClearInUse
    BY <2>2, CancelClearInUseFacts DEF NoDupInv, NoDuplicateRecords, NewId
  <2>3. CASE CancelClearRest
    <3>1. app.pc = "store" => app.id # 0
      BY AppFields, Numbers DEF Adding
    <3> QED BY <2>3, <3>1, CancelClearRestFacts DEF NoDupInv, NoDuplicateRecords, NewId
  <2> QED BY <1>6, <2>1, <2>2, <2>3 DEF CancelThread
<1> QED BY <1>2, <1>3, <1>4, <1>5, <1>6 DEF DropsNext

\* An id names at most one record, whatever requests and cancellations
\* overlap: bst_get_cgsn_drp_ctrs is the only thread that adds records, and
\* what the other one does in between never makes an id appear.
THEOREM OneRecordEach == DropsSpec => []NoDuplicateRecords
<1>1. DropsInit => Types /\ NoDupInv
  <2>1. DropsInit => NoDupInv
    BY DEF DropsInit, NoDupInv, NoDuplicateRecords, NewId, FreeRecord
  <2> QED BY <2>1, TypesInit
<1>2. Types /\ NoDupInv /\ [DropsNext]_dropsVars => (Types /\ NoDupInv)'
  BY TypesStep, NoDupStep
<1>3. NoDupInv => NoDuplicateRecords
  BY DEF NoDupInv
<1> QED BY <1>1, <1>2, <1>3, PTL DEF DropsSpec

-----------------------------------------------------------------------------
(* One thread at a time, when a client waits for each answer.               *)

Clearing == cancel.pc \in {"clear", "rest"}

Asked(i) == recvMsgQ[i].type = "request"

SerialInv ==
  /\ cancel.pc # "receive" => waiting = {"cancel"}
  /\ Adding => waiting = {"request"} /\ \A i \in DOMAIN recvMsgQ : ~Asked(i)
  /\ \A i \in DOMAIN recvMsgQ : Asked(i) => waiting = {"request"}
  /\ \A i, j \in DOMAIN recvMsgQ : Asked(i) /\ Asked(j) => i = j

LEMMA SerialClients ==
  ASSUME ~Overlap, Types, SerialInv, GetDropCounters \/ CancelRequest
  PROVE  SerialInv'
<1>1. waiting = {} /\ cancel.pc = "receive" /\ ~Adding /\ \A i \in DOMAIN recvMsgQ : ~Asked(i)
  BY DEF GetDropCounters, CancelRequest, MayAsk, SerialInv
<1>2. CASE GetDropCounters
  <2>1. PICK id \in Ids, intrvl \in 0 .. 1 :
               recvMsgQ' = Append(recvMsgQ, [type |-> "request", id |-> id, intrvl |-> intrvl])
    BY <1>2 DEF GetDropCounters
  <2> DEFINE m == [type |-> "request", id |-> id, intrvl |-> intrvl]
  <2>2. m \in Requests \cup Expiries /\ recvMsgQ \in Seq(Requests \cup Expiries)
    BY DEF Requests, Types
  <2> HIDE DEF m
  <2>3. \A i \in DOMAIN recvMsgQ' : i # Len(recvMsgQ) + 1 => i \in DOMAIN recvMsgQ /\ recvMsgQ'[i] = recvMsgQ[i]
    BY <2>1, <2>2, AppendFacts DEF m
  <2>4. \A i \in DOMAIN recvMsgQ' : Asked(i)' => i = Len(recvMsgQ) + 1
    BY <1>1, <2>3 DEF Asked
  <2>5. waiting' = {"request"} /\ cancel'.pc = "receive" /\ ~Adding'
    BY <1>1, <1>2 DEF GetDropCounters, Adding
  <2> QED BY <2>4, <2>5 DEF SerialInv
<1>3. CASE CancelRequest
  <2>1. waiting' = {"cancel"} /\ recvMsgQ' = recvMsgQ /\ ~Adding'
    BY <1>1, <1>3 DEF CancelRequest, Adding
  <2> QED BY <1>1, <2>1 DEF SerialInv, Asked
<1> QED BY <1>2, <1>3

\* A message that the application takes makes room for no second request.
LEMMA SerialTakes ==
  ASSUME Types, SerialInv, NEW type \in {"request", "periodic"}, Receives(type)
  PROVE  /\ \A i \in DOMAIN recvMsgQ' : Asked(i)' => waiting = {"request"}
         /\ \A i, j \in DOMAIN recvMsgQ' : Asked(i)' /\ Asked(j)' => i = j
         /\ type = "request" => /\ waiting = {"request"} /\ cancel.pc = "receive"
                                /\ \A i \in DOMAIN recvMsgQ' : ~Asked(i)'
<1>1. /\ Head(recvMsgQ) = recvMsgQ[1] /\ 1 \in DOMAIN recvMsgQ /\ Head(recvMsgQ).type = type
      /\ \A i \in DOMAIN recvMsgQ' : i \in Nat /\ i + 1 \in DOMAIN recvMsgQ /\ i + 1 # 1 /\ recvMsgQ'[i] = recvMsgQ[i + 1]
  BY ReceivesFacts
<1>2. \A i \in DOMAIN recvMsgQ' : i \in Nat /\ i + 1 \in DOMAIN recvMsgQ /\ i + 1 # 1 /\ (Asked(i)' => Asked(i + 1))
  BY <1>1 DEF Asked
<1>3. type = "request" => Asked(1)
  BY <1>1 DEF Asked
<1>4. \A i, j \in DOMAIN recvMsgQ' : i + 1 = j + 1 => i = j
  BY <1>2
<1> QED BY <1>1, <1>2, <1>3, <1>4 DEF SerialInv

LEMMA SerialStep ==
  ASSUME ~Overlap, Types, SerialInv, [DropsNext]_dropsVars
  PROVE  SerialInv'
\* A step that neither adds a request nor starts a cancellation.
<1>1. ASSUME recvMsgQ' = recvMsgQ, waiting' = waiting, Adding' => Adding,
             cancel'.pc # "receive" => cancel.pc # "receive"
      PROVE  SerialInv'
  BY <1>1 DEF SerialInv, Asked
<1>2. CASE UNCHANGED dropsVars
  BY <1>1, <1>2 DEF dropsVars, Adding
<1>3. CASE \E s \in Slots : TimerExpires(s) \/ PeriodicCollectionCb(s)
  <2>1. PICK s \in Slots : TimerExpires(s) \/ PeriodicCollectionCb(s)
    BY <1>3
  <2>2. CASE TimerExpires(s)
    BY <1>1, <2>2 DEF TimerExpires, Adding
  <2>3. CASE PeriodicCollectionCb(s)
    <3> DEFINE m == [type |-> "periodic", id |-> timer[s].index]
    <3>1. m \in Requests \cup Expiries /\ recvMsgQ \in Seq(Requests \cup Expiries) /\ m.type = "periodic"
      BY DEF Types, Timer, Expiries
    <3>2. recvMsgQ' \in {recvMsgQ, Append(recvMsgQ, m)} /\ UNCHANGED <<app, cancel, waiting>>
      BY <2>3 DEF PeriodicCollectionCb
    <3> HIDE DEF m
    <3>3. \A i \in DOMAIN recvMsgQ' : Asked(i)' => i \in DOMAIN recvMsgQ /\ Asked(i)
      BY <3>1, <3>2, AppendFacts DEF Asked
    <3> QED BY <3>2, <3>3 DEF SerialInv, Adding
  <2> QED BY <2>1, <2>2, <2>3
<1>4. CASE AppThread
  <2>1. CASE RefuseDuplicate \/ RefuseTableFull \/ ServeOnce
    <3>1. Receives("request") /\ AnswerRequest /\ cancel' = cancel
      BY <2>1 DEF RefuseDuplicate, RefuseTableFull, ServeOnce
    <3>2. ~Adding'
      BY <3>1 DEF AnswerRequest, Adding
    <3> QED BY <3>1, <3>2, SerialTakes DEF SerialInv
  <2>2. CASE AddRecord
    <3>1. Receives("request") /\ UNCHANGED <<cancel, waiting>>
      BY <2>2 DEF AddRecord
    <3> QED BY <3>1, SerialTakes DEF SerialInv
  <2>3. CASE StoreRequest \/ StoreInUse \/ FillContext \/ CreateTimer \/ CreateTimerFails
    <3>1. Adding /\ UNCHANGED <<recvMsgQ, cancel, waiting>>
      BY <2>3, StoreRequestFacts, StoreInUseFacts, FillContextFacts, CreateTimerFacts, CreateTimerFailsFacts DEF Adding
    <3> QED BY <1>1, <3>1
  <2>4. CASE DeleteOldTimer
    BY <1>1, <2>4 DEF DeleteOldTimer, Adding
  <2>5. CASE AcceptRequest
    <3>1. Adding /\ ~Adding' /\ UNCHANGED <<recvMsgQ, cancel>>
      BY <2>5, AcceptRequestFacts DEF Adding
    <3> QED BY <3>1 DEF SerialInv, Asked
  <2>6. CASE PeriodicFind
    <3>1. Receives("periodic") /\ UNCHANGED <<cancel, waiting>>
      BY <2>6 DEF PeriodicFind
    <3>2. ~Adding'
      BY <2>6 DEF PeriodicFind, Adding
    <3> QED BY <3>1, <3>2, SerialTakes DEF SerialInv
  <2>7. CASE PeriodicDrops
    BY <1>1, <2>7 DEF PeriodicDrops, Adding
  <2> QED BY <1>4, <2>1, <2>2, <2>3, <2>4, <2>5, <2>6, <2>7 DEF AppThread
<1>5. CASE CancelThread
  <2>1. cancel.pc # "receive" /\ UNCHANGED <<recvMsgQ, app>>
    BY <1>5, CancelFindFacts, CancelDeleteTimerFacts, CancelClearInUseFacts, CancelClearRestFacts DEF CancelThread
  <2>2. \/ waiting' = waiting
        \/ cancel'.pc = "receive" /\ waiting' = waiting \ {"cancel"}
    BY <1>5, CancelFindFacts, CancelDeleteTimerFacts, CancelClearInUseFacts, CancelClearRestFacts DEF CancelThread
  <2>3. waiting = {"cancel"} /\ ~Adding /\ ~Adding' /\ \A i \in DOMAIN recvMsgQ : ~Asked(i)
    BY <2>1 DEF SerialInv, Adding
  <2> QED BY <2>1, <2>2, <2>3 DEF SerialInv, Asked
<1> QED BY <1>2, <1>3, <1>4, <1>5, SerialClients DEF DropsNext

-----------------------------------------------------------------------------
(* The records that no thread is working on are free or serve a request.    *)

Free(s) == ~db[s].in_use /\ db[s].id = 0 /\ ~timer[s].in_use /\ armed[s] = 0

Serves(s) ==
  /\ db[s].in_use /\ db[s].id \in Ids
  /\ timer[s].cmd = "GET_CGSN" /\ timer[s].index = db[s].id
  /\ \/ timer[s].in_use /\ timer[s].handle = "armed" /\ armed[s] = 1
     \/ ~timer[s].in_use /\ armed[s] = 0 /\ TimerFaults

BeingAdded(s) ==
  /\ ~timer[s].in_use
  /\ app.pc # "armed" => armed[s] = 0
  /\ app.pc = "armed" => armed[s] = 1 /\ timer[s].handle = "armed"
  /\ app.pc = "store" => db[s].id = 0
  /\ app.pc # "store" => db[s].id = app.id /\ db[s].intrvl = 1
  /\ app.pc \notin {"store", "in_use"} => db[s].in_use
  /\ app.pc \in {"delete", "create", "armed", "failed"} =>
       timer[s].cmd = "GET_CGSN" /\ timer[s].index = app.id
  /\ app.pc = "failed" => TimerFaults

BeingCleared(s) ==
  /\ db[s].id = cancel.id /\ ~timer[s].in_use /\ armed[s] = 0
  /\ cancel.pc = "rest" \/ cancel.id = 0 => ~db[s].in_use

\* No thread is working on this record.
AtRest(s) == ~(Adding /\ s = app.slot) /\ ~(Clearing /\ s = cancel.slot)

TableInv ==
  \A s \in Slots :
    /\ AtRest(s) => Free(s) \/ Serves(s)
    /\ Adding /\ s = app.slot => BeingAdded(s)
    /\ Clearing /\ s = cancel.slot => BeingCleared(s)
    /\ cancel.pc = "delete" /\ s = cancel.slot => db[s].id = cancel.id

OthersKept(s) ==
  \A t \in Slots \ {s} : db'[t] = db[t] /\ timer'[t] = timer[t] /\ armed'[t] = armed[t]

\* A step on the record that is being added.
LEMMA AddingStep ==
  ASSUME SerialInv, TableInv, Adding, cancel' = cancel,
         NEW s \in Slots, app.slot = s, OthersKept(s),
         \/ Adding' /\ app'.slot = s /\ BeingAdded(s)'
         \/ ~Adding' /\ Serves(s)'
  PROVE  TableInv'
<1>1. cancel.pc = "receive" /\ cancel'.pc = "receive" /\ ~Clearing /\ ~Clearing'
  BY DEF SerialInv, Clearing
<1>2. \A t \in Slots \ {s} : (Free(t) \/ Serves(t)) /\ (Free(t)' <=> Free(t)) /\ (Serves(t)' <=> Serves(t))
  BY <1>1 DEF TableInv, AtRest, OthersKept, Free, Serves
<1> QED BY <1>1, <1>2 DEF TableInv, AtRest

\* A step on the record that is being cleared.
LEMMA ClearingStep ==
  ASSUME SerialInv, TableInv, app' = app, cancel.pc # "receive",
         NEW s \in Slots, cancel.slot = s, OthersKept(s),
         \/ Clearing' /\ cancel'.slot = s /\ BeingCleared(s)'
         \/ cancel'.pc = "receive" /\ Free(s)'
  PROVE  TableInv'
<1>1. ~Adding /\ ~Adding'
  BY DEF SerialInv, Adding
<1>2. cancel'.pc # "delete" /\ (Clearing' => cancel'.slot = s)
  BY DEF Clearing
<1>3. \A t \in Slots \ {s} : (Free(t) \/ Serves(t)) /\ (Free(t)' <=> Free(t)) /\ (Serves(t)' <=> Serves(t))
  BY <1>1 DEF TableInv, AtRest, OthersKept, Free, Serves
<1> QED BY <1>1, <1>2, <1>3 DEF TableInv, AtRest, Clearing

\* A step that leaves the table as it is.
LEMMA RestingStep ==
  ASSUME TableInv, UNCHANGED <<db, timer, armed>>,
         app' = app \/ (~Adding /\ ~Adding'),
         \/ cancel' = cancel
         \/ /\ ~Clearing /\ ~Clearing'
            /\ cancel'.pc = "delete" => db[cancel'.slot].id = cancel'.id
  PROVE  TableInv'
<1>1. \A s \in Slots : /\ (Free(s)' <=> Free(s)) /\ (Serves(s)' <=> Serves(s))
                       /\ AtRest(s)' <=> AtRest(s)
  BY DEF Free, Serves, AtRest, Adding, Clearing
<1>2. \A s \in Slots : (Adding /\ s = app.slot => BeingAdded(s)) => (Adding' /\ s = app'.slot => BeingAdded(s)')
  BY DEF Adding, BeingAdded
<1>3. \A s \in Slots : (Clearing /\ s = cancel.slot => BeingCleared(s)) => (Clearing' /\ s = cancel'.slot => BeingCleared(s)')
  BY DEF Clearing, BeingCleared
<1> QED BY <1>1, <1>2, <1>3 DEF TableInv

LEMMA TableAdding ==
  ASSUME Types, SerialInv, TableInv,
         StoreRequest \/ StoreInUse \/ FillContext \/ DeleteOldTimer
           \/ CreateTimer \/ CreateTimerFails \/ AcceptRequest
  PROVE  TableInv'
<1>1. CASE StoreRequest
  <2>1. PICK r \in Slots : app.slot = r
    BY <1>1, StoreRequestFacts
  <2>2. Adding /\ Adding' /\ BeingAdded(r)' /\ OthersKept(r) /\ cancel' = cancel /\ app'.slot = r
    BY <1>1, <2>1, StoreRequestFacts DEF TableInv, Adding, BeingAdded, OthersKept
  <2> QED BY <2>1, <2>2, AddingStep
<1>2. CASE StoreInUse
  <2>1. PICK r \in Slots : app.slot = r
    BY <1>2, StoreInUseFacts
  <2>2. Adding /\ Adding' /\ BeingAdded(r)' /\ OthersKept(r) /\ cancel' = cancel /\ app'.slot = r
    BY <1>2, <2>1, StoreInUseFacts DEF TableInv, Adding, BeingAdded, OthersKept
  <2> QED BY <2>1, <2>2, AddingStep
<1>3. CASE FillContext
  <2>1. PICK r \in Slots : app.slot = r
    BY <1>3, FillContextFacts
  <2>2. Adding /\ Adding' /\ BeingAdded(r)' /\ OthersKept(r) /\ cancel' = cancel /\ app'.slot = r
    BY <1>3, <2>1, FillContextFacts DEF TableInv, Adding, BeingAdded, OthersKept
  <2> QED BY <2>1, <2>2, AddingStep
<1>4. CASE DeleteOldTimer
  <2>1. /\ app.pc = "delete" /\ Adding /\ app.slot \in Slots /\ TimerDelete(app.slot)
        /\ Goto("create") /\ db' = db /\ cancel' = cancel
    BY <1>4, AppFields DEF DeleteOldTimer, Adding
  <2>2. PICK r \in Slots : app.slot = r
    BY <2>1
  <2>3. app'.pc = "create" /\ app'.id = app.id /\ app'.slot = r /\ Adding'
    BY <2>1, <2>2, GotoFacts
  <2>4. BeingAdded(r)
    BY <2>1, <2>2 DEF TableInv
  <2>5. timer'[r] = timer[r] /\ armed'[r] = armed[r] /\ OthersKept(r)
    BY <2>1, <2>2, <2>4, TimerDeleteFacts DEF BeingAdded, OthersKept
  <2>6. BeingAdded(r)'
    BY <2>1, <2>3, <2>4, <2>5 DEF BeingAdded
  <2> QED BY <2>1, <2>2, <2>3, <2>5, <2>6, AddingStep
<1>5. CASE CreateTimer
  <2>1. PICK r \in Slots : app.slot = r
    BY <1>5, CreateTimerFacts
  <2>2. Adding /\ Adding' /\ OthersKept(r) /\ cancel' = cancel /\ app'.slot = r
    BY <1>5, <2>1, CreateTimerFacts DEF Adding, OthersKept
  <2>3. BeingAdded(r) /\ app.pc = "create"
    BY <1>5, <2>1, <2>2, CreateTimerFacts DEF TableInv
  <2>4. armed[r] = 0 /\ db[r].intrvl = 1 /\ db[r].in_use
    BY <2>3 DEF BeingAdded
  <2>5. armed'[r] = 1 /\ timer'[r].handle = "armed"
    BY <1>5, <2>1, <2>4, CreateTimerFacts
  <2>6. BeingAdded(r)'
    BY <1>5, <2>1, <2>3, <2>5, CreateTimerFacts DEF BeingAdded
  <2> QED BY <2>1, <2>2, <2>6, AddingStep
<1>6. CASE CreateTimerFails
  <2>1. PICK r \in Slots : app.slot = r
    BY <1>6, CreateTimerFailsFacts
  <2>2. Adding /\ Adding' /\ BeingAdded(r)' /\ OthersKept(r) /\ cancel' = cancel /\ app'.slot = r
    BY <1>6, <2>1, CreateTimerFailsFacts DEF TableInv, Adding, BeingAdded, OthersKept
  <2> QED BY <2>1, <2>2, AddingStep
<1>7. CASE AcceptRequest
  <2>1. PICK r \in Slots : app.slot = r
    BY <1>7, AcceptRequestFacts
  <2>2. Adding /\ ~Adding' /\ OthersKept(r) /\ cancel' = cancel /\ app.id \in Ids /\ app.pc \in {"armed", "failed"}
    BY <1>7, <2>1, AcceptRequestFacts DEF Adding, OthersKept
  <2>3. BeingAdded(r)
    BY <2>1, <2>2 DEF TableInv
  <2>4. Serves(r)'
    BY <1>7, <2>1, <2>2, <2>3, AcceptRequestFacts DEF BeingAdded, Serves
  <2> QED BY <2>1, <2>2, <2>4, AddingStep
<1> QED BY <1>1, <1>2, <1>3, <1>4, <1>5, <1>6, <1>7

LEMMA TableClearing ==
  ASSUME Types, SerialInv, TableInv, CancelDeleteTimer \/ CancelClearInUse \/ CancelClearRest
  PROVE  TableInv'
<1>1. CASE CancelDeleteTimer
  <2>1. PICK r \in Slots : cancel.slot = r
    BY <1>1, CancelDeleteTimerFacts
  <2>2. /\ cancel.pc = "delete" /\ Clearing' /\ cancel'.pc = "clear" /\ cancel'.slot = r /\ cancel'.id = cancel.id
        /\ app' = app /\ db' = db /\ TimerDelete(r)
    BY <1>1, <2>1, CancelDeleteTimerFacts DEF Clearing
  <2>3. ~Adding /\ AtRest(r)
    BY <2>2 DEF SerialInv, AtRest, Clearing, Adding
  <2>4. db[r].id = cancel.id /\ (Free(r) \/ Serves(r))
    BY <2>1, <2>2, <2>3 DEF TableInv
  <2>5. ~timer'[r].in_use /\ armed'[r] = 0 /\ OthersKept(r)
    BY <2>2, <2>4, TimerDeleteFacts DEF Free, Serves, OthersKept
  <2>6. cancel.id = 0 => ~db[r].in_use
    BY <2>4, Numbers DEF Free, Serves
  <2>7. BeingCleared(r)'
    BY <2>2, <2>4, <2>5, <2>6 DEF BeingCleared
  <2> QED BY <2>1, <2>2, <2>5, <2>7, ClearingStep
<1>2. CASE CancelClearInUse
  <2>1. PICK r \in Slots : cancel.slot = r
    BY <1>2, CancelClearInUseFacts
  <2>2. /\ cancel.pc = "clear" /\ Clearing /\ Clearing' /\ cancel'.slot = r /\ app' = app /\ OthersKept(r)
        /\ BeingCleared(r)'
    BY <1>2, <2>1, CancelClearInUseFacts DEF TableInv, Clearing, OthersKept, BeingCleared
  <2> QED BY <2>1, <2>2, ClearingStep
<1>3. CASE CancelClearRest
  <2>1. PICK r \in Slots : cancel.slot = r
    BY <1>3, CancelClearRestFacts
  <2>2. cancel.pc = "rest" /\ Clearing /\ cancel'.pc = "receive" /\ app' = app /\ OthersKept(r)
    BY <1>3, <2>1, CancelClearRestFacts DEF Clearing, OthersKept
  <2>3. Free(r)'
    BY <1>3, <2>1, <2>2, CancelClearRestFacts DEF TableInv, BeingCleared, Free, FreeTimer
  <2> QED BY <2>1, <2>2, <2>3, ClearingStep
<1> QED BY <1>1, <1>2, <1>3

LEMMA TableStep ==
  ASSUME Types, SerialInv, TableInv, [DropsNext]_dropsVars
  PROVE  TableInv'
<1>1. CASE UNCHANGED dropsVars
  BY <1>1, RestingStep DEF dropsVars
<1>2. CASE GetDropCounters \/ CancelRequest
  BY <1>2, RestingStep DEF GetDropCounters, CancelRequest, dbVars, Clearing
<1>3. CASE \E s \in Slots : TimerExpires(s) \/ PeriodicCollectionCb(s)
  BY <1>3, RestingStep DEF TimerExpires, PeriodicCollectionCb, dbVars
<1>4. CASE RefuseDuplicate \/ RefuseTableFull \/ ServeOnce \/ PeriodicFind \/ PeriodicDrops
  <2>1. UNCHANGED <<db, timer, armed, cancel>> /\ ~Adding
    BY <1>4 DEF RefuseDuplicate, RefuseTableFull, ServeOnce, PeriodicFind, PeriodicDrops, Receives, dbVars, Adding
  <2>2. app' = [pc |-> "receive"] \/ app'.pc = "report"
    BY <1>4 DEF RefuseDuplicate, RefuseTableFull, ServeOnce, PeriodicFind, PeriodicDrops, AnswerRequest
  <2>3. ~Adding'
    BY <2>2 DEF Adding
  <2> QED BY <2>1, <2>3, RestingStep
<1>5. CASE AddRecord
  <2>1. /\ Receives("request") /\ app' = [pc |-> "store", id |-> Head(recvMsgQ).id, slot |-> FreeIndex]
        /\ FreeIndex # NoSlot /\ UNCHANGED <<db, timer, armed, cancel>>
    BY <1>5 DEF AddRecord, dbVars
  <2>2. PICK r \in Slots : r = FreeIndex /\ ~db[r].in_use
    BY <2>1, FreeIndexIs
  <2>3. cancel.pc = "receive" /\ ~Adding /\ ~Clearing /\ ~Clearing'
    BY <2>1, SerialTakes DEF Adding, Receives, Clearing
  <2>4. Free(r)
    BY <2>2, <2>3 DEF TableInv, AtRest, Free, Serves
  <2>5. app'.pc = "store" /\ app'.slot = r /\ Adding'
    BY <2>1, <2>2 DEF Adding
  <2>6. BeingAdded(r)'
    BY <2>1, <2>4, <2>5 DEF Free, BeingAdded
  <2>7. \A s \in Slots : (Free(s) \/ Serves(s)) /\ (Free(s)' <=> Free(s)) /\ (Serves(s)' <=> Serves(s))
    BY <2>1, <2>3 DEF TableInv, AtRest, Free, Serves
  <2> QED BY <2>1, <2>3, <2>5, <2>6, <2>7 DEF TableInv, AtRest
<1>6. CASE CancelFind
  <2>1. UNCHANGED <<db, timer, armed, app>> /\ ~Clearing /\ ~Clearing'
        /\ (cancel'.pc = "delete" => db[cancel'.slot].id = cancel'.id)
    BY <1>6, CancelFindFacts DEF Clearing
  <2> QED BY <2>1, RestingStep
<1> QED BY <1>1, <1>2, <1>3, <1>4, <1>5, <1>6, TableAdding, TableClearing DEF DropsNext, AppThread, CancelThread

-----------------------------------------------------------------------------
(* The requests answered with success are those that have a record.         *)

Recorded(id) == \E s \in Slots : db[s].id = id /\ ~(Adding /\ s = app.slot)

AcceptedInv == \A id \in Ids : id \in accepted <=> Recorded(id)

LEMMA AcceptedStep ==
  ASSUME Types, NoDupInv, SerialInv, TableInv, AcceptedInv, [DropsNext]_dropsVars
  PROVE  AcceptedInv'
<1>1. ASSUME db' = db, accepted' = accepted, Adding' <=> Adding, Adding => app'.slot = app.slot
      PROVE  AcceptedInv'
  <2>1. \A id \in Ids : Recorded(id)' <=> Recorded(id)
    BY <1>1 DEF Recorded
  <2> QED BY <1>1, <2>1 DEF AcceptedInv
<1>2. CASE UNCHANGED dropsVars
  BY <1>1, <1>2 DEF dropsVars, Adding
<1>3. CASE GetDropCounters \/ CancelRequest
  BY <1>1, <1>3 DEF GetDropCounters, CancelRequest, dbVars, history, Adding
<1>4. CASE \E s \in Slots : TimerExpires(s) \/ PeriodicCollectionCb(s)
  BY <1>1, <1>4 DEF TimerExpires, PeriodicCollectionCb, dbVars, history, Adding
<1>5. CASE RefuseDuplicate \/ RefuseTableFull \/ ServeOnce \/ PeriodicFind \/ PeriodicDrops
  <2>1. UNCHANGED <<db, accepted>> /\ ~Adding
    BY <1>5 DEF RefuseDuplicate, RefuseTableFull, ServeOnce, PeriodicFind, PeriodicDrops, Receives, dbVars, history, Adding
  <2>2. app' = [pc |-> "receive"] \/ app'.pc = "report"
    BY <1>5 DEF RefuseDuplicate, RefuseTableFull, ServeOnce, PeriodicFind, PeriodicDrops, AnswerRequest
  <2>3. ~Adding'
    BY <2>2 DEF Adding
  <2> QED BY <1>1, <2>1, <2>3
<1>6. CASE AddRecord
  <2>1. /\ Receives("request") /\ app' = [pc |-> "store", id |-> Head(recvMsgQ).id, slot |-> FreeIndex]
        /\ FreeIndex # NoSlot /\ UNCHANGED <<db, accepted>>
    BY <1>6 DEF AddRecord, dbVars, history
  <2>2. PICK r \in Slots : r = FreeIndex /\ ~db[r].in_use
    BY <2>1, FreeIndexIs
  <2>3. cancel.pc = "receive" /\ ~Adding
    BY <2>1, SerialTakes DEF Adding, Receives
  <2>4. db[r].id = 0
    BY <2>2, <2>3 DEF TableInv, AtRest, Free, Serves, Clearing
  <2>5. app'.pc = "store" /\ app'.slot = r /\ Adding'
    BY <2>1, <2>2 DEF Adding
  <2>6. \A id \in Ids : Recorded(id)' <=> Recorded(id)
    BY <2>1, <2>3, <2>4, <2>5, Numbers DEF Recorded
  <2> QED BY <2>1, <2>6 DEF AcceptedInv
<1>7. CASE StoreRequest
  <2>1. /\ Adding /\ Adding' /\ app'.slot = app.slot /\ accepted' = accepted
        /\ \A s \in Slots : s # app.slot => db'[s] = db[s]
    BY <1>7, StoreRequestFacts DEF Adding
  <2>2. \A id \in Ids : Recorded(id)' <=> Recorded(id)
    BY <2>1 DEF Recorded
  <2> QED BY <2>1, <2>2 DEF AcceptedInv
<1>8. CASE StoreInUse
  <2>1. /\ Adding /\ Adding' /\ app'.slot = app.slot /\ accepted' = accepted
        /\ \A s \in Slots : s # app.slot => db'[s] = db[s]
    BY <1>8, StoreInUseFacts DEF Adding
  <2>2. \A id \in Ids : Recorded(id)' <=> Recorded(id)
    BY <2>1 DEF Recorded
  <2> QED BY <2>1, <2>2 DEF AcceptedInv
<1>9. CASE FillContext \/ CreateTimer \/ CreateTimerFails
  BY <1>1, <1>9, FillContextFacts, CreateTimerFacts, CreateTimerFailsFacts DEF Adding
<1>10. CASE DeleteOldTimer
  BY <1>1, <1>10, GotoFacts DEF DeleteOldTimer, Adding, history
<1>11. CASE AcceptRequest
  <2>1. /\ Adding /\ ~Adding' /\ db' = db /\ app.slot \in Slots /\ app.id \in Ids
        /\ accepted' = accepted \cup {app.id} /\ app.pc \in {"armed", "failed"}
    BY <1>11, AcceptRequestFacts DEF Adding
  <2>2. db[app.slot].id = app.id
    BY <2>1 DEF TableInv, BeingAdded
  <2>3. \A id \in Ids : Recorded(id)' <=> Recorded(id) \/ id = app.id
    BY <2>1, <2>2 DEF Recorded
  <2> QED BY <2>1, <2>3 DEF AcceptedInv
<1>12. CASE CancelFind \/ CancelDeleteTimer
  BY <1>1, <1>12, CancelFindFacts, CancelDeleteTimerFacts DEF Adding
<1>13. CASE CancelClearInUse
  <2>1. /\ UNCHANGED <<app, accepted>> /\ (Adding' <=> Adding)
        /\ \A s \in Slots : db'[s].id = db[s].id
    BY <1>13, CancelClearInUseFacts DEF Adding
  <2>2. \A id \in Ids : Recorded(id)' <=> Recorded(id)
    BY <2>1 DEF Recorded
  <2> QED BY <2>1, <2>2 DEF AcceptedInv
<1>14. CASE CancelClearRest
  <2>1. PICK r \in Slots : cancel.slot = r
    BY <1>14, CancelClearRestFacts
  <2>2. /\ cancel.pc = "rest" /\ app' = app /\ accepted' = accepted \ {cancel.id}
        /\ db'[r].id = 0 /\ \A s \in Slots : s # r => db'[s] = db[s]
    BY <1>14, <2>1, CancelClearRestFacts
  <2>3. ~Adding /\ ~Adding'
    BY <2>2 DEF SerialInv, Adding
  <2>4. db[r].id = cancel.id
    BY <2>1, <2>2 DEF TableInv, Clearing, BeingCleared
  <2>5. \A s \in Slots : db[s].id = cancel.id /\ cancel.id # 0 => s = r
    BY <2>4 DEF NoDupInv, NoDuplicateRecords
  <2>6. \A id \in Ids : Recorded(id)' <=> Recorded(id) /\ id # cancel.id
    BY <2>2, <2>3, <2>4, <2>5, Numbers DEF Recorded
  <2> QED BY <2>2, <2>6 DEF AcceptedInv
<1> QED BY <1>2, <1>3, <1>4, <1>5, <1>6, <1>7, <1>8, <1>9, <1>10, <1>11, <1>12, <1>13, <1>14
        DEF DropsNext, AppThread, CancelThread

-----------------------------------------------------------------------------
(* The table is sound and serves the requests.                              *)

DropsInv == Types /\ NoDupInv /\ SerialInv /\ TableInv /\ AcceptedInv

LEMMA DropsInvInit == DropsInit => DropsInv
<1> SUFFICES ASSUME DropsInit PROVE DropsInv
  OBVIOUS
<1>1. ~Adding /\ ~Clearing /\ cancel.pc = "receive" /\ app.pc = "receive" /\ recvMsgQ = << >> /\ accepted = {}
  BY DEF DropsInit, Adding, Clearing
<1>2. \A s \in Slots : Free(s) /\ db[s].id = 0
  BY DEF DropsInit, Free, FreeRecord, FreeTimer
<1>3. SerialInv
  BY <1>1 DEF SerialInv
<1>4. TableInv
  BY <1>1, <1>2 DEF TableInv
<1>5. AcceptedInv
  BY <1>1, <1>2, Numbers DEF AcceptedInv, Recorded
<1>6. NoDupInv
  BY <1>1, <1>2 DEF NoDupInv, NoDuplicateRecords, NewId
<1> QED BY <1>3, <1>4, <1>5, <1>6, TypesInit DEF DropsInv

LEMMA DropsInvHolds == ASSUME ~Overlap PROVE DropsSpec => []DropsInv
<1>1. DropsInv /\ [DropsNext]_dropsVars => DropsInv'
  BY TypesStep, NoDupStep, SerialStep, TableStep, AcceptedStep DEF DropsInv
<1> QED BY <1>1, DropsInvInit, PTL DEF DropsSpec

LEMMA SettledTable ==
  ASSUME DropsInv, Settled, NEW s \in Slots
  PROVE  ~Adding /\ (Free(s) \/ Serves(s))
  BY DEF DropsInv, Settled, TableInv, AtRest, Adding, Clearing

\* Once each client waits for its answer, the table is well formed, has one
\* record for an id, and leaves no timer behind with a free record.
THEOREM TableIsSound == ASSUME ~Overlap PROVE DropsSpec => []TableSound
<1>1. ASSUME DropsInv PROVE TableSound
  <2>1. \A s \in Slots : armed[s] \in {0, 1}
    BY <1>1 DEF DropsInv, TableInv, AtRest, Free, Serves, BeingAdded, BeingCleared
  <2>2. armed \in [Slots -> Nat]
    BY <1>1, <2>1 DEF DropsInv, Types
  <2>3. DropsTypeOK
    BY <1>1, <2>2 DEF DropsInv, Types, DropsTypeOK, Requests, Expiries
  <2>4. FreeRecordsHaveNoTimer
    BY <1>1, SettledTable DEF FreeRecordsHaveNoTimer, Free, Serves
  <2> QED BY <1>1, <2>3, <2>4 DEF DropsInv, NoDupInv, TableSound
<1> QED BY <1>1, DropsInvHolds, PTL

\* Once each client waits for its answer, the requests answered with success
\* are the records in use, each with the timer that reports it.
THEOREM RecordsServe == ASSUME ~Overlap PROVE DropsSpec => []RecordsServeRequests
<1>1. ASSUME DropsInv, Settled PROVE RecordsServeRequests
  <2>1. \A s \in Slots : Free(s) \/ Serves(s)
    BY <1>1, SettledTable
  <2>2. \A s \in Slots : db[s].in_use =>
          /\ armed[s] = IF timer[s].in_use THEN 1 ELSE 0
          /\ timer[s].in_use \/ TimerFaults
          /\ timer[s].cmd = "GET_CGSN" /\ timer[s].index = db[s].id
    BY <2>1 DEF Free, Serves
  <2>3. \A id \in Ids : Recorded(id) <=> \E s \in Slots : db[s].in_use /\ db[s].id = id
    BY <1>1, <2>1, SettledTable, Numbers DEF Recorded, Free, Serves
  <2>4. \A s \in Slots : db[s].in_use => db[s].id \in Ids
    BY <2>1 DEF Free, Serves
  <2>5. accepted = {db[s].id : s \in {t \in Slots : db[t].in_use}}
    <3>1. accepted \subseteq Ids /\ \A id \in Ids : id \in accepted <=> Recorded(id)
      BY <1>1 DEF DropsInv, Types, AcceptedInv
    <3> QED BY <2>3, <2>4, <3>1
  <2> QED BY <2>2, <2>5 DEF RecordsServeRequests
<1>2. DropsInv => RecordsServeRequests
  BY <1>1 DEF RecordsServeRequests
<1> QED BY <1>2, DropsInvHolds, PTL

\* A cancellation works on the record of the active request that it names;
\* one with request-id 0, which cancel-request does not refuse, on a record
\* that is free, without a timer.
THEOREM CancelsWhatItNames == ASSUME ~Overlap PROVE DropsSpec => []CancelNamesRequest
<1>1. ASSUME DropsInv, cancel.pc \in {"delete", "clear", "rest"}
      PROVE  CancelNamesRequest
  <2>1. cancel.slot \in Slots /\ cancel.id \in CancelIds
    BY <1>1, CancelFields DEF DropsInv
  <2>2. ~Adding
    BY <1>1 DEF DropsInv, SerialInv, Adding
  <2>3. db[cancel.slot].id = cancel.id
    BY <1>1, <2>1 DEF DropsInv, TableInv, Clearing, BeingCleared
  <2>4. CASE cancel.id = 0
    <3>1. CASE Clearing
      BY <1>1, <2>1, <2>3, <2>4, <3>1 DEF DropsInv, TableInv, BeingCleared, CancelNamesRequest
    <3>2. CASE ~Clearing
      <4>1. Free(cancel.slot) \/ Serves(cancel.slot)
        BY <1>1, <2>1, <2>2, <3>2 DEF DropsInv, TableInv, AtRest
      <4> QED BY <2>3, <2>4, <4>1, Numbers DEF Free, Serves, CancelNamesRequest
    <3> QED BY <3>1, <3>2
  <2>5. CASE cancel.id # 0
    <3>1. db[cancel.slot].id \in Ids
      BY <1>1, <2>1, <2>3, <2>5 DEF DropsInv, Types, Record
    <3>2. Recorded(cancel.id)
      BY <2>1, <2>2, <2>3 DEF Recorded
    <3> QED BY <1>1, <2>3, <2>5, <3>1, <3>2 DEF DropsInv, AcceptedInv, CancelNamesRequest
  <2> QED BY <2>4, <2>5
<1>2. DropsInv => CancelNamesRequest
  BY <1>1 DEF CancelNamesRequest
<1> QED BY <1>2, DropsInvHolds, PTL
===============================================================================
