---------------------------- MODULE BstDropCounters ----------------------------
(***************************************************************************)
(* The periodic congestion-drop-counter requests of the BST application.   *)
(*                                                                         *)
(* A client asks once for drop counters (interval 0) or for a report every *)
(* interval.  A periodic request occupies a record of drop_ctrs_db with a  *)
(* timer of its own until it is cancelled.  Records are added and read by  *)
(* the application thread, which takes no lock, and cleared by the system  *)
(* utilities thread (cancel-request), which takes the unit's mutex: the    *)
(* mutex excludes nobody, so the steps of the two threads interleave.      *)
(*                                                                         *)
(* The collection of the counters themselves changes nothing here.         *)
(***************************************************************************)
EXTENDS Naturals, Sequences, FiniteSets

CONSTANTS
  Ids,           \* ids of the requests
  CancelIds,     \* request-ids of cancellations: any number, 0 included
  MaxRecords,    \* BVIEW_MAX_REQUESTS
  QueueSize,     \* messages that recvMsgQ holds
  Overlap,       \* whether a request may be cancelled before it is answered
  TimerFaults    \* whether the system may refuse to create or start a timer

MaxRequestId == 100000     \* the decoder refuses ids above it

ASSUME DropAssumption ==
  /\ Ids \subseteq 1 .. MaxRequestId
  /\ CancelIds \subseteq Nat
  /\ MaxRecords \in Nat \ {0}
  /\ QueueSize \in Nat \ {0}
  /\ Overlap \in BOOLEAN
  /\ TimerFaults \in BOOLEAN

Slots == 1 .. MaxRecords
NoSlot == 0

VARIABLES
  db,           \* drop_ctrs_db without its timers
  timer,        \* the cgsn_drop timers of drop_ctrs_db
  armed,        \* timers of the system that expire with this slot's context
  callbacks,    \* slots with a timer whose callback thread has started
  recvMsgQ,     \* drop counter messages for the application thread
  app,          \* where the application thread is, with its locals
  cancel,       \* where the system utilities thread is, with its locals
  waiting,      \* what clients wait for: an answer to a request or a cancel
  accepted,     \* history: periodic requests answered with success
  lastReport    \* history: id of the last periodic report

dbVars  == <<db, timer, armed>>
history == <<accepted, lastReport>>
dropsVars == <<db, timer, armed, callbacks, recvMsgQ, app, cancel, waiting,
          accepted, lastReport>>

-----------------------------------------------------------------------------
(* Records.                                                                 *)

\* An element of drop_ctrs_db: intrvl is 1 for any interval above 0.
Record == [in_use : BOOLEAN, id : Ids \cup {0}, intrvl : 0 .. 1]

\* index is the id in the timer's context.  The handle names a timer of the
\* system that will expire, one with interval 0, or none.
Timer == [in_use : BOOLEAN, index : Ids \cup {0}, cmd : {"GET_CGSN", "0"},
          handle : {"armed", "disarmed", "none"}]

FreeRecord == [in_use |-> FALSE, id |-> 0, intrvl |-> 0]
FreeTimer  == [in_use |-> FALSE, index |-> 0, cmd |-> "0", handle |-> "none"]

FirstOf(S) == IF S = {} THEN NoSlot ELSE CHOOSE s \in S : \A t \in S : s <= t

RecIndexButLast(id) == FirstOf({s \in Slots \ {MaxRecords} : db[s].id = id})

\* bst_drop_ctrs_db_get_rec_index looks at free records, too: their id is 0.
RecIndex(id) == FirstOf({s \in Slots : db[s].id = id})

FreeIndex == FirstOf({s \in Slots : ~db[s].in_use})

\* bst_periodic_collection_timer_delete for the timer of a record.
TimerDelete(s) ==
  IF timer[s].in_use /\ timer[s].handle # "none"
    THEN /\ timer' = [timer EXCEPT ![s].in_use = FALSE, ![s].index = 0,
                                   ![s].cmd = "0"]
         /\ armed' = [armed EXCEPT ![s] =
                        IF timer[s].handle = "armed" THEN @ - 1 ELSE @]
    ELSE UNCHANGED <<timer, armed>>

-----------------------------------------------------------------------------
(* Clients.  A client may ask again, whether or not its request is active.  *)

MayAsk(kind) == /\ kind \notin waiting
                /\ Overlap \/ waiting = {}

GetDropCounters ==
  /\ MayAsk("request")
  /\ Len(recvMsgQ) < QueueSize
  /\ \E id \in Ids, intrvl \in 0 .. 1 :
       recvMsgQ' = Append(recvMsgQ,
                          [type |-> "request", id |-> id, intrvl |-> intrvl])
  /\ waiting' = waiting \cup {"request"}
  /\ UNCHANGED <<dbVars, callbacks, app, cancel, history>>

CancelRequest ==
  /\ MayAsk("cancel")
  /\ cancel.pc = "receive"
  /\ \E id \in CancelIds : cancel' = [pc |-> "find", id |-> id, slot |-> NoSlot]
  /\ waiting' = waiting \cup {"cancel"}
  /\ UNCHANGED <<dbVars, callbacks, recvMsgQ, app, history>>

-----------------------------------------------------------------------------
(* The timers.                                                              *)

TimerExpires(s) ==
  /\ armed[s] > 0
  /\ s \notin callbacks
  /\ callbacks' = callbacks \cup {s}
  /\ UNCHANGED <<dbVars, recvMsgQ, app, cancel, waiting, history>>

(***************************************************************************)
(* The callback reads the context of its record's timer when it runs; a    *)
(* cleared context makes a message of type 0, which msgsnd refuses.  An    *)
(* interval is at least a second: the message of the last expiry has been  *)
(* served by then.                                                         *)
(***************************************************************************)
PeriodicCollectionCb(s) ==
  /\ s \in callbacks
  /\ \A i \in DOMAIN recvMsgQ : recvMsgQ[i].type = "periodic"
                                  => recvMsgQ[i].id # timer[s].index
  /\ callbacks' = callbacks \ {s}
  /\ recvMsgQ' =
       IF timer[s].cmd # "0" /\ Len(recvMsgQ) < QueueSize
         THEN Append(recvMsgQ, [type |-> "periodic", id |-> timer[s].index])
         ELSE recvMsgQ
  /\ UNCHANGED <<dbVars, app, cancel, waiting, history>>

-----------------------------------------------------------------------------
(* The application thread: bst_get_cgsn_drp_ctrs.                           *)

AnswerRequest ==
  /\ waiting' = waiting \ {"request"}
  /\ app' = [pc |-> "receive"]

Receives(type) ==
  /\ app.pc = "receive"
  /\ recvMsgQ # <<>>
  /\ Head(recvMsgQ).type = type
  /\ recvMsgQ' = Tail(recvMsgQ)

\* ALREADY_CONFIGURED: the id is in use.
RefuseDuplicate ==
  /\ Receives("request")
  /\ RecIndex(Head(recvMsgQ).id) # NoSlot
  /\ AnswerRequest
  /\ UNCHANGED <<dbVars, callbacks, cancel, history>>

\* Even a request without an interval is refused when the table is full.
RefuseTableFull ==
  /\ Receives("request")
  /\ RecIndex(Head(recvMsgQ).id) = NoSlot
  /\ FreeIndex = NoSlot
  /\ AnswerRequest
  /\ UNCHANGED <<dbVars, callbacks, cancel, history>>

ServeOnce ==
  /\ Receives("request")
  /\ RecIndex(Head(recvMsgQ).id) = NoSlot
  /\ FreeIndex # NoSlot
  /\ Head(recvMsgQ).intrvl = 0
  /\ AnswerRequest
  /\ UNCHANGED <<dbVars, callbacks, cancel, history>>

AddRecord ==
  /\ Receives("request")
  /\ RecIndex(Head(recvMsgQ).id) = NoSlot
  /\ FreeIndex # NoSlot
  /\ Head(recvMsgQ).intrvl # 0
  /\ app' = [pc |-> "store", id |-> Head(recvMsgQ).id, slot |-> FreeIndex]
  /\ UNCHANGED <<dbVars, callbacks, cancel, waiting, history>>

\* From one assignment to the next the record is open to other threads.
Goto(pc) == app' = [pc |-> pc, id |-> app.id, slot |-> app.slot]

StoreRequest ==
  /\ app.pc = "store"
  /\ db' = [db EXCEPT ![app.slot].intrvl = 1, ![app.slot].id = app.id]
  /\ Goto("in_use")
  /\ UNCHANGED <<timer, armed, callbacks, recvMsgQ, cancel, waiting, history>>

StoreInUse ==
  /\ app.pc = "in_use"
  /\ db' = [db EXCEPT ![app.slot].in_use = TRUE]
  /\ Goto("context")
  /\ UNCHANGED <<timer, armed, callbacks, recvMsgQ, cancel, waiting, history>>

FillContextWithSlot ==
  /\ app.pc = "context"
  /\ timer' = [timer EXCEPT ![app.slot].index = app.slot,
                            ![app.slot].cmd = "GET_CGSN"]
  /\ Goto("delete")
  /\ UNCHANGED <<db, armed, callbacks, recvMsgQ, cancel, waiting, history>>

\* bst_periodic_collection_timer_add
FillContext ==
  /\ app.pc = "context"
  /\ timer' = [timer EXCEPT ![app.slot].index = db[app.slot].id,
                            ![app.slot].cmd = "GET_CGSN"]
  /\ Goto("delete")
  /\ UNCHANGED <<db, armed, callbacks, recvMsgQ, cancel, waiting, history>>

ResetContext ==
  /\ app.pc = "delete"
  /\ timer' = [timer EXCEPT ![app.slot].index = 0, ![app.slot].cmd = "0"]
  /\ Goto("create")
  /\ UNCHANGED <<db, armed, callbacks, recvMsgQ, cancel, waiting, history>>

DeleteOldTimer ==
  /\ app.pc = "delete"
  /\ TimerDelete(app.slot)
  /\ Goto("create")
  /\ UNCHANGED <<db, callbacks, recvMsgQ, cancel, waiting, history>>

CreateTimer ==
  /\ app.pc = "create"
  /\ LET periodic == db[app.slot].intrvl > 0
     IN /\ timer' = [timer EXCEPT ![app.slot].handle =
                       IF periodic THEN "armed" ELSE "disarmed"]
        /\ armed' = [armed EXCEPT ![app.slot] = IF periodic THEN @ + 1 ELSE @]
  /\ Goto("armed")
  /\ UNCHANGED <<db, callbacks, recvMsgQ, cancel, waiting, history>>

\* system_timer_add creates no timer, or one that it cannot start.
CreateTimerFails ==
  /\ app.pc = "create"
  /\ TimerFaults
  /\ \E handle \in {timer[app.slot].handle, "disarmed"} :
       timer' = [timer EXCEPT ![app.slot].handle = handle]
  /\ Goto("failed")
  /\ UNCHANGED <<db, armed, callbacks, recvMsgQ, cancel, waiting, history>>

\* The first report answers the request, also when it has no timer.
AcceptRequest ==
  /\ app.pc \in {"armed", "failed"}
  /\ timer' = [timer EXCEPT ![app.slot].in_use = @ \/ app.pc = "armed"]
  /\ AnswerRequest
  /\ accepted' = accepted \cup {app.id}
  /\ lastReport' = 0
  /\ UNCHANGED <<db, armed, callbacks, recvMsgQ, cancel>>

PeriodicFind ==
  /\ Receives("periodic")
  /\ LET s == RecIndex(Head(recvMsgQ).id)
     IN app' = IF s = NoSlot THEN [pc |-> "receive"]
               ELSE [pc |-> "report", id |-> Head(recvMsgQ).id, slot |-> s]
  /\ UNCHANGED <<dbVars, callbacks, cancel, waiting, history>>

\* The request and its id are read from the record once more.
PeriodicDrops ==
  /\ app.pc = "report"
  /\ lastReport' = db[app.slot].id
  /\ app' = [pc |-> "receive"]
  /\ UNCHANGED <<dbVars, callbacks, recvMsgQ, cancel, waiting, accepted>>

-----------------------------------------------------------------------------
(* The system utilities thread: bst_cancel_request.                         *)

\* NOT_CONFIGURED if there is no record, SUCCESS once it has been cleared.
\* Request-id 0 finds the first record that is free.
AnswerCancel ==
  /\ waiting' = waiting \ {"cancel"}
  /\ cancel' = [pc |-> "receive"]

CancelFindUnchecked ==
  /\ cancel.pc = "find"
  /\ cancel' = [pc |-> "delete", id |-> cancel.id,
                slot |-> FirstOf({RecIndex(cancel.id), 1} \ {NoSlot})]
  /\ UNCHANGED <<dbVars, callbacks, recvMsgQ, app, waiting, history>>

CancelFind ==
  /\ cancel.pc = "find"
  /\ LET s == RecIndex(cancel.id)
     IN IF s = NoSlot
          THEN AnswerCancel
          ELSE /\ cancel' = [pc |-> "delete", id |-> cancel.id, slot |-> s]
               /\ UNCHANGED waiting
  /\ UNCHANGED <<dbVars, callbacks, recvMsgQ, app, accepted, lastReport>>

CancelDeleteTimer ==
  /\ cancel.pc = "delete"
  /\ TimerDelete(cancel.slot)
  /\ cancel' = [pc |-> "clear", id |-> cancel.id, slot |-> cancel.slot]
  /\ UNCHANGED <<db, callbacks, recvMsgQ, app, waiting, history>>

\* memset clears in_use first and the request, its id and the timer after it.
CancelClearInUse ==
  /\ cancel.pc = "clear"
  /\ db' = [db EXCEPT ![cancel.slot].in_use = FALSE]
  /\ cancel' = [pc |-> "rest", id |-> cancel.id, slot |-> cancel.slot]
  /\ UNCHANGED <<timer, armed, callbacks, recvMsgQ, app, waiting, history>>

CancelClearRest ==
  /\ cancel.pc = "rest"
  /\ db' = [db EXCEPT ![cancel.slot].id = 0, ![cancel.slot].intrvl = 0]
  /\ timer' = [timer EXCEPT ![cancel.slot] = FreeTimer]
  /\ AnswerCancel
  /\ accepted' = accepted \ {cancel.id}
  /\ UNCHANGED <<armed, callbacks, recvMsgQ, app, lastReport>>

-----------------------------------------------------------------------------
DropsInit ==
  /\ db = [s \in Slots |-> FreeRecord]
  /\ timer = [s \in Slots |-> FreeTimer]
  /\ armed = [s \in Slots |-> 0]
  /\ callbacks = {}
  /\ recvMsgQ = <<>>
  /\ app = [pc |-> "receive"]
  /\ cancel = [pc |-> "receive"]
  /\ waiting = {}
  /\ accepted = {}
  /\ lastReport = 0

AppThread == \/ RefuseDuplicate \/ RefuseTableFull \/ ServeOnce \/ AddRecord
             \/ StoreRequest \/ StoreInUse \/ FillContext \/ DeleteOldTimer
             \/ CreateTimer \/ CreateTimerFails \/ AcceptRequest
             \/ PeriodicFind \/ PeriodicDrops

CancelThread == \/ CancelFind \/ CancelDeleteTimer
                \/ CancelClearInUse \/ CancelClearRest

DropsNext ==
  \/ GetDropCounters
  \/ CancelRequest
  \/ \E s \in Slots : TimerExpires(s) \/ PeriodicCollectionCb(s)
  \/ AppThread
  \/ CancelThread

DropsSpec == DropsInit /\ [][DropsNext]_dropsVars

(***************************************************************************)
(* Threads run, armed timers expire and their callbacks run.               *)
(***************************************************************************)
DropsFairness ==
  /\ WF_dropsVars(AppThread)
  /\ WF_dropsVars(CancelThread)
  /\ \A s \in Slots : /\ WF_dropsVars(TimerExpires(s))
                      /\ WF_dropsVars(PeriodicCollectionCb(s))

DropsFairSpec == DropsSpec /\ DropsFairness

-----------------------------------------------------------------------------
(* Properties.                                                              *)

DropsTypeOK ==
  /\ db \in [Slots -> Record]
  /\ timer \in [Slots -> Timer]
  /\ armed \in [Slots -> Nat]
  /\ callbacks \subseteq Slots
  /\ recvMsgQ \in Seq([type : {"request"}, id : Ids, intrvl : 0 .. 1]
                      \cup [type : {"periodic"}, id : Ids \cup {0}])
  /\ app \in [pc : {"receive"}]
       \cup [pc : {"store", "in_use", "context", "delete", "create", "armed",
                   "failed", "report"}, id : Ids \cup {0}, slot : Slots]
  /\ cancel \in [pc : {"receive"}]
       \cup [pc : {"find"}, id : CancelIds, slot : {NoSlot}]
       \cup [pc : {"delete", "clear", "rest"}, id : CancelIds, slot : Slots]
  /\ waiting \subseteq {"request", "cancel"}
  /\ accepted \subseteq Ids
  /\ lastReport \in Ids \cup {0}

\* No record is being added or cleared.
Settled == /\ app.pc \in {"receive", "report"}
           /\ cancel.pc \in {"receive", "find"}

(***************************************************************************)
(* An id names at most one record: bst_get_cgsn_drp_ctrs refuses an id     *)
(* that is in use, whatever was added and cancelled before.                *)
(***************************************************************************)
NoDuplicateRecords ==
  \A s, t \in Slots : db[s].id = db[t].id /\ db[s].id # 0 => s = t

(***************************************************************************)
(* "clear the timer, if any": once a record is free, no timer is left that *)
(* would expire in its name.                                               *)
(***************************************************************************)
FreeRecordsHaveNoTimer ==
  Settled => \A s \in Slots : ~db[s].in_use => armed[s] = 0 /\ ~timer[s].in_use

(***************************************************************************)
(* The requests that clients believe active are the records in use, each   *)
(* with one armed timer whose context asks for that very request, unless   *)
(* the system refused the timer.                                           *)
(***************************************************************************)
RecordsServeRequests ==
  Settled =>
    /\ accepted = {db[s].id : s \in {t \in Slots : db[t].in_use}}
    /\ \A s \in Slots : db[s].in_use =>
         /\ armed[s] = IF timer[s].in_use THEN 1 ELSE 0
         /\ timer[s].in_use \/ TimerFaults
         /\ timer[s].cmd = "GET_CGSN" /\ timer[s].index = db[s].id

(***************************************************************************)
(* A periodic request whose timer could be started is reported until it is *)
(* cancelled: the callback, the queue and the table never lose it.         *)
(***************************************************************************)
Running(id) == \E s \in Slots : db[s].in_use /\ db[s].id = id /\ timer[s].in_use

PeriodicReportsSent ==
  \A id \in Ids : Running(id) ~> lastReport = id \/ id \notin accepted

(***************************************************************************)
(* A cancellation clears the record of the active request that it names,   *)
(* and no other.  The decoder takes request-id 0, too, which is the id of  *)
(* every free record: bst_cancel_request finds the first of them, clears   *)
(* it and answers with success.  It names no request, and what it clears   *)
(* never is a record in use or one with a timer.                           *)
(***************************************************************************)
CancelNamesRequest ==
  cancel.pc \in {"delete", "clear", "rest"} =>
    /\ db[cancel.slot].id = cancel.id
    /\ IF cancel.id = 0
         THEN /\ ~db[cancel.slot].in_use
              /\ ~timer[cancel.slot].in_use /\ armed[cancel.slot] = 0
         ELSE cancel.id \in accepted

(***************************************************************************)
(* The table of periodic requests: a record is for one id and an id has    *)
(* one record, whatever was added and cancelled before, and once a record  *)
(* is free no timer is left that would expire in its name.                 *)
(***************************************************************************)
TableSound == DropsTypeOK /\ NoDuplicateRecords /\ FreeRecordsHaveNoTimer

=============================================================================
