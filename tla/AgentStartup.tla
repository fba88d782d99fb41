---------------------------- MODULE AgentStartup ----------------------------
(***************************************************************************)
(* Starting the agent (infrastructure/system/system.c), the main functions *)
(* of its applications, the first steps of their threads, and the module   *)
(* manager in which they register.  The main thread goes on after every    *)
(* failure; the threads it created run meanwhile.  Message queues outlive  *)
(* the process: a crash leaves their messages to the next run.             *)
(***************************************************************************)
EXTENDS Naturals, Sequences, SequencesExt, FiniteSets

CONSTANTS Built,         \* applications compiled in: FEAT_BST, FEAT_PT, FEAT_BHD
          MaxModules,    \* BVIEW_MAX_MODULES: slots of the module manager
          MsgQueueSize,  \* messages a queue holds
          MaxRuns,       \* bound: runs of the agent, the first one included
          MaxFailures,   \* bound: steps of a run in which a call fails
          MaxAsked       \* bound: requests and triggers per run

ASSUME StartupAssumption ==
  /\ Built \subseteq {"bst", "pt", "bhd"} /\ MaxModules >= 4 /\ MaxRuns >= 1
  /\ {MaxModules, MsgQueueSize, MaxRuns, MaxFailures, MaxAsked} \subseteq Nat

Modules == Built \cup {"sys"}
Queues == Modules \cup {"trigger"}
Free == "free"

VARIABLES main,        \* what the main thread starts, and its step there
          memory,      \* of each application: "none", "held" or "freed"
          sysv,        \* the queues of the operating system: absent, or the runs that sent their messages
          qid,         \* what the agent knows of each: "zero", "own" or "invalid"
          thread,      \* where the threads are
          moduleData,  \* the module manager's slots
          found,       \* who holds the module manager's lock, and the slot it found
          callback,    \* the switch has the trigger callback
          rest,        \* "off", "up" or "failed"
          kept,        \* queues of an earlier run that could not be removed
          refused,     \* queues that msgget would not make, or find
          run, failures, asked

startVars == <<main, memory, sysv, qid, thread, moduleData, found, callback, rest, kept, refused, run, failures, asked>>

Absent == <<0>>            \* there is no run 0
NoOne == [owner |-> Free, slot |-> 1]

(* What is started, in this order; the applications that are not built are *)
(* passed over.                                                            *)
StartOrder == <<"bst", "pt", "bhd", "sys", "rest">>
AllStarted == 6
NextStarted(i) ==
  CHOOSE k \in (i + 1)..AllStarted :
    /\ k < AllStarted => StartOrder[k] \in Modules \cup {"rest"}
    /\ \A j \in (i + 1)..(k - 1) : StartOrder[j] \notin Modules \cup {"rest"}

(* pt_main, bhd_main and system_utils_main; in bst_main the trigger queue  *)
(* and its thread come after the thread that has the switch's callback.    *)
QueueThenThread == <<"memory", "config", "queue", "thread">>
StepsOf(a) ==
  CASE a = "bst" -> <<"memory", "config", "queue", "thread", "triggerQueue", "triggerThread">>
    [] a = "rest" -> <<"rest">>
    [] OTHER -> QueueThenThread

(* bview_system_init_ph2. *)
InitPh2 == [at |-> NextStarted(0), step |-> 1]

StartsWith(first) ==
  /\ main = first
  /\ memory = [a \in Modules |-> "none"]
  /\ qid = [q \in Queues |-> "zero"]
  /\ thread = [q \in Queues |-> "none"]
  /\ moduleData = [s \in 1..MaxModules |-> Free]
  /\ found = NoOne
  /\ callback = FALSE
  /\ rest = "off"
  /\ kept = {} /\ refused = {}
  /\ asked = 0
  /\ sysv = [q \in Queues |-> Absent] /\ run = 1 /\ failures = 0

StartupInit == StartsWith(InitPh2)

----------------------------------------------------------------------------
(* The main thread. *)
Starting == StartOrder[main.at]
Next1(what) == main.at < AllStarted /\ StepsOf(Starting)[main.step] = what
GivesUp == main' = [at |-> NextStarted(main.at), step |-> 1]
GoesOn == IF main.step < Len(StepsOf(Starting)) THEN main' = [main EXCEPT !.step = @ + 1] ELSE GivesUp
Fails == failures < MaxFailures /\ failures' = failures + 1
Fine == UNCHANGED failures

(* The uninit functions, with the queues as left: the memory is freed, and *)
(* msgget with IPC_EXCL finds the queue there - then its id is lost and it *)
(* stays - or makes it, or is refused.                                     *)
UndoneFrom(left, apps) ==
  /\ memory' = [a \in Modules |-> IF a \in apps /\ memory[a] = "held" THEN "freed" ELSE memory[a]]
  /\ \E made \in SUBSET {a \in apps : left[a] = Absent} :
       /\ qid' = [q \in Queues |-> IF q \notin apps THEN qid[q] ELSE IF q \in made THEN "own" ELSE "invalid"]
       /\ sysv' = [q \in Queues |-> IF q \in made THEN << >> ELSE left[q]]
Undone(apps) == UndoneFrom(sysv, apps)

(* The number of units, and the memory: the agent's own tables have no     *)
(* uninit when there is no memory for them.                                *)
MemoryStep ==
  /\ Next1("memory")
  /\ LET a == Starting IN
       \/ GoesOn /\ Fine /\ memory' = [memory EXCEPT ![a] = "held"] /\ UNCHANGED <<sysv, qid>>
       \/ GivesUp /\ Fails /\ Undone({a})
       \/ a = "sys" /\ GivesUp /\ Fails /\ UNCHANGED <<memory, sysv, qid>>
  /\ UNCHANGED <<thread, moduleData, found, callback, rest, kept, refused, run, asked>>

(* The defaults; what fails here keeps the memory. *)
ConfigStep ==
  /\ Next1("config")
  /\ \/ GoesOn /\ Fine
     \/ Starting # "sys" /\ GivesUp /\ Fails
  /\ UNCHANGED <<memory, sysv, qid, thread, moduleData, found, callback, rest, kept, refused, run, asked>>

QueueToMake == IF Next1("triggerQueue") THEN "trigger" ELSE Starting

(* A bug to tell apart: a queue that is there already is used as it is. *)
MsgGetAsItIs(q) ==
  /\ Fine /\ UNCHANGED kept
  /\ sysv' = [sysv EXCEPT ![q] = IF sysv[q] = Absent THEN << >> ELSE sysv[q]]

(* msgget: a new queue, or the one found is removed and made again; that   *)
(* it cannot be removed is logged, and it is used as it is.                *)
MsgGet(q) ==
  \/ Fine /\ UNCHANGED kept /\ sysv' = [sysv EXCEPT ![q] = << >>]
  \/ sysv[q] # Absent /\ Fails /\ kept' = kept \cup {q} /\ UNCHANGED sysv

(* The first msgget is refused, and not because the queue is there: no     *)
(* path handles it, and the thread is created with the id of no queue.     *)
MsgGetRefused(q) ==
  /\ GoesOn /\ Fails
  /\ qid' = [qid EXCEPT ![q] = "invalid"]
  /\ refused' = refused \cup {q}
  /\ UNCHANGED <<memory, sysv, kept>>

(* With a queue found: it is not found again; or made again, and its state *)
(* cannot be read (packet trace and black hole alone look at it); or, what *)
(* is undone, not made again.                                              *)
FoundAndLost(a, q) ==
  /\ sysv[q] # Absent
  /\ GivesUp /\ Fails
  /\ UNCHANGED <<kept, refused>>
  /\ \/ UNCHANGED <<memory, sysv, qid>>
     \/ a \in {"pt", "bhd"} /\ sysv' = [sysv EXCEPT ![q] = << >>] /\ UNCHANGED <<memory, qid>>
     \/ \E left \in {sysv, [sysv EXCEPT ![q] = Absent]} : UndoneFrom(left, {a})

QueueStep ==
  /\ Next1("queue") \/ Next1("triggerQueue")
  /\ LET q == QueueToMake
     IN \/ /\ MsgGet(q) /\ GoesOn
           /\ qid' = [qid EXCEPT ![q] = "own"]
           /\ UNCHANGED <<memory, refused>>
        \/ MsgGetRefused(q)
        \/ FoundAndLost(Starting, q)
  /\ UNCHANGED <<thread, moduleData, found, callback, rest, run, asked>>

ThreadStep ==
  /\ Next1("thread")
  /\ LET a == Starting IN
       \/ GoesOn /\ Fine /\ thread' = [thread EXCEPT ![a] = "registers"]
       \/ GivesUp /\ Fails /\ UNCHANGED thread
  /\ UNCHANGED <<memory, sysv, qid, moduleData, found, callback, rest, kept, refused, run, asked>>

TriggerThreadStep ==
  /\ Next1("triggerThread")
  /\ GoesOn
  /\ \/ Fine /\ thread' = [thread EXCEPT !["trigger"] = "serves"]
     \/ Fails /\ UNCHANGED thread
  /\ UNCHANGED <<memory, sysv, qid, moduleData, found, callback, rest, kept, refused, run, asked>>

(* rest_init; when it fails, bview_system_deinit undoes every application  *)
(* while their threads run.                                                *)
RestStep ==
  /\ Next1("rest")
  /\ GoesOn
  /\ \/ Fine /\ rest' = "up" /\ UNCHANGED <<memory, sysv, qid>>
     \/ Fails /\ rest' = "failed" /\ Undone(Modules)
  /\ UNCHANGED <<thread, moduleData, found, callback, kept, refused, run, asked>>

----------------------------------------------------------------------------
(* modulemgr_register, by the application's thread: the search and the     *)
(* entry under one write lock.                                             *)
FreeSlot1 == CHOOSE s \in 1..MaxModules : moduleData[s] = Free /\ \A t \in 1..(s - 1) : moduleData[t] # Free

ModuleSearch(a) ==
  /\ thread[a] = "registers"
  /\ found.owner = Free
  /\ found' = [owner |-> a, slot |-> FreeSlot1]
  /\ thread' = [thread EXCEPT ![a] = "enters"]
  /\ UNCHANGED <<main, memory, sysv, qid, moduleData, callback, rest, kept, refused, run, failures, asked>>

(* A bug to tell apart: the lock is not given back. *)
ModuleEnterAndHold(a) ==
  /\ thread[a] = "enters"
  /\ moduleData' = [moduleData EXCEPT ![found.slot] = a]
  /\ thread' = [thread EXCEPT ![a] = "prepares"]
  /\ UNCHANGED <<main, memory, sysv, qid, found, callback, rest, kept, refused, run, failures, asked>>

ModuleEnter(a) ==
  /\ thread[a] = "enters"
  /\ moduleData' = [moduleData EXCEPT ![found.slot] = a]
  /\ found' = NoOne
  /\ thread' = [thread EXCEPT ![a] = "prepares"]
  /\ UNCHANGED <<main, memory, sysv, qid, callback, rest, kept, refused, run, failures, asked>>

(* What the thread does next, ending when the switch fails - registered    *)
(* all the same: BST gives the switch its callback and asks for the        *)
(* capabilities, the agent's thread collects the properties of the switch. *)
Prepare(a) ==
  /\ thread[a] = "prepares"
  /\ \/ Fine /\ thread' = [thread EXCEPT ![a] = "serves"]
     \/ Fails /\ thread' = [thread EXCEPT ![a] = "ended"]
  /\ callback' \in (IF a # "bst" THEN {callback} ELSE IF thread'[a] = "serves" THEN {TRUE} ELSE BOOLEAN)
  /\ UNCHANGED <<main, memory, sysv, qid, moduleData, found, rest, kept, refused, run, asked>>

----------------------------------------------------------------------------
(* Requests, triggers and the threads that serve them. *)
Holds(q) == qid[q] = "own" /\ sysv[q] # Absent
Post(q) == sysv' = [sysv EXCEPT ![q] = Append(sysv[q], run)]
Room(q) == Holds(q) /\ Len(sysv[q]) < MsgQueueSize

(* The REST thread finds the handler in the module manager and posts. *)
RestRequest(a) ==
  /\ rest = "up"
  /\ \E s \in 1..MaxModules : moduleData[s] = a
  /\ Room(a)
  /\ asked < MaxAsked /\ asked' = asked + 1
  /\ Post(a)
  /\ UNCHANGED <<main, memory, qid, thread, moduleData, found, callback, rest, kept, refused, run, failures>>

(* The switch calls bst_trigger_cb. *)
SwitchTrigger ==
  /\ callback
  /\ Room("trigger")
  /\ asked < MaxAsked /\ asked' = asked + 1
  /\ Post("trigger")
  /\ UNCHANGED <<main, memory, qid, thread, moduleData, found, callback, rest, kept, refused, run, failures>>

(* The trigger thread asks the application for a report. *)
TriggerServed ==
  /\ thread["trigger"] = "serves"
  /\ Holds("trigger") /\ sysv["trigger"] # << >>
  /\ sysv' = IF Room("bst")
             THEN [sysv EXCEPT !["trigger"] = Tail(@), !["bst"] = Append(@, run)]
             ELSE [sysv EXCEPT !["trigger"] = Tail(@)]
  /\ UNCHANGED <<main, memory, qid, thread, moduleData, found, callback, rest, kept, refused, run, failures, asked>>

(* The loop of the application's thread. *)
Serve(a) ==
  /\ thread[a] = "serves"
  /\ Holds(a) /\ sysv[a] # << >>
  /\ sysv' = [sysv EXCEPT ![a] = Tail(@)]
  /\ UNCHANGED <<main, memory, qid, thread, moduleData, found, callback, rest, kept, refused, run, failures, asked>>

(* A thread that reads an invalid queue gives up, unless it waits already  *)
(* in the queue it had: eleven failing msgrcv in a row.                    *)
ReadsFail(q) ==
  /\ thread[q] = "serves" /\ qid[q] = "invalid"
  /\ thread' = [thread EXCEPT ![q] = "ended"]
  /\ UNCHANGED <<main, memory, sysv, qid, moduleData, found, callback, rest, kept, refused, run, failures, asked>>

(* The process ends - a signal, a fault - and is started again: the        *)
(* operating system keeps the queues.                                      *)
Restart ==
  /\ run < MaxRuns /\ run' = run + 1
  /\ main' = InitPh2
  /\ memory' = [a \in Modules |-> "none"]
  /\ qid' = [q \in Queues |-> "zero"]
  /\ thread' = [q \in Queues |-> "none"]
  /\ moduleData' = [s \in 1..MaxModules |-> Free]
  /\ found' = NoOne
  /\ callback' = FALSE
  /\ rest' = "off"
  /\ kept' = {} /\ refused' = {}
  /\ asked' = 0
  /\ failures' = 0
  /\ UNCHANGED sysv

MainStep == MemoryStep \/ ConfigStep \/ QueueStep \/ ThreadStep \/ TriggerThreadStep \/ RestStep
AppStep(a) == ModuleSearch(a) \/ ModuleEnter(a) \/ Prepare(a) \/ Serve(a)

StartupNext ==
  \/ MainStep
  \/ \E a \in Modules : AppStep(a) \/ RestRequest(a)
  \/ \E q \in Queues : ReadsFail(q)
  \/ TriggerServed \/ SwitchTrigger \/ Restart

(* The operating system schedules every thread. *)
StartupFairness == WF_startVars(MainStep) /\ WF_startVars(TriggerServed) /\ \A a \in Modules : WF_startVars(AppStep(a))
StartupSpec == StartupInit /\ [][StartupNext]_startVars /\ StartupFairness

----------------------------------------------------------------------------
(* Types; an application's memory is freed and its thread ends at most once. *)
StartupTypeOK ==
  /\ main.at < AllStarted => Starting \in Modules \cup {"rest"} /\ main.step \in DOMAIN StepsOf(Starting)
  /\ memory \in [Modules -> {"none", "held", "freed"}]
  /\ \A q \in Queues : sysv[q] = Absent \/ (Len(sysv[q]) <= MsgQueueSize /\ ToSet(sysv[q]) \subseteq 1..run)
  /\ qid \in [Queues -> {"zero", "own", "invalid"}]
  /\ thread \in [Queues -> {"none", "registers", "enters", "prepares", "serves", "ended"}]
  /\ moduleData \in [1..MaxModules -> Modules \cup {Free}]
  /\ found.owner \in Modules \cup {Free} /\ callback \in BOOLEAN /\ kept \cup refused \subseteq Queues
  /\ rest \in {"off", "up", "failed"} /\ run \in 1..MaxRuns /\ failures <= MaxFailures /\ asked <= MaxAsked

(* A queue the agent reads holds nothing that was sent before it started,  *)
(* unless the operating system would not remove it: the session a message  *)
(* names would be another client's.                                        *)
OwnRunOnly == \A q \in Queues \ kept : Holds(q) => ToSet(sysv[q]) \subseteq {run}

(* The application was undone with its thread running: its trigger queue   *)
(* could not be made again, or REST did not start.                         *)
UndoneRunning == {a \in Modules : rest = "failed" \/ (a = "bst" /\ memory[a] = "freed" /\ qid["trigger"] = "zero")}

(* The threads find the memory of their application, and a request for a   *)
(* feature that is registered finds its queue: but for the two ways above  *)
(* no failure takes them from a thread that runs, and but for a queue that *)
(* msgget refused in the first place none runs without.                    *)
ThreadsProvided ==
  \A a \in Modules \ UndoneRunning :
    thread[a] # "none" => memory[a] = "held" /\ (a \notin refused => Holds(a))

(* The module manager has each application that registered, once.          *)
EachRegisteredOnce ==
  \A a \in Modules :
    Cardinality({s \in 1..MaxModules : moduleData[s] = a})
      = IF thread[a] \in {"prepares", "serves", "ended"} THEN 1 ELSE 0

(* Every thread that starts comes to serve or ends by the switch's fault,  *)
(* and what waits for one that serves is taken.                            *)
ThreadsStart == \A a \in Modules : thread[a] = "registers" ~> thread[a] \in {"serves", "ended", "none"}
RequestsTaken ==
  \A a \in Modules :
    thread[a] = "serves" /\ Holds(a) /\ sysv[a] # << >> ~> thread[a] # "serves" \/ ~Holds(a) \/ sysv[a] = << >>
=============================================================================
