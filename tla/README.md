# A verification project for the BroadView instrumentation agent

This directory holds TLA+ specifications of the BroadView agent (the C program
under `src/`), TLC configurations that check them on small instances, and
theorems about them that TLAPS checks.  Paths below are relative to the
repository, so `src/src/apps/bst/bst.c` is the BST application; file names
without a path are those of that tree.

Contents: [the system](#the-system) · [what is hard](#what-is-hard) ·
[the modules](#the-modules) · [the runs](#the-runs) ·
[divergences found](#divergences-found) · [the proofs](#the-proofs) ·
[what is left](#what-is-left)

## The system

The agent runs beside a switch's network stack.  It collects statistics from the
ASIC, answers JSON requests about them over REST, and sends reports to a
collector, periodically or when a counter crosses a threshold.  It is one
process with a thread for each part; the parts talk through System V message
queues (`msgsnd`/`msgrcv`), callbacks and shared tables.

    REST client --HTTP--> REST server thread --handler lookup--> Module manager
                               |                                     |
                               | msgsnd (IPC_NOWAIT)                 | feature names
                               v                                     v
     timer threads --msgsnd-> application threads  (BST, Packet Trace, BHD,
     (SIGEV_THREAD)            |      |             system utilities)
                               |      | answer: rest_response_send, close, free
                               |      +------------> REST session, collector
                               v
              South-bound redirector (read/write lock over the plugin table)
                               |
          StrataXGS plugin / OVSDB plugin --ASIC events--> trigger thread of BST
                               |
          Packet multiplexer <-- sampled packets; callbacks --> Packet Trace, BHD

| Component (sources) | State it keeps | Operations | What makes it correct | Modules |
|---|---|---|---|---|
| BST application (`apps/bst`): configuration, triggers, timers | per-unit configuration under a rwlock, `bst_trigger_count`, two timers, two message queues | configure feature/tracking, trigger callback, trigger reports, clearing of counts, timers | no window exceeds the rate limit; tracking always resumes; timers follow the configuration; what is acknowledged is configured | `BstApp` |
| BST: congestion drop counters | `drop_ctrs_db`: 8 records, each with a timer | get (once/periodic), expiry, cancel | one record per id; no timer outlives its record; active requests are reported | `BstDropCounters`, `DropDocuments` |
| BST: reports and thresholds | three snapshot records and their pointers, the threshold cache | get, periodic, trigger report, clear, set thresholds | records never shared; incremental reports add up to the ASIC's counters; a threshold reaches the object and only the object it was asked for | `BstReports`, `BstThresholds`, `BstDocuments` |
| REST server and client (`nb_plugin/rest`) | 5 sessions, descriptors | accept, read, dispatch, answer, send a report | each answer reaches its client; nothing leaks; every request ends | `RestServer` |
| JSON decoders (`apps/*/api`) | the parsed document | read and check each member | nothing incomplete is handed over; the document is released once | `JsonCommands`, `JsonRequests` |
| JSON encoders (`apps/*/api`) | the text so far | append, step back over a separator | documents parse; they tell what was counted | `ReportText`, `BstDocuments`, `DropDocuments`, `PacketDocuments` |
| JSON memory pools (4 instances) | 20 small and 4 large slices | allocate, free | a slice has one owner; none is lost unnoticed | `JsonMemory` |
| Module manager (`modulemgr.c`), start-up (`system.c`, the `*_main` functions) | table of features; threads, memory, queues of each application | register, start, undo, restart | a thread that runs has what it uses; nothing of an earlier run is served | `AgentStartup` |
| Packet multiplexer | hooks with application, queue and callback | register, deregister, dispatch | one hook per application; a packet reaches its application | `PacketMux` |
| Packet Trace (`apps/packet_trace`) and its rules in the switch | table of profiles, timers, rule table | feature, get, tick, packet, cancel | table, timers and rules agree; limits hold; profiles are reported | `PacketTrace`, `PtRules` |
| Black Hole Detection (`apps/bhd`) and its policies | per-unit configuration, samples, timer, hook | feature, configure, cancel, tick, packet | timer and switch agree with the configuration; limits hold | `BlackHole`, `BhdPolicy` |
| System utilities, registration and heartbeat (`system_utils`, `reg_hb`) | heartbeat configuration, timer, sessions | configure, get, tick, cancel | heartbeats at the configured interval; every session accounted for | `Heartbeat` |
| South-bound redirector | table of plug-ins, rwlock | register, choose, call | no call waits for ever; the right plug-in is chosen | `Redirector` |
| OVSDB plug-in (`sb_ovsdb`) | cache of the database under a rwlock | monitor, get, set | what it tells is what the database had; no read keeps the lock | `OvsdbBst` |
| StrataXGS plug-ins (`sb_brcm`) | per-unit callbacks, trace rules, groups | the `sbapi_*` calls | agrees with the SDK's state | parts of `BstApp`, `BstThresholds`, `PtRules`, `BhdPolicy` |
| Timers, logging, configuration files | handles; files read once | create, start, delete | timers appear in the modules that use them | see `PROJECT.json` |

`PROJECT.json` lists all 22 components with their sources and status.

### How the parts interact

- *REST to application.*  The server thread stores the connection in a session,
  passes the session as an opaque cookie in a message and returns to `accept`.
  The application answers through the cookie, closes the connection and frees
  the session from its own thread (`rest_api.c:109-236`).
- *Timers to application.*  A timer's callback runs on a thread of its own, reads
  the timer's context when it runs, and posts a message.
- *ASIC to BST.*  A trigger runs a callback on the switch's thread, after the ASIC
  has stopped tracking the counter's group; it posts to the trigger thread, which
  posts to the application thread, which tracks the group again.
- *Application to ASIC.*  Through the redirector, which holds its read lock during
  the call.
- *Cancellation.*  `cancel-request` runs on the system utilities thread and calls
  into the application's tables.

## What is hard

`PROJECT.json` lists the forty hazards that matter most at the lines where they bite,
each with the properties that cover it and, where none does or only in part, what is left
open; smaller ones are under *Known behaviour* below.  They fall into six groups.

1. *Check, unlock, act.*  `bst_process_trigger` reads the limit and the count
   under a lock, posts a report without one and counts it under another; the drop
   counter table is changed by the application thread without the mutex that the
   cancelling thread takes; the multiplexer dispatches without the lock that guards
   its hooks; the redirector takes its read lock twice.
2. *Contexts and tables used again.*  Session indices, file descriptors, timer
   contexts, table slots and rule ids are reused, and the threads that hold their
   numbers are told by nobody.
3. *Messages that are refused, or outlive their sender.*  Nearly every queue is
   written with `IPC_NOWAIT`: a trigger or a tick that finds it full is gone.  System V
   queues outlive the process: a restarted agent finds the messages of its
   predecessor, which name sessions that are now another client's.
4. *One step of several fails.*  Encoders, timers, ASIC calls, threads, queues and
   transactions may fail after the state around them has changed.
5. *Two records of one fact.*  `bstEnable` and the ASIC's own state, the records
   and what the collector has been sent, profiles, timers and rules, the cache and
   the database.
6. *Boundaries of text and numbers.*  Lists that turn out empty under an encoder that
   steps back over its last comma, ranges that end one early or late, thresholds that
   go through two conversions.

## The modules

Each module names the code's functions in its comments, and `PROJECT.json` maps
every definition to the lines it stands for.  Some definitions are deliberately wrong
variants of the one that follows them (`MutedLate`, `FirstEntry`, `RowGetSwapped` ...;
`mutants` in `PROJECT.json` lists them).  No specification uses one: it takes the
other's place to test that the property named with it is able to fail.

### BstApp: configuration, rate limiter, timers

One unit of the BST application with its application thread (`app`), trigger thread
(`trigger`), timer callback threads (`callbacks`), the REST and ASIC threads that
post, the two queues and the groups of buffers that the ASIC tracks (`hwGroups`).

| Code | Model |
|---|---|
| a section under `BST_RWLOCK_*` | one action; `ProcessTrigger`, `SendTriggerReport`, `TriggerTimerAdd` and `CountTrigger` are the four parts of `bst_process_trigger` |
| `msgsnd(.., IPC_NOWAIT)` | `Post`: a message for a full queue is dropped |
| `bst_config_feature_set` | `SetFeature` (under the lock), `FeatureInSync` (ASIC read), `FeatureProgrammed` (ASIC written) |
| `bst_periodic_collection_timer_add/_delete` | `CollectionTimerAdd/Delete`, with the clearing of the context that the former suffers from the latter |
| `sbapi_bst_config_get/_set` | `SbConfigGet`, `SbConfigSet`; a failed set may have switched the groups already |
| a trigger | `AsicTrigger(c)`: the group stops being tracked *before* the message is posted |

Abstracted: JSON, the contents of reports (`BstReports`), thresholds (`BstThresholds`), all units but
one (units share the queues but no other state), and realms other than through
`GroupOf`.  `ackedEnable`, `sent` and `windowLimit` are history variables.  Fields of
requests are in the ranges that the decoders accept; a limit of 0 cannot be
configured (`configure_bst_feature.c:169-180`), so it does not occur.

### BstDropCounters: the table of periodic requests

`drop_ctrs_db` with its timers, the application thread (`app`) that adds a record in
six steps, and the system utilities thread (`cancel`) that clears one in four.  The
steps are the assignments that the other thread can see, in the code's order:
`bst_cancel_request` takes a mutex that the application thread does not.
`timer[s].handle` is what `system_timer_delete` is given; `armed[s]` counts the POSIX
timers that will really expire with slot `s` as their context.  Free records keep id
0, and the lookup compares ids without looking at `in_use`, as in the code.
`Overlap` says whether a cancellation may arrive before its request was answered;
`TimerFaults` whether a timer may be refused.

### RestServer: sessions and connections

The server thread and the application threads, the session table, and the process's
descriptors.  `fds[f]` is the *other end* of descriptor `f`, `session[s].fd` and
`thread[t].fd` are the numbers the program stored; an answer goes to whoever is at
the other end when it is sent.  `backlog` holds the connections that the system has
established and the server has not accepted: as many as `listen` asks for
(`rest_http_server.c:443`), and their clients may hang up there.  The system gives out
the lowest free descriptor, so a number that is closed is soon another's.  `for` (the client a request came from)
is not in the program; `RightConnection` compares it with the other end.  `Cases`
switches on what can go wrong: clients that hang up, requests that cannot be read or
parsed, statuses without an error text, encoders that fail.

### BstReports: what reports contain

The three records and their pointers, the ASIC's counters, and the collector's view
of them.  A request is one step, since all of it runs on the application thread.
`Included` is the encoder's rule for leaving a counter out, `Rotated` the rotation
of `bst_update_data`, which every report performs, `Collected(FALSE)` a collection
that stopped half-way.  `arrived` and `undisturbed` are history variables, used by
the properties only.

### BstThresholds, ThresholdStore: thresholds

From the command (`bst_nb_api.c`) through the conversion and the cache (`bst.c`) to the
switch (`sbplugin_common_bst.c`); one object of one of the eleven realms is followed.
A command names some thresholds; the others are read from the cache and written again,
one SDK call each, and each may fail unless `steady`.  Values keep their units: bytes,
cells of `CellToByte` bytes, or percent of `MaxCells`.  `ThresholdStore` is the abstract
specification: a store in which a command that succeeds sets what it names and nothing
else, and one that is refused sets nothing; only a switch that fails may do otherwise.
`ThresholdsKept` says that the application implements it, with `hw` as the store and
`~steady` as the switch that may fail.

### JsonCommands, JsonRequests: decoders

`JsonCommands` gives for each of the 29 commands the members its decoder reads, in the
order it reads them, with kind, range, and whether they may be missing.  `JsonRequests`
is a decoder at work: it reads one member after the other, leaves at the first that is
missing or wrong, and releases the parsed document - or not: the macros of
`public/json.h` differ, and `Refusals` says which does what.  What a member holds is
chosen when it is read.

### ReportText, BstDocuments, DropDocuments, PacketDocuments: encoders

A text is a sequence of tokens: brackets, commas, spaces at the end of a template, and
whole entries.  This is as much as the question "does a parser take it?" needs, for the
encoders append pieces and step back over the last character they wrote, which is not
always the comma they mean.  `BstDocuments` has reports of statistics and thresholds
with a counter for every realm and index, `DropDocuments` also the collection and the
partial sort of drop counters, `PacketDocuments` the sections of a trace, events, and
the switch properties.

### JsonMemory: pools

Slices, the document being written, and those that encoders left behind.  Four
instances of one code; `pool` says whose.

### PacketMux, PacketTrace, PtRules, BlackHole, BhdPolicy: packets

| Code | Model |
|---|---|
| `pkt_mux_register/_deregister`, under a mutex | one action for each write to a hook: the dispatcher reads them without the mutex |
| `pkt_mux_main` | `PktMuxMain`: receive, compare a hook, call it |
| blocking `msgsnd` in the receive callback | `PacketHandler`, `PacketPosted`: the receiver waits for room |
| the packet trace thread | `PtAppMain`: one message, from the check to the report |
| timers | `PeriodicCollectionCb(s)`; `running[s]` counts the POSIX timers with slot `s` as context, `pt_timer[s]` is what the application knows |
| field-processor rules | `PtRules`: the switch's rules, the plug-in's table, the policy that limits copies |
| `bhd_*` requests, ticks and packets | `BhdAppMain`, with the plug-in's calls of `BhdPolicy` in their order |

`careful` separates two kinds of client of packet trace.  Careful ones use an id once at
a time and cancel in the order the slot search can follow; properties about what a
client was told are for them.  The others do what they like; limits, types and the
agreement of timer and profile are checked for them too, and that what the plug-in's table
promises is in the switch (`TablePromisesRules`).  `trouble` does the same for
black holes: no fault on one unit, faults on one unit, or two units.  That what is sampled
arrives (`SampledPacketsArrive`) is claimed with faults, too; that the switch has nothing
besides (`SwitchMatchesConfig`) only without.  Several units in
use are combined with chip `td2` only, since chips differ in the calls, not in what
the units share.  `SampledReports` is the abstract specification of both applications:
per subject (a profile, a unit) at most so many reports between two ticks, none without
sampling.

### AgentStartup: start, failure, restart

The main thread works off the parts in the order of `StartOrder`, from `InitPh2` on;
`main` is its place there and the step (`StepsOf`) it takes next.  A part creates memory,
queue and thread; the threads register, take up their work and serve.  Any call may
fail (at most `MaxFailures`), after which the code goes on, undoes or ends as it does.
`Restart` ends the process at any point, keeps `sysv` (the queues) and starts anew.
`thread["trigger"]` and `callback` are BST's trigger thread and the plug-in's callback.
A first `msgget` that fails for another reason than `EEXIST` has no error path in any of
the main functions: `QueueStep` goes on with the id -1 (`"invalid"`) and the thread is
created.  `refused` remembers such queues, `kept` those that could not be removed.

### Heartbeat: the agent's own application

Requests, ticks and cancellations in one queue; `hbTimer` is what the code remembers of
its timer and `running` the POSIX timers there are, with their intervals.  The heartbeat is
on by default, and the thread starts it before its loop (`HbStart`).  A deletion that fails
is only logged and the record is overwritten by the next timer (`Starts`), so that `running`
can have timers that the record does not name (`Lost`).  `waiting` counts sessions in use,
`hbFailed` the calls that failed, of each kind.

### Redirector

`Apis` has each of the 73 `sbapi_*` functions with the feature it asks for and the
searches it makes.  A call is a list of steps: take the read lock, ask for the chip,
take it again, search, release, call, release.  Plug-ins register in between; `ListHeld`
is what they must not do.  `WriterFirst` is the lock's preference: glibc's default is
FALSE.

### OvsdbBst: the plug-in over a database

`bst_bid_params_table`, the names of rows (`RowName`) and the positions in the cache
(`DbIndex`) are two encodings of a statistic that have to agree; the tables of gets and
sets name it a third time.  The server is external: it sends a monitored row with the
columns that RFC 7047 prescribes.  A get takes the read lock for one or more statistics,
a set opens a connection of its own; the monitor's thread takes the write lock row by row.

### Instances and composition

`MCBstApp` and `MCRestServer` give the constants of one module values.  The other
instances combine components: `MCBstData` (reports and drop counters), `MCRequests`
(decoders, thresholds, documents, pools), `MCPacketApps` (multiplexer, packet trace,
black holes) and `MCAgent` (start-up, heartbeat, redirector, OVSDB plug-in).  Where the
parts share state they are one module; those combined here do not, so one of them runs
at a time: a variable `part`, chosen by `Init`, says which, and the state space is the
sum of the parts and not their product.  A property of such an instance is the
conjunction of one named property per part, each explained in its own module.

## The runs

| Run | Instance, specification | Checks | States |
|---|---|---|---|
| `bst_timer` | MCBstApp, `Spec` | `TypeOK`, `TimerFollowsConfig` | 2.2 M |
| `bst_recovery` | MCBstApp, `FairSpec` | `RateLimit`, `CountsHaveTimer`, `RecoveryPending`, `TrackingResumes`, `MuteEnds` | 580 k |
| `bst_rearm` | MCBstApp, `Spec` | `ArmedTimerCollects` is **violated** | |
| `bst_ack` | MCBstApp, `Spec` | `AcknowledgedIsConfigured` is **violated** | |
| `bst_data` | MCBstData, `MCFairSpec` | `TypeOK`, `RecordsDistinct`, `PeriodicInSync`, `CancelNamesRequest`, `TableSound`, `RecordsServeRequests`, `PeriodicReportsSent` | 210 k |
| `drops_race` | MCBstData, `MCSpec` | `FreeRecordsHaveNoTimer` is **violated** | |
| `rest_serve` | MCRestServer, `Spec` | `TypeOK`, `OwnAnswers` | 2.6 M |
| `rest_live` | MCRestServer, `FairSpec` | `ConnectionsKept`, `EveryRequestEnds` | 725 k |
| `rest_exhausted` | MCRestServer, `Spec` | `NoOrphans` is **violated** | |
| `packet_apps` | MCPacketApps, `MCSpec` | `AppsTypeOK`, `HooksRight`, `TimersServe`, `RoomForRequests`, `CollectsWhatWasAsked`, `SwitchInStep`, `ReportsWithinLimits`, `PacketProgress` | 74 k |
| `requests` | MCRequests, `MCSpec` | `RequestsTypeOK`, `RequestsDecoded`, `ThresholdsInRange`, `ThresholdsAsAsked`, `ThresholdsUnmixed`, `DocumentsWellFormed`, `DocumentsTell`, `PoolsServe` | 313 k |
| `agent` | MCAgent, `MCSpec` | `AgentTypeOK`, `StartupSafe`, `HeartbeatRight`, `PluginsRight`, `ListHeld`, `AgentProgress` | 145 k |

### What they show

**Triggers.**  `RateLimit` holds although the limit is read, the report posted and
the count raised in three steps, and the limit may change between any two: a window
sends at most as many reports as the largest limit in force in it.  It would not
hold for the smallest one: a limit that is lowered takes effect at the next trigger.
`CountsHaveTimer`: a counted trigger never loses the timer that opens the next
window, though the timer is deleted by a decision made one step before.  The reason
is that one thread makes both decisions.  `RecoveryPending` is the no-lost-wake-up
invariant: whenever BST is enabled and a group untracked, something that tracks it
again is under way; `TrackingResumes` and `MuteEnds` are its liveness counterparts.
They hold with queues that refuse messages, as long as requests and collections alone
cannot fill the application's queue: then a queue that refuses a trigger's report is one in
which another recovery waits.  `RecoveryPossible` of `BstAppProofs` says this for all sizes;
where it does not hold, a refused report leaves its group untracked until another trigger.

**Collection timer.**  `TimerFollowsConfig` holds for all orders of requests and
failing ASIC calls.  What the armed timer then *does* is another matter: see
`bst_rearm` below.

**Reports and drop counters.**  A complete periodic report brings the collector up to
date after any history; incremental reports keep it so as long as nothing else rotates
or clears the records, no other realms are tracked, and none fails or is lost.  With
clients that wait for each answer, records, timers and the requests that clients believe
active agree whenever no record is being changed, even when timers are refused (the
request is then accepted without one, as the code does), and a request with a timer is
reported again and again until it is cancelled.  A cancellation with request-id 0, which its
decoder accepts, is answered with success though it names no request; what it clears is a
free record without a timer (`CancelNamesRequest`).  Without that discipline the two
threads meet: see `drops_race`.

**REST.**  `OwnAnswers` (no session is used by two, and what a thread holds leads to the
client of its request) holds in the presence of hang-ups, failing encoders and exhausted
sessions: the order "answer, close, free" in `rest_response_send` is what keeps a reused
descriptor or session from receiving another's answer.  With enough sessions
(`rest_live`) every request ends, each client gets an answer, and no connection is left
open.

**Packets.**  The unlocked dispatcher is right because of the order in which
`pkt_mux_register` writes a hook (`CallbackIsOwners`), and the blocking post of the
receive thread is always released.  In packet trace the profile list, the timer table
and the context of each timer agree whatever fails and whatever clients ask
(`TimersServe`); that the slots, timers and rules are also exactly those a client was told
of (`CollectsWhatWasAsked`) needs careful clients.  Every request in the plug-in's table has
its rule in the switch, whatever fails (`TablePromisesRules`).  Black hole detection has a
timer exactly while it samples, on one and on two units and with every failing call; with
one unit, the packets it samples arrive whichever call failed (`SampledPacketsArrive`).  That
the switch has nothing besides holds when no call fails, for packet trace with careful
clients (`SwitchInStep` says both).  Both applications
implement `SampledReports` without any such condition.

**Requests.**  All 29 decoders hand over a command only when each member it needs was
there and in range, with a mask that tells the truth, and release the document once - with
the exceptions listed under *Known behaviour*.  Thresholds that the plug-in programs come back in
the units they were set in, although percentages are rounded both ways; a command changes what it does not name only after an earlier failure has
left the cache behind the switch, and on a switch that does not fail the application
implements `ThresholdStore`.  Documents parse, whichever of their lists are empty, but for
two combinations.  A pool runs dry only through encoders that gave up.

**The agent.**  Whichever calls fail while it starts, a thread that runs has its memory and
its queue, but for two ways in which its part is undone under it and for a queue that
`msgget` refused in the first place; and no message of an earlier run is served unless the
system refuses to remove the old queue.  The heartbeat that was configured last is sent,
unless its timer could not be added.  Timers that nothing can stop any more do occur, each
owed to a deletion of its own that failed, and never otherwise.  A call reaches the most specific
plug-in, ends, and finds the list as it was when it searched it.  What the OVSDB plug-in
tells of a statistic is something the database had for that statistic, and a threshold
goes to its own row.

### Bounds

Bounds are constants of the modules and appear in guards; each is named.

- *BstApp.*  `MaxRequests = 1`: the server posts one request at a time, and a request
  changes the configuration only when it is served, so the order of two waiting ones is
  that of two successive ones.  `AppQueueSize` 2 or 3, `TriggerQueueSize` 1 or 2: small enough
  that both queues fill and refuse, large enough that a report, a timer message and a
  request wait together.  `MaxCount` 1 or 2: at or above the largest limit in
  `LimitRequests`, so that counters are muted at limit 1 and not yet at limit 2.  Two
  counters in two groups: one group recovers while the other is switched off; `bst_timer`
  has one, for the timer does not depend on triggers.  At most one collection message
  waits: an interval is at least a second and the queue is served within it.
- *BstData.*  Three ids and two records: the table fills, a third id is refused, and
  records are used again.  Cancellations name 0, too, the id of every free record.  `QueueSize = 3` lets one request meet the expiries of both
  records.  `MaxValue = 1` and two counters tell a counter that was left out from one that
  did not change.
- *RestServer.*  `rest_serve`: 2 clients, 2 applications, 2 sessions, 3 descriptors, queues of
  1: sessions, descriptors and queues all run out.  `rest_live`: 3 sessions and 5 descriptors
  for one application, more than can be under way, since the question is what happens when
  they suffice.  `rest_exhausted`: 3 clients for 2 sessions.  The symmetry of `rest_serve` is
  over clients and over applications, which no definition tells apart; the live run has none.
- *PacketApps.*  Two hooks for two applications of which one stays: the table is full and has
  a gap.  Two ids, two slots, two rules; `CarelessIds` has one id, which is enough to ask
  twice and to cancel what is not there.  Limits of 1 and queues of 2, half of which is
  0 and one packet: every limit is reached.  Two units and four groups, as many as two
  black holes can have created.  `PtFaults` and `BhdFaults` have the calls that make a rule, group,
  policy or timer and those that take one away (`"destroy"`).
- *Requests.*  `MaxOptional = 2` optional members in a request, so that each is there and
  missing, alone and with another.  Percentages survive the conversion from 198 cells
  on; with `MaxCells = 199` and 33 percent both directions round (65.67 cells become 65, which
  are 32.66 percent).  `Values` has 0, 33 and a value above a percentage.  Two ports and two indices, at most two realms in a report or all
  eleven: an empty and a filled list before, between and after others.  `MaxDropping = 3` of two
  ports with two queues.  Pools of 4 and 3 slices for 8 documents: both run dry.
- *Agent.*  Two applications and the four slots they and the system's own need; two runs of the process,
  with one failing call in each besides those of the undoing; queues of 1.  Three intervals, 0
  among them and the default as one, a heartbeat's queue of 2, and two failures: a deletion
  that fails meets an addition, another deletion or an encoder that does.  Two plug-ins have room, of four that register; one thread calls
  all 73 functions, one asks while it does.  Two pools, queues and groups on a chip smaller
  than the tables (`Scale`, `Largest`), so that row and column of an index cannot be mixed up
  unseen; one change by the database and one call, with everything in between.

Deadlock is checked in every run but two: in `rest_exhausted` it is the point, once the
sessions and descriptors are gone the server can accept nobody; in `agent` a start may end
with threads that ended, and the bounds on runs, calls and changes end the rest.

### Fairness

Weak fairness of the threads (each is an endless loop over a blocking receive), of timers
that are armed, and of callbacks that have started.  In `PacketTrace` and `BlackHole` a
timer's callback is strongly fair: it expires periodically into a queue that is emptied
again and again, so its message is taken now and then (`PacketProgress` says so only of
periodic timers).  Nothing is assumed of REST clients, packets, the ASIC, the database, the
outcome of calls, or of room in a queue.  `AppThread` and the others are fair as a whole: a
thread is sequential, so it is never at two points at once.  In the combined instances the
fairness of all parts is conjoined: in the initial state of a part that does not run nothing
that its fairness is about is enabled.

## Divergences found

Each is a disagreement between what the code does and what its comments say of it;
TLC's counterexample in the run named first is the scenario.

1. `bst_rearm`.  `bst_periodic_collection_timer_add` fills in the timer's context and
   then deletes the armed timer, which clears the context.  After a change of the
   collection interval the new timer expires and asks for a message of type 0, which
   `msgsnd` refuses: periodic reports end.
2. `bst_ack`.  `bst_config_feature_set` compares the request with the *ASIC*.  When
   triggers have brought the ASIC into the requested state it acknowledges without
   storing `bstEnable`.
3. `drops_race`.  A cancellation that arrives between the creation of a record's
   timer and the assignment of its `in_use` frees the record and leaves the timer.
4. `rest_exhausted`.  A connection that finds no free session is never closed.

### Known behaviour

The models contain the following as the code has it; the property that comes near it says
what it leaves out, and `hazards` in `PROJECT.json` gives the lines of the main ones.

BST:
- `bst_enable_on_trigger` always programs current mode, also when peak tracking is
  configured (`hwPeak` and `trackPeakStats` then differ, and a repeated request is skipped).
- A `get-bst-report` rotates the records, so the next incremental report to the collector
  leaves out what changed before the get; the same holds for a report that was lost.
- A trigger report whose collection failed is sent as a success.
- `cancel-request` with request-id 0 finds the first *free* record, clears it and succeeds.
- The result of starting a drop counter timer is ignored.
- A report of top drops has one entry more than was asked for; a report of port and queue
  drops leaves out the last port; one for named queues on all ports is empty.
- The validator of the unicast queue group asks for the queue instead of the group;
  mc-share of an egress port and service pool is accepted, answered with success and never
  written to the switch (`sbplugin_common_bst.c:1208`); the threshold of multicast queue entries
  goes no further than the message.

Requests and REST:
- An encoder that fails leaves its session and connection in use for good, and in some
  places its slice; five of the former end the REST service.
- An unsupported method or URL closes the connection before the code that would answer
  404; a status without an error text closes it without an answer.
- A member that is missing leaks the parsed document in most decoders; the black hole decoder
  goes on with a document it has released when a UDP port is out of range; the check of
  drop counter requests rejects nothing.
- A trigger report while nothing is tracked and the resolution of an ECMP group without
  members are malformed.

Packets:
- Asking again for a periodic profile with the same interval leaks the running timer;
  cancelling an earlier slot hides later ones from the search; a tick looks at the method of
  slot 0.
- All units share one hook of the multiplexer and one record of the black hole plug-in: a
  second unit never samples, and cancelling on one takes the packets of the other.
- A failing call while a black hole is configured leaves groups in the switch.
- After a restart the packet trace and black hole queues are sized for one message.

The agent:
- A failed start of one part frees memory under threads that run (`UndoneRunning`), and an
  application whose thread ended keeps its entry in the module manager.
- When a queue's first `msgget` fails for another reason than `EEXIST`, the thread is created
  with queue id -1, although the comments promise `BVIEW_STATUS_FAILURE` when the message queue
  could not be created (`bst_main.c:1052`, `system_utils_main.c:331`).
- A heartbeat timer that could not be started is answered with success, or, at the start of
  the agent, ignored.  One that could not be deleted is forgotten when the next is started:
  it beats for ever at its old interval, and nothing can stop it (`reg_hb_api.c:209-223`).
- A transaction that fails in the database is printed, and the write acknowledged
  (`ovsdb_bst_ctl.c:906-909`).
- With a lock that prefers writers the redirector and a registration wait for each other.
- The OVSDB cache lags one change behind for the configuration and keeps the first value of
  every statistic, for it reads the old half of an update; a lost connection is not opened
  again; thresholds of unicast and multicast queues always go to queue 0; a configuration set
  before the monitor has seen the System row is acknowledged and lost.

## The proofs

`tlapm` checks every leaf; no step is assumed.  The theorems hold for every value of
the constants that the `...Assumption` of the module admits, and TLC evaluates these
assumptions in every run.  Most say no more than the types of the constants.  Those that
say more are about the code: `MuxAssumption` (only one application, black hole detection,
deregisters), `BhdPolicyAssumption` (finitely many groups, none of which is 0, the
plug-in's mark for none), `HeartbeatAssumption` (there is an interval other than 0),
`StartupAssumption` (the module manager has a slot for each application),
`CountAssumption` (a request asks for fewer drop counters than the array has: 64 at most,
`BVIEW_BST_CGSN_COUNT_MAX`, of an array with room for 130 ports), `PacketDocumentsAssumption`
(a switch has finitely many ports, a group finitely many members),
`RedirectorAssumption` (callers call functions of the table `Apis`, and some plug-in
registers), and `OvsdbAssumption` (a watched row is the row of a statistic: it has a port
only if the table has two indexes, and index 0 if it has none).  What a theorem needs
beyond them is its `ASSUME`, by name; the table has these conditions, and a run whose
instance meets them checks the same property.

| Module | Theorem | States | Under |
|---|---|---|---|
| `BstAppProofs` | `TypeCorrect`, `RateLimitHolds` | `TypeOK`, `RateLimit` | |
| | `CountsHaveTimerHolds`, `TimerFollowsConfigHolds` | `CountsHaveTimer`, `TimerFollowsConfig` | (in the property: timers can be created) |
| | `RecoveryPendingHolds` | `RecoveryPending` | `RecoveryPossible` |
| `BstDataProofs` | `TypeCorrect`, `RecordsDistinctHolds`, `PeriodicInSyncHolds` | `TypeOK`, `RecordsDistinct`, `PeriodicInSync` | |
| | `OneRecordEach` | `NoDuplicateRecords` | |
| | `TableIsSound`, `RecordsServe` | `TableSound`, `RecordsServeRequests` | `~Overlap` |
| | `CancelsWhatItNames` | `CancelNamesRequest` | `~Overlap` |
| `RestServerProofs` | `TypeCorrect`, `OwnAnswersHold` | `TypeOK`, `OwnAnswers` | |
| | `AnsweredFirst` | `NoSilentClose` | `AllAnswered` |
| | `ConnectionsAreKept` | `ConnectionsKept` | `AllAnswered`, `NothingLeft`, `EnoughSessions` |
| `PacketAppsProofs` | `MuxTypeCorrect`, `HooksRightHolds` | `PktMuxTypeOK`, `HooksRight` | |
| | `AppsTypeCorrect`, `TimersServeHolds` | `AppsTypeOK`, `TimersServe` | |
| | `PacketsLeaveRoom` | `RoomForRequests` | |
| | `CollectsForItsClients` | `CollectsWhatWasAsked` | `RoomForProfiles` (in the property: careful clients) |
| | `TablePromisesKept`, `WhatIsSampledArrives` | `TablePromisesRules`, `SampledPacketsArrive` | (in the property: one unit, of the latter) |
| | `SwitchInStepHolds` | `SwitchInStep`: both, and nothing besides | `RoomForProfiles` (in the property, for "nothing besides": no call fails, careful clients) |
| | `ReportsWithinLimitsHold` | `ReportsWithinLimits` (refinement) | |
| `AgentProofs` | `StartupSafeHolds`, `HeartbeatRightHolds` | `StartupSafe`, `HeartbeatRight` | |
| | `ListHeldHolds` | `ListHeld` (action property) | |
| | `PluginsRightHold`, `AgentTypeCorrect` | `PluginsRight`, `AgentTypeOK` | |
| `RequestsProofs` | `RequestsDecodedHolds`, `ThresholdsInRangeHolds`, `PoolsServeHolds` | `RequestsDecoded`, `ThresholdsInRange`, `PoolsServe` | |
| | `ThresholdsAsAskedHolds` | `ThresholdsAsAsked` | `MaxCells >= 198` (in the property: programmed thresholds) |
| | `ThresholdsUnmixedHold` | `ThresholdsUnmixed` (action property and refinement) | (in the property: the switch does not fail) |
| | `JsonTypesHold`, `ThrTypesHold` | `JsonTypeOK`, `ThrTypeOK` | |
| `DocumentsProofs` | `RequestsTypes`, `DocumentsTellTheSwitch` | `RequestsTypeOK`, `DocumentsTell` | |
| | `DocumentsParse` | `DocumentsWellFormed` | (in the property: the two malformed documents below) |

`ProofLemmas` has what several of them need: a non-empty set of numbers has a least
element (the searches of the code for the first free or first matching entry; by
well-founded induction), what appending to a queue and taking from it do to its
elements, and how both change the number of its messages of one kind (`PostedCount`,
`TakenCount`).  It also has induction over numbers for a *set* of numbers (`Induction`: a set
with 0, and with i + 1 for each i below n that it has, has all up to n), and that a function
defined step by step exists (`RecursionExists`).  The library's theorems say both for
operators, which the provers cannot instantiate; with sets and functions in their place
they can, and what the loops of the encoders compute becomes provable.

### BstAppProofs

- `TypeCorrect`: one step per action; record and sequence types are lemmas of
  their own (`PostType` and its kin), so that each leaf sees one fact about a queue.
- `RateLimitHolds`.  `RateLimit` alone is not inductive: nothing in it stops a report
  from being sent for a counter whose reports are not yet counted.  The strengthening
  (`LimiterInv`) relates the three places where a report is known: `sent` is at most
  `triggerCount`, plus one for the counter the thread is about to count, and a thread
  about to send has read a count below a limit that is at most the window's largest.
- `CountsHaveTimerHolds`.  The strengthening (`WindowInv`) adds that a thread at "delete"
  finds all counts cleared, and that one at "count" has the timer already.
- `TimerFollowsConfigHolds`, from `TypeOK`.
- `RecoveryPendingHolds`.  Each message about a lost group may be refused.  On the
  trigger queue this is harmless, for any message that waits there leads to a recovery;
  on the application's queue it is not, and the argument is a count (`QueueInv`): at most
  `MaxRequests` requests and, if any request asks for asynchronous reports, one collection
  wait there, so that a full queue holds something else (`FullQueueRecovers`), which tracks
  the groups again.  `RecoveryPossible` says that the queue is that large.  It is: a message
  has 816 bytes, so that 20 fit in the system's default of 16 KB, and there are five
  sessions.  A muted trigger goes through "count", which is no recovery, and `WindowInv`
  says that the timer is armed then.

### BstDataProofs

Of the reports:

- `TypeCorrect` and `RecordsDistinctHolds`: together inductive (`RecordsInv`).
- `PeriodicInSyncHolds`, for any counters and any values.  The strengthening (`Agree`)
  says what the incremental reports rely on: while undisturbed, the collector agrees with
  the *active* record on the tracked counters, and the active record is what the rotation
  makes the next backup.  That is exactly what a report to someone else breaks.

Of the drop counters: `NoDuplicateRecords` needs no discipline of the clients: only the application thread adds
ids, after it has searched for them, and a cancellation only removes them (`NoDupInv`).
The others need `~Overlap`; `drops_race` shows why.  `SerialInv` says that then a client's
request and its cancellation are never under way together; `TableInv` gives the state of a record and its timer at each step of either thread,
`AcceptedInv` relates the records to the requests that were answered with success.
Together (`DropsInv`) they are inductive.  0 is the id of every free record, and the
lookup does not look at `in_use`: a cancellation of 0 finds the first free record, which
`TableInv` says has no timer, and clears what is clear (`CancelsWhatItNames`).

### RestServerProofs

`BaseInv` has the types and the lengths of queues.  `ExclInv`: a session is at one place,
the server, a queue or an application thread, and marked as used if that is not the server.
`ConnInv`: what a thread holds, or will find through its session, is a descriptor whose
other end is the client the request came from (`Peer`, `PeerOf`), and two threads never hold
the same.  `OwnAnswers` follows from these two whatever fails; `NoSilentClose` from
`ConnInv` and `SilentInv` where no failure closes without an answer.  `ConnectionsKept` is
a count: every open descriptor is held by a thread or by a session (`HeldInv`), unless
the server found no session.  That it finds one is a pigeonhole argument, from one of two
premises (`EnoughSessions`): applications and their queues hold fewer requests than there
are sessions (`Roomy`), or clients wait for their answers and there is a session for each
client and each application (`Patient`; `OneInv`, `HereInv`).

### PacketAppsProofs

- The multiplexer.  `HooksInv` follows a hook through the mutex: `WritesFree` says that
  the hook a thread is about to write is nobody's, that none below it is free, and that
  its callback is the thread's before its application is (the order of the two writes in
  `pkt_mux_register`, which is what the dispatcher relies on); `NoGap` and
  `ResidentsFirst`, that the search by `appID` never meets a free hook before the
  application's own.  These two are where `MuxAssumption` is needed: with two applications
  that come and go the search for a free hook can register one twice.
- Packet trace.  `PtInv` has the types and the agreement of timers and profiles; it needs no
  discipline.  `CarefulInv` adds for careful clients that the used slots come first
  (`InOrder`), that a slot in use has its timer, and that the plug-in's table names the rules
  in the switch (`Consistent`).  `Promised` is the half of this that holds without
  discipline and in spite of failures: the plug-in enters a rule in its table only after it
  was installed, and clears the entry together with the rule.  `RoomForProfiles` says that the rule table and the switch's
  groups are as large as the profile list (`sbplugin_common_packet_trace.h:40`), and that
  a timer can run.
- Black holes.  `BhdInv` has the types, and that a unit has one timer if it samples and none
  otherwise.  `ArrivalInv`, for one unit: while a black hole is configured to be sampled by
  the agent, the rule, the ports and the policy that the plug-in remembers are in the switch
  (`InForce`); it survives failures, because the code marks a black hole as configured only
  when every step has succeeded, its hook the last.  `SwitchInv`, if no call fails, too: the plug-in
  remembers exactly the groups in the switch, those of the sampling method.
- Both applications implement `SampledReports`: each step maps to a step of it or stutters.
- The theorems about `MCSpec` combine the parts: `part` never changes, and a part that does
  not run keeps its initial state.

### AgentProofs

- `HeartbeatRightHolds`.  `TimersOk`: ids tell timers apart, and those that the record does
  not name are at most as many as the deletions that failed; it is shown for deleting and
  adding each (`Stops`, `Adds`), whatever their outcome, and so for their sequence.
  `ConfigKept`: while no addition has failed the record names a timer with the interval that
  was configured.  The sessions in use are as many as the requests in the queue and the
  encoders that failed.  All are in `HbInv`.
- `ListHeldHolds`.  `RedInv` assigns to each step of a call's script the number of read locks
  held before it (`LocksHeld`), and says that from the search to the end it is not 0
  (`HandleKept`).  A registration needs the write lock.
- `StartupSafeHolds`.  `StType`; `StProvided`: a thread that runs has memory and queue, but
  for the two ways in which a part is undone under its thread (`UndoneRunning`) and a queue
  that `msgget` refused before the thread was created (`refused`); `StOwn`: a queue
  that the agent made holds messages of this run; `StSlots`: a slot that was found is free
  until it is entered, so that the applications find one each.  All are said relative to the
  place of the main thread in `StartOrder` (`Past`, `Within`).
- `PluginsRightHold`.  Of the redirector, `FoundInv`: what a call that still has its plug-in
  to call (`Searched`) holds is the best entry of the list as it is *now*, for the lock it
  holds kept the list as it was searched.  Of the OVSDB plug-in, `OvInv`: every row of the
  database, update on the wire and place of the cache has a statistic and a threshold of
  its row.  It rests on the names: a name that is taken apart gives the place where its
  statistic is read (`RowGetIs`), and no two statistics that are set have one name but
  those whose calls leave the queue out (`NamesTell`); both go through what the tokens of a
  name are (`TokensAre`) and the table (`BidFacts`: realm and counter tell its entries apart).
- `AgentTypeCorrect`, from the four invariants and `StBounds`, the sizes of the queues and
  the counters of the start.

### RequestsProofs

The theorems are about the specifications of the parts (`JsonSpec`, `ThrSpec`, `PoolSpec`);
`PartsRun` says that the instance TLC runs, which has one part go on at a time, implements
each of them.

- `ThresholdsInRangeHolds` and `ThresholdsAsAskedHolds`.  The conversions between cells, bytes
  and percent are inverse where they have to be (`Limit` and `CellToByte` are constants; a
  percentage survives from 198 cells on, and with 197 cells 67% is reported as 66); only what
  `Programmed` names is claimed to come back.  `ThrInv` adds to
  the types and ranges that the cache agrees with the switch unless it is `tainted`, that
  only a switch that may fail taints it, and which object the last command named.
- `ThresholdsUnmixedHold`.  From `ThrInv`, step by step: a command that sets maps to
  `Configure` of `ThresholdStore`, one that is refused and a change of units to `Refuse`,
  clearing to `Clear`.  The cache
  is what is merged, so that its agreement with the switch is needed here.
- `PoolsServeHolds`.  `PoolInv`: a slice is in use exactly if the document being written has
  it or an encoder left it behind, never both (`Owned`); since a document gives its slice back, one that
  finds none found them all left behind.
- `RequestsDecodedHolds`.  The decoders are data (`Decoder`), so that first the 29 sequences are
  shown to be `Ordered`: a member that decides the variant comes before any member that
  belongs to one, and no field of a 5-tuple or UDP port is named twice.  It is proved of the pieces
  and of concatenation.  `JsonInv` then speaks of the members before the next one
  (`Passed`): those the variant needs were read (`NeededInv`), those of the 5-tuple are decided
  once (`FieldsInv`), and the document was released for each UDP port at most (`ReleaseInv`).
- `JsonTypesHold` and `ThrTypesHold`.  Types are not inductive for a decoder: the release count
  has its bound only because two members can release a document and read on, the UDP
  ports of sampling, each named once (`UdpPortsAre`, `JsonShape`).

### DocumentsProofs

A parser reads a text one token after the other; its state is the brackets that are open
and the last token.  The encoders are loops and calls, so that a claim about a document is
put together as the document is:

- *Reading.*  `ReadJoined`: reading two texts that are joined is reading one and then the
  other; `FlattenSteps`: what holds of nothing and survives each piece holds of a text
  made of pieces. Both by induction over the length.  `Paths(S, x, A, y, B)` are the texts
  that take a parser with brackets `x` open and a last token of `A` to `y` and `B`; they
  compose (`PathJoin`), and a document is a path from nothing to nothing
  (`WellFormedPath`).
- *Lists.*  A list is empty, or a JSON value and a separator (`ListTexts`).  Lists that
  are joined are a list, and stepping back over the last character leaves the value, or
  the value and half a separator (`BackComma`, `BackSpaced`).  This is what the encoders
  rely on, and each encoder of a realm, a port or a member gets one lemma: its text is
  such a list, and it tells (`ToldIn`) what its loop passed.
- *Reports of statistics.*  `EncodeReportFacts`: whichever realms were asked for and
  however many of their lists are empty, the brackets around them match and the entries
  are those that `OfTrigger` and `IncludeIndex` admit.  `ReportParses`, `CollectorKnows`
  and `TriggerTells` follow, for a report is always made of the counters as they are
  (`DocumentInv`).
- *Reports of drops.*  Order matters here, and the entries are a sequence (`Entries`).
  `FillFacts` and `SortedFacts` are the loop invariants of `bst_sort_records`: the array
  is the one that was read, in another order (`Reordered`), and its first places hold the
  largest, in order (`Descending`).  `CountAssumption` is needed here: the encoder looks
  at one place more than was asked for, and it has to be in the array.  `Exactly` says
  which counters a loop over rows of the array tells, each once; that rows of different
  ports are apart is arithmetic (`RowsApart`).  `LargestTold` puts the two together.
- *Documents of packets.*  A `Part` is a path with what it tells, provided that the
  document has no ECMP group without members; one lemma for each template and section, up
  to `DocumentFacts`.  `ResolutionIsTold` needs no proviso: also the malformed document
  has the entries it should have (`TraceResolves`).
- `DocumentsParse`, `DocumentsTellTheSwitch` and `RequestsTypes` combine the parts as
  `PartsRun` does (`DocumentPartsRun`).  The property leaves out two documents that the
  encoders do write and no parser takes: a trigger report with a snapshot while nothing is
  tracked, and an ECMP group without members (`EcmpWithoutMembers`).

### What only TLC checks

- Liveness (`TrackingResumes`, `MuteEnds`, `PeriodicReportsSent`, `EveryRequestEnds`,
  `PacketProgress`, `AgentProgress`): out of the prover's reach, with its fairness and
  `ENABLED`.

Every safety invariant, action property and refinement of the passing runs has a theorem.

## What is left

### Not modelled, and why

- The text inside an entry of a document, lengths in bytes, and with them the end of a
  buffer: the models tell apart brackets, commas and entries.
- HTTP and JSON parsing below the members of a command, configuration files, logging, pcap,
  CRC and base64 helpers: no state that another part reads.
- The statistics themselves and the SDK behind the plug-ins.  Of the StrataXGS plug-ins only
  the parts with state of their own are modelled: triggers, thresholds, trace rules, black
  holes.  The system plug-in and the collection of statistics translate SDK types.
- Generated code (`bst-idl.c`), vendored libraries and the example clients, which are no part
  of the agent.
- Applications on several units at once, except black hole detection: units of the others
  share queues and nothing else.
- The end of the whole process by a signal (for instance SIGPIPE); a restart at any point
  of the start is modelled in `AgentStartup`.
