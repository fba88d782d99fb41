------------------------------ MODULE OvsdbBst ------------------------------
(***************************************************************************)
(* The south-bound plug-in over an OVSDB server (sb_plugin/sb_ovsdb): what *)
(* it is asked to set goes to the database, each commit by a connection of *)
(* its own; what it is asked to tell comes from a cache that one thread    *)
(* keeps from the notifications of the database.  Names of rows tie the    *)
(* two together.  The database is external: a monitored row is told when   *)
(* it is inserted (its new columns), deleted (its old columns) or modified *)
(* (its new columns, and the old values of those that changed: RFC 7047).  *)
(***************************************************************************)
EXTENDS Integers, Sequences, FiniteSets

CONSTANTS Scale,         \* what asicDb says of the chip: ports, pools, groups and queues
          Largest,       \* what the tables have room for (asic.h)
          Watched,       \* rows the database may hold: sequence of <<bid, port, index>>
          ConfigFiles,   \* what ovsdb_config.cfg may hold: its lines, by their kind
          DatabaseAt,    \* where the database listens: "configured" or "default"
          MaxDbChanges,  \* bound: changes of the switch daemon
          MaxCalls       \* bound: calls to the plug-in

VARIABLES db,         \* the rows of the table bufmon: statistic and threshold, by name
          dbConfig,   \* bufmon_config of the table System
          cache,      \* statistic and threshold of each bid and index
          cacheConfig,
          uuid,       \* the name of the row of System is known
          monitor,    \* the thread: "starting", "serving", "lost" or "ended"
          wire,       \* messages to it, each what remains of a set of row updates
          call,       \* the call to the plug-in in progress
          readLocks,  \* read locks taken and never given back
          changes, made

ovVars == <<db, dbConfig, cache, cacheConfig, uuid, monitor, wire, call, readLocks, changes, made>>

----------------------------------------------------------------------------
(* bid_tab_params: realm and counter in the row's name, how many indexes   *)
(* it has, and the columns and rows of its table.                          *)
Bid(realm, counter, indexes, columns) ==
  [realm |-> realm, counter |-> counter, indexes |-> indexes, columns |-> columns,
   size |-> IF indexes = 2 THEN Largest.ports * columns ELSE columns]

PoolBids ==
  [EGR_POOL       |-> Bid("egress-service-pool", "um-share-buffer-count", 1, Largest.sps),
   EGR_MCAST_POOL |-> Bid("egress-service-pool", "mc-share-buffer-count", 1, Largest.sps),
   ING_POOL       |-> Bid("ingress-service-pool", "um-share-buffer-count", 1, Largest.isps),
   PORT_POOL      |-> Bid("ingress-port-service-pool", "um-share-buffer-count", 2, Largest.isps),
   EGR_UCAST_PORT_SHARED |-> Bid("egress-port-service-pool", "uc-share-buffer-count", 2, Largest.sps),
   EGR_PORT_SHARED |-> Bid("egress-port-service-pool", "um-share-buffer-count", 2, Largest.sps)]

QueueBids ==
  [UCAST       |-> Bid("egress-uc-queue", "uc-buffer-count", 1, Largest.ucqs),
   MCAST       |-> Bid("egress-mc-queue", "mc-buffer-count", 1, Largest.mcqs),
   UCAST_GROUP |-> Bid("egress-uc-queue-group", "uc-buffer-count", 1, Largest.groups),
   RQE_QUEUE   |-> Bid("egress-rqe-queue", "rqe-buffer-count", 1, Largest.rqes),
   RQE_POOL    |-> Bid("egress-rqe-queue", "rqe-queue-count", 1, Largest.rqes),
   CPU_QUEUE   |-> Bid("egress-cpu-queue", "cpu-buffer-count", 1, Largest.cpus)]

PortBids ==
  [DEVICE |-> Bid("device", "data", 0, 1),
   PRI_GROUP_SHARED   |-> Bid("ingress-port-priority-group", "um-share-buffer-count", 2, Largest.pgs),
   PRI_GROUP_HEADROOM |-> Bid("ingress-port-priority-group", "um-headroom-buffer-count", 2, Largest.pgs)]

Bids == DOMAIN PortBids \cup DOMAIN PoolBids \cup DOMAIN QueueBids
BidTable == [b \in Bids |-> CASE b \in DOMAIN PortBids  -> PortBids[b]
                              [] b \in DOMAIN PoolBids  -> PoolBids[b]
                              [] b \in DOMAIN QueueBids -> QueueBids[b]]

(* The index of a statistic in its table, and whether it has that place.   *)
DbIndex(o) == IF BidTable[o[1]].indexes = 2 THEN (o[2] - 1) * BidTable[o[1]].columns + o[3] ELSE o[3]
Resolves(o) == DbIndex(o) < BidTable[o[1]].size

(* The name of its row, as the parts between the slashes, each a sequence  *)
(* of one element or empty: with one index the part of the port is empty.  *)
None == <<"NONE">>
RowName(o) ==
  LET b == BidTable[o[1]]
  IN <<<<b.realm>>, <<b.counter>>>> \o (CASE b.indexes = 2 -> <<<<o[2]>>, <<o[3]>>>>
                                          [] b.indexes = 1 -> << << >>, <<o[3]>>, None>>
                                          [] OTHER -> <<None, None>>)

(* strtok passes over a part that is empty, which only the port's can be.  *)
Tokens(name) == IF name[3] = << >> THEN <<name[1], name[2], name[4], name[5]>> ELSE name

(* A bug to tell apart: the two indexes the other way round. *)
RowGetSwapped(name) ==
  LET tokens == Tokens(name)
      fits == {b \in Bids : tokens[1] = <<BidTable[b].realm>> /\ tokens[2] = <<BidTable[b].counter>>}
      At(b) == CASE BidTable[b].indexes = 2 -> (tokens[4][1] - 1) * BidTable[b].columns + tokens[3][1]
                 [] BidTable[b].indexes = 1 -> tokens[3][1]
                 [] OTHER -> 0
  IN IF Len(tokens) # 4 THEN {} ELSE {<<b, At(b)>> : b \in {c \in fits : At(c) < BidTable[c].size}}

(* bst_ovsdb_cache_row_get: the row of the cache a name stands for; none   *)
(* when it has another number of parts or does not fit the table.          *)
RowGet(name) ==
  LET tokens == Tokens(name)
      fits == {b \in Bids : tokens[1] = <<BidTable[b].realm>> /\ tokens[2] = <<BidTable[b].counter>>}
      At(b) == CASE BidTable[b].indexes = 2 -> (tokens[3][1] - 1) * BidTable[b].columns + tokens[4][1]
                 [] BidTable[b].indexes = 1 -> tokens[3][1]
                 [] OTHER -> 0
  IN IF Len(tokens) # 4 THEN {} ELSE {<<b, At(b)>> : b \in {c \in fits : At(c) < BidTable[c].size}}

(* A row that is watched is that of a statistic: of a port if there are two *)
(* indexes, of the chip if there is none.                                   *)
ASSUME OvsdbAssumption ==
  /\ {MaxDbChanges, MaxCalls} \subseteq Nat /\ DOMAIN Scale \subseteq DOMAIN Largest
  /\ \A n \in DOMAIN Watched :
       /\ n \in Nat /\ Watched[n] \in Bids \X Nat \X Nat
       /\ BidTable[Watched[n][1]].indexes # 2 => Watched[n][2] = 0
       /\ BidTable[Watched[n][1]].indexes = 0 => Watched[n][3] = 0

----------------------------------------------------------------------------
(* The statistics a loop over the chip visits, by the table they are in.   *)
Over(ports, indexes, b) == {b} \X ports \X (0 .. indexes - 1)
Ports1 == 1..Scale.ports
PoolLoopOf == [DEVICE |-> Over({0}, 1, "DEVICE"),
           PRI_GROUP_SHARED |-> Over(Ports1, Scale.pgs, "PRI_GROUP_SHARED"),
           PRI_GROUP_HEADROOM |-> Over(Ports1, Scale.pgs, "PRI_GROUP_HEADROOM"),
           PORT_POOL |-> Over(Ports1, Scale.sps, "PORT_POOL"),
           ING_POOL |-> Over({0}, Scale.sps, "ING_POOL"),
           EGR_UCAST_PORT_SHARED |-> Over(Ports1, Scale.sps, "EGR_UCAST_PORT_SHARED"),
           EGR_PORT_SHARED |-> Over(Ports1, Scale.sps, "EGR_PORT_SHARED"),
           EGR_POOL |-> Over({0}, Scale.sps, "EGR_POOL"),
           EGR_MCAST_POOL |-> Over({0}, Scale.sps, "EGR_MCAST_POOL")]

QueueLoopOf == [UCAST |-> Over({0}, Scale.ucqs, "UCAST"), UCAST_GROUP |-> Over({0}, Scale.groups, "UCAST_GROUP"),
                MCAST |-> Over({0}, Scale.mcqs, "MCAST"), CPU_QUEUE |-> Over({0}, Scale.cpus, "CPU_QUEUE"),
                RQE_QUEUE |-> Over({0}, Scale.rqes, "RQE_QUEUE")]

Loop(b) == IF b \in DOMAIN PoolLoopOf THEN PoolLoopOf[b] ELSE QueueLoopOf[b]

(* The gets of statistics, in the order of a snapshot, each with the       *)
(* tables it reads; those of the thresholds are read one after the other.  *)
IngressGets == << <<"DEVICE">>, <<"PRI_GROUP_SHARED", "PRI_GROUP_HEADROOM">>, <<"PORT_POOL">>, <<"ING_POOL">> >>
PoolGets == << <<"EGR_UCAST_PORT_SHARED", "EGR_PORT_SHARED">>, <<"EGR_POOL", "EGR_MCAST_POOL">> >>
UnicastGets == << <<"UCAST">>, <<"UCAST_GROUP">> >>
QueueGets == << <<"MCAST">>, <<"CPU_QUEUE">>, <<"RQE_QUEUE">> >>
Snapshot == IngressGets \o PoolGets \o UnicastGets \o QueueGets
PortThresholds == <<"DEVICE", "PRI_GROUP_SHARED", "PRI_GROUP_HEADROOM", "PORT_POOL", "EGR_UCAST_PORT_SHARED", "EGR_PORT_SHARED">>
ChipThresholds == <<"MCAST", "UCAST", "EGR_POOL", "EGR_MCAST_POOL", "ING_POOL", "CPU_QUEUE", "RQE_QUEUE", "UCAST_GROUP">>
ThresholdGets == PortThresholds \o ChipThresholds

(* The sets of thresholds: the tables a set writes, one after the other,   *)
(* for the statistic it names.  Those of the unicast and multicast queues  *)
(* leave the queue at 0.                                                   *)
IngressSets == {<<"DEVICE">>, <<"PRI_GROUP_SHARED", "PRI_GROUP_HEADROOM">>, <<"PORT_POOL">>, <<"ING_POOL">>}
PoolSets == {<<"EGR_UCAST_PORT_SHARED", "EGR_PORT_SHARED">>, <<"EGR_POOL", "EGR_MCAST_POOL">>}
QueueSets == {<<"UCAST">>, <<"UCAST_GROUP">>, <<"MCAST">>, <<"CPU_QUEUE">>, <<"RQE_QUEUE">>}
ThresholdSets == IngressSets \cup PoolSets \cup QueueSets
IgnoresQueue == {"UCAST", "MCAST"}

----------------------------------------------------------------------------
(* Where a connection is opened to, by the file, which is read each time:  *)
(* a socket in one of the first two lines, the other being a comment or a  *)
(* socket as well; a line of another kind or a file too short gives the    *)
(* default, and a file of two comments nothing at all.                     *)
ConnectMode(lines) ==
  LET first == {lines[i] : i \in DOMAIN lines \cap 1..2}
  IN CASE Len(lines) < 2 \/ "other" \in first -> "default"
       [] "socket" \in first -> "configured"
       [] OTHER -> "nowhere"
Opening == {ConnectMode(f) = DatabaseAt : f \in ConfigFiles}

(* The rows hold numbers that tell whose they are: of the statistics and   *)
(* thresholds of the n-th row, and of the threshold that is asked for it.  *)
Objects == {Watched[i] : i \in DOMAIN Watched}
NumberOf(o) == CHOOSE n \in DOMAIN Watched : Watched[n] = o
Stat(o, k) == 10 * NumberOf(o) + k
FirstThreshold(o) == 10 * NumberOf(o) + 5
Wanted(o) == IF o \in Objects THEN 10 * NumberOf(o) + 6 ELSE 6
Zero == [stat |-> 0, threshold |-> 0]
FirstRow(o) == [stat |-> Stat(o, 1), threshold |-> FirstThreshold(o)]

(* bufmon_config in the database, and as the cache has it: the mode that   *)
(* the agent counts as 1 is the current one.                               *)
Config(enabled, mode) == [enabled |-> enabled, counters_mode |-> mode]
Parsed(c) == [bst_enable |-> c.enabled, bst_tracking_mode |-> IF c.counters_mode = "peak" THEN 1 ELSE 0]
Idle == [what |-> "none"]

OvStarts(at) ==
  /\ db = [o \in {Watched[i] : i \in 1 .. Len(Watched) - 1} |-> FirstRow(o)]
  /\ dbConfig = Config(FALSE, "current")
  /\ cache = [a \in UNION {{b} \X (0 .. BidTable[b].size - 1) : b \in {o[1] : o \in Objects}} |-> Zero]
  /\ cacheConfig = [bst_enable |-> FALSE, bst_tracking_mode |-> 0]
  /\ uuid = FALSE
  /\ monitor = at
  /\ wire = << >>
  /\ call = Idle
  /\ readLocks = 0
  /\ changes = 0 /\ made = 0

OvInit == OvStarts("starting")

----------------------------------------------------------------------------
(* What the database tells of a row: all columns of one that is there for  *)
(* the first or the last time, of one that changes the new columns and the *)
(* old values of those that are different.                                 *)
Columns(o, row) == [name |-> RowName(o), hw_unit_id |-> 0, counter_value |-> row.stat, trigger_threshold |-> row.threshold]
Inserted(o, row) == [table |-> "bufmon", new |-> Columns(o, row)]
Deleted(o, row) == [table |-> "bufmon", old |-> Columns(o, row)]
Modified(o, row, to) ==
  LET was == Columns(o, row)
      is == Columns(o, to)
      differ == {c \in {"counter_value", "trigger_threshold"} : was[c] # is[c]}
  IN [table |-> "bufmon", old |-> [c \in differ |-> was[c]], new |-> is]
SystemRow(c) == [table |-> "System", new |-> [bufmon_config |-> c]]
SystemModified(c, to) == [table |-> "System", old |-> [bufmon_config |-> c], new |-> [bufmon_config |-> to]]

Tell(updates) == wire' = IF monitor = "serving" THEN Append(wire, updates) ELSE wire

(* The switch daemon counts, and adds and removes rows. *)
DbChange ==
  /\ changes < MaxDbChanges
  /\ changes' = changes + 1
  /\ \/ \E o \in DOMAIN db :
          LET to == [db[o] EXCEPT !.stat = Stat(o, 1) + Stat(o, 2) - @]
          IN db' = [db EXCEPT ![o] = to] /\ Tell({Modified(o, db[o], to)})
     \/ \E o \in Objects \ DOMAIN db : db' = [x \in DOMAIN db \cup {o} |-> IF x = o THEN FirstRow(o) ELSE db[x]] /\ Tell({Inserted(o, FirstRow(o))})
     \/ \E o \in DOMAIN db : db' = [x \in DOMAIN db \ {o} |-> db[x]] /\ Tell({Deleted(o, db[o])})
  /\ UNCHANGED <<dbConfig, cache, cacheConfig, uuid, monitor, call, readLocks, made>>

----------------------------------------------------------------------------
(* The monitor opens its connection and asks for every table; the reply    *)
(* holds all that the database has.                                        *)
MonitorOpen ==
  /\ monitor = "starting"
  /\ \E opens \in Opening :
       IF opens
       THEN monitor' = "serving" /\ wire' = <<{SystemRow(dbConfig)} \cup {Inserted(o, db[o]) : o \in DOMAIN db}>>
       ELSE monitor' = "ended" /\ UNCHANGED wire
  /\ UNCHANGED <<db, dbConfig, cache, cacheConfig, uuid, call, readLocks, changes, made>>

(* The connection breaks: every receive fails from now on, and the thread  *)
(* waits for what does not come.                                           *)
MonitorLost ==
  /\ monitor = "serving"
  /\ monitor' = "lost" /\ wire' = << >>
  /\ UNCHANGED <<db, dbConfig, cache, cacheConfig, uuid, call, readLocks, changes, made>>

(* OVSDB_GET_COLUMN: of the old columns where there are any.  The empty    *)
(* set is a column that is not told.                                       *)
Column(u, c) ==
  LET from == IF "old" \in DOMAIN u THEN u.old ELSE u.new IN IF c \in DOMAIN from THEN {from[c]} ELSE {}

(* What is left at 0 is not told. *)
ColumnOr0(u, c) == IF Column(u, c) = {} THEN 0 ELSE CHOOSE v \in Column(u, c) : TRUE

(* bst_ovsdb_row_update: under the write lock, the one row that is named. *)
RowUpdate(u) ==
  LET at == UNION {RowGet(name) : name \in Column(u, "name")}
      row == [stat |-> ColumnOr0(u, "counter_value"), threshold |-> ColumnOr0(u, "trigger_threshold")]
  IN cache' = IF Column(u, "hw_unit_id") = {} THEN cache
              ELSE [a \in DOMAIN cache |-> IF a \in at THEN row ELSE cache[a]]

(* The next row of a message: those of System come first. *)
CacheUpdate ==
  /\ monitor = "serving" /\ wire # << >> /\ readLocks = 0
  /\ \E u \in Head(wire) :
       /\ u.table = "bufmon" => \A w \in Head(wire) : w.table = "bufmon"
       /\ wire' = IF Head(wire) = {u} THEN Tail(wire) ELSE [wire EXCEPT ![1] = @ \ {u}]
       /\ IF u.table = "System"
          THEN /\ uuid' = TRUE
               /\ cacheConfig' = IF Column(u, "bufmon_config") = {} THEN cacheConfig
                                 ELSE Parsed(CHOOSE c \in Column(u, "bufmon_config") : TRUE)
               /\ UNCHANGED cache
          ELSE RowUpdate(u) /\ UNCHANGED <<uuid, cacheConfig>>
  /\ UNCHANGED <<db, dbConfig, monitor, call, readLocks, changes, made>>

----------------------------------------------------------------------------
(* The application's thread calls: a set of the thresholds of an object, a *)
(* set of the configuration, a snapshot, one of its parts, the thresholds; *)
(* a unit that is not there or a value out of range ends the call at once, *)
(* as a clear of statistics or thresholds does, which has no effect here.  *)
CallStarts ==
  /\ call = Idle /\ made < MaxCalls /\ made' = made + 1
  /\ \/ \E o \in Objects, bids \in ThresholdSets :
          /\ o[1] \in {bids[i] : i \in DOMAIN bids}
          /\ call' = [what |-> "set", todo |-> bids, port |-> o[2], index |-> o[3]]
     \/ \E c \in {Config(TRUE, "peak"), Config(TRUE, "current")} : call' = [what |-> "config", todo |-> <<c>>]
     \/ \E p \in {Snapshot} \cup {<<g>> : g \in {Snapshot[i] : i \in DOMAIN Snapshot}} :
          call' = [what |-> "data", todo |-> p]
     \/ call' = [what |-> "thresholds", todo |-> ThresholdGets]
     \/ call' = Idle
  /\ UNCHANGED <<db, dbConfig, cache, cacheConfig, uuid, monitor, wire, readLocks, changes>>

(* The rest of the call, which fails as a whole where a step fails. *)
Goes1(ok) == call' = IF ok /\ Len(call.todo) > 1 THEN [call EXCEPT !.todo = Tail(@)] ELSE Idle

(* bst_ovsdb_threshold_commit: the row of that name, if the database has   *)
(* it.  A transaction that fails is printed and no more: the write is lost *)
(* and the call goes on.                                                   *)
ThresholdCommit ==
  /\ call.what = "set"
  /\ LET asked == <<Head(call.todo), call.port, call.index>>
         o == IF asked[1] \in IgnoresQueue THEN <<asked[1], 0, 0>> ELSE asked
         named == {x \in DOMAIN db : RowName(x) = RowName(o)}
         Set(x) == [db[x] EXCEPT !.threshold = Wanted(asked)]
         differ == {x \in named : Set(x) # db[x]}
     IN \E opens \in Opening :
        IF Resolves(o) /\ opens
        THEN /\ \/ /\ db' = [x \in DOMAIN db |-> IF x \in named THEN Set(x) ELSE db[x]]
                   /\ IF differ = {} THEN UNCHANGED wire ELSE Tell({Modified(x, db[x], Set(x)) : x \in differ})
                \/ UNCHANGED <<db, wire>>
             /\ Goes1(TRUE)
        ELSE Goes1(FALSE) /\ UNCHANGED <<db, wire>>
  /\ UNCHANGED <<dbConfig, cache, cacheConfig, uuid, monitor, readLocks, changes, made>>

(* bst_ovsdb_bst_config_commit: the row of System is named by what the     *)
(* monitor was told; before that no row has the name, and a transaction    *)
(* may fail: either way the write is lost, and success returned.           *)
ConfigCommit ==
  /\ call.what = "config"
  /\ \E opens \in Opening :
       LET c == Head(call.todo)
       IN /\ \/ /\ opens /\ uuid /\ c # dbConfig
                /\ dbConfig' = c /\ Tell({SystemModified(dbConfig, c)})
             \/ UNCHANGED <<dbConfig, wire>>
          /\ Goes1(opens)
  /\ UNCHANGED <<db, cache, cacheConfig, uuid, monitor, readLocks, changes, made>>

(* A get of statistics, under the read lock: an index that has no place    *)
(* ends it where it is.                                                    *)
DataGet ==
  /\ call.what = "data"
  /\ LET ok == \A b \in {Head(call.todo)[i] : i \in DOMAIN Head(call.todo)} : \A o \in Loop(b) : Resolves(o)
     IN Goes1(ok) /\ readLocks' = IF ok THEN readLocks ELSE readLocks + 1
  /\ UNCHANGED <<db, dbConfig, cache, cacheConfig, uuid, monitor, wire, changes, made>>

(* Each threshold is read under a lock of its own, taken once its index is *)
(* known to have a place.                                                  *)
ThresholdGet ==
  /\ call.what = "thresholds"
  /\ Goes1(\A o \in Loop(Head(call.todo)) : Resolves(o))
  /\ UNCHANGED <<db, dbConfig, cache, cacheConfig, uuid, monitor, wire, readLocks, changes, made>>

CallGoesOn == ThresholdCommit \/ ConfigCommit \/ DataGet \/ ThresholdGet
OvNext == DbChange \/ MonitorOpen \/ MonitorLost \/ CacheUpdate \/ CallStarts \/ CallGoesOn

(* The scheduler runs the monitor's thread. *)
OvFairness == WF_ovVars(CacheUpdate)
OvSpec == OvInit /\ [][OvNext]_ovVars /\ OvFairness

----------------------------------------------------------------------------
(* Types; the state of the cache has a place for every row it is told of. *)
OvTypeOK ==
  /\ DOMAIN db \subseteq Objects /\ \A o \in DOMAIN db : db[o] \in [stat : Nat, threshold : Nat]
  /\ \A a \in DOMAIN cache : cache[a] \in [stat : Nat, threshold : Nat]
  /\ cacheConfig \in [bst_enable : BOOLEAN, bst_tracking_mode : 0..2]
  /\ monitor \in {"starting", "serving", "lost", "ended"} /\ uuid \in BOOLEAN
  /\ readLocks \in Nat /\ changes <= MaxDbChanges /\ made <= MaxCalls

(* What the plug-in tells of a statistic is what the database had in the   *)
(* row of that statistic, and of a row that is not in the database it      *)
(* tells 0: a row's name, built where it is set, is taken apart to the     *)
(* place where it is read.                                                 *)
CacheFromDatabase ==
  \A a \in DOMAIN cache :
    \/ cache[a] = Zero
    \/ \E o \in Objects :
         /\ a = <<o[1], DbIndex(o)>> /\ cache[a].stat \in {Stat(o, 1), Stat(o, 2)}
         /\ cache[a].threshold \in {FirstThreshold(o)} \cup {Wanted(x) : x \in {y \in Objects : y[1] = o[1] /\ y[1] \in IgnoresQueue}}
                                 \cup {Wanted(o)}

(* A threshold comes to the row of the statistic it was asked for, and to  *)
(* no other: of all tables but those of the unicast and multicast queues,  *)
(* whose calls leave the queue they were given out.                        *)
SetWhereAsked ==
  \A o \in {x \in DOMAIN db : x[1] \notin IgnoresQueue} : db[o].threshold \in {FirstThreshold(o), Wanted(o)}

(* What the database tells is taken while the connection lasts: no read    *)
(* keeps the lock that the cache is written under.                         *)
NotificationsTaken == (monitor = "serving" /\ wire # << >>) ~> (wire = << >> \/ monitor # "serving")
=============================================================================
