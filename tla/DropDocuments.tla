---------------------------- MODULE DropDocuments ----------------------------
(***************************************************************************)
(* A report of congestion drops: bst_collect_cgsn_drop_counters reads the  *)
(* counters a request names into the array of all counters of the unit,    *)
(* bst_sort_records brings the largest to its front, and the encoder       *)
(* (bst_json_encoder.c) tells those that are not zero.                     *)
(***************************************************************************)
EXTENDS ReportText, FiniteSets

CONSTANTS DropPorts,      \* asic->numPorts
          Queues,         \* BVIEW_BST_APP_NUM_COS_PORT
          MaxCount,       \* bound: the count of a request
          MaxDropping     \* bound: counters that are not zero

ASSUME DropsAssumption == DropPorts \in Nat \ {0} /\ Queues \in Nat \ {0} /\ MaxCount \in Nat \ {0} /\ MaxDropping \in Nat

VARIABLES input,          \* the request
          switch,         \* the drop counters of the switch
          report          \* the text sent, empty before

dropVars == <<input, switch, report>>

(* The array: unicast, then multicast counters, then one total by port. *)
TotalDropCtrs == (2 * Queues + 1) * DropPorts
UcastIndex(port, queue) == (port - 1) * Queues + queue
McastIndex(port, queue) == DropPorts * Queues + (port - 1) * Queues + queue
TotalIndex(port) == 2 * DropPorts * Queues + port
Indices == 1..TotalDropCtrs

(* BVIEW_BST_CGSN_COUNT_MAX is 64; the array has room for 130 ports.       *)
ASSUME CountAssumption == MaxCount < TotalDropCtrs

NonEmpty(set) == (SUBSET set) \ {{}}
PortLists == {[ports |-> p, all |-> FALSE] : p \in NonEmpty(1..DropPorts)}
             \cup {[ports |-> 1..DropPorts, all |-> TRUE]}
Inputs ==
  [type : {"top_drops"}, count : 1..MaxCount, ports : {{}}, all : {FALSE}, queue_type : {"all"}, queues : {{}}]
  \cup [type : {"top_q_drops"}, count : 1..MaxCount, ports : {{}}, all : {FALSE},
        queue_type : {"all", "ucast", "mcast"}, queues : {{}}]
  \cup {[type |-> "port_drops", count |-> 0, ports |-> l.ports, all |-> l.all,
         queue_type |-> "all", queues |-> {}] : l \in PortLists}
  \cup {[type |-> "q_drops", count |-> 0, ports |-> l.ports, all |-> l.all, queue_type |-> t, queues |-> q] :
         l \in PortLists, t \in {"all", "ucast", "mcast"}, q \in NonEmpty(1..Queues)}

Dropping(n) == {s \in SUBSET Indices : Cardinality(s) <= n}
DropInit ==
  /\ input \in Inputs /\ report = <<>>
  /\ \E d \in Dropping(MaxDropping) : \E values \in [d -> 1..2] :
       switch = [i \in Indices |-> IF i \in d THEN values[i] ELSE 0]

(* bst_collect_cgsn_drop_counters: "all" ports are marked without copying  *)
(* the list of queues that the request gave.                               *)
EveryPort == input.type \in {"top_drops", "top_q_drops"} \/ input.all
DropPortList == IF EveryPort THEN 1..DropPorts ELSE input.ports
QueueList ==
  IF input.type = "top_q_drops" THEN 1..Queues ELSE IF EveryPort THEN {} ELSE input.queues

Collected ==
  IF input.type \in {"top_drops", "port_drops"} THEN {TotalIndex(p) : p \in DropPortList}
  ELSE {UcastIndex(p, q) : p \in DropPortList, q \in IF input.queue_type # "mcast" THEN QueueList ELSE {}}
       \cup {McastIndex(p, q) : p \in DropPortList, q \in IF input.queue_type # "ucast" THEN QueueList ELSE {}}

ReadCounters == [i \in Indices |-> [index |-> i, ctr |-> IF i \in Collected THEN switch[i] ELSE 0]]

(* bst_sort_records: the first count places are filled, each by exchange   *)
(* with every place behind it.                                             *)
Exchange(array, i, k) ==
  IF array[i].ctr < array[k].ctr THEN [array EXCEPT ![i] = array[k], ![k] = array[i]] ELSE array

(* A bug to tell apart: each place is compared with its neighbour only. *)
FillByNeighbour(array, i) == Exchange(array, i, i + 1)

Fill(array, i) ==
  LET after[k \in 0..(TotalDropCtrs - i)] == IF k = 0 THEN array ELSE Exchange(after[k - 1], i, i + k)
  IN  after[TotalDropCtrs - i]

Sorted ==
  LET filled[i \in 0..input.count] == IF i = 0 THEN ReadCounters ELSE Fill(filled[i - 1], i)
  IN  filled[input.count]

Item(counter) == <<[t |-> "e", index |-> counter.index, ctr |-> counter.ctr]>>
Places(array, from, to) ==
  FlattenSeq([k \in 1..(to - from + 1) |->
    IF array[from + k - 1].ctr # 0 THEN <<array[from + k - 1]>> ELSE <<>>])

(* A comma before every item but the first... *)
Joined(items) ==
  FlattenSeq([i \in 1..Len(items) |-> (IF i = 1 THEN <<>> ELSE Text(<<",">>)) \o items[i]])
(* ... or after each, the last of which is written over. *)
Ended(items) == Back(FlattenSeq([i \in 1..Len(items) |-> items[i] \o Text(<<",">>)]))

DropStart == Text(<<"{", "[", "{", "[", " ">>)
DropEnd == Text(<<"]", "}", "]", "}">>)
QueueItem(counter) == Text(<<"{", "[">>) \o Item(counter) \o Text(<<"]", "}">>)

(* The places 0 to count of the array, one more than was asked for. *)
TopPlaces == Places(Sorted, 1, input.count + 1)

PortPlaces == Places(ReadCounters, TotalIndex(1), TotalIndex(DropPorts))

(* The loop over the ports leaves the last one out. *)
PortQueues(port) ==
  Places(ReadCounters, UcastIndex(port, 1), UcastIndex(port, Queues))
  \o Places(ReadCounters, McastIndex(port, 1), McastIndex(port, Queues))

QueuePlaces == FlattenSeq([p \in 1..(DropPorts - 1) |-> PortQueues(p)])

Items(places) == [i \in 1..Len(places) |-> Item(places[i])]
QueueItems(places) == [i \in 1..Len(places) |-> QueueItem(places[i])]

EncodeDrops ==
  LET body ==
        CASE input.type = "top_drops" -> Joined(Items(TopPlaces))
          [] input.type = "port_drops" -> Joined(Items(PortPlaces))
          [] input.type = "q_drops" -> Joined(QueueItems(QueuePlaces))
          [] input.type = "top_q_drops" /\ TopPlaces # <<>> -> Ended(QueueItems(TopPlaces))
          [] OTHER -> <<>>
      start == IF input.type = "top_q_drops" /\ body = <<>> THEN Back(DropStart) ELSE DropStart
  IN  start \o body \o DropEnd

SendDrops ==
  /\ report = <<>> /\ report' = EncodeDrops
  /\ UNCHANGED <<input, switch>>

DropsSent == report # <<>> /\ UNCHANGED dropVars

DropNext == SendDrops \/ DropsSent
DropSpec == DropInit /\ [][DropNext]_dropVars

(***************************************************************************)
(* Properties.                                                             *)
(***************************************************************************)
ToldItems == ToldIn(report)
ToldOf(i) == \E e \in ToldItems : e.index = i

(* Every variable keeps its type; no counter is told twice. *)
DropDocumentsTypeOK ==
  /\ input \in Inputs /\ switch \in [Indices -> 0..2]
  /\ \A e \in ToldItems : e.index \in Indices /\ e.ctr \in 1..2
  /\ \A k, l \in DOMAIN Entries(report) : k # l => Entries(report)[k].index # Entries(report)[l].index

(* The four encoders separate their items in three ways; each leaves a     *)
(* document a JSON parser takes, also when no counter is to be told.       *)
DropsWellFormed == report # <<>> => IsWellFormed(report)

(* What is told is what the switch counted, for a port and a queue that    *)
(* were asked for.                                                         *)
ToldAsCounted ==
  \A e \in ToldItems : e.ctr = switch[e.index] /\ e.index \in Collected

(* A report of the largest drops leaves out no counter that is larger than *)
(* one it tells, and has as many as were asked for if there are that many. *)
(* It may have one more (bst_json_encoder.c:804), which need not be the    *)
(* next largest: the claim is about the first count of them.               *)
Wanted == {i \in Collected : switch[i] # 0}
First(n) == {Entries(report)[k] : k \in {l \in DOMAIN Entries(report) : l <= n}}
TopIsTop ==
  report # <<>> /\ input.type \in {"top_drops", "top_q_drops"} =>
    /\ \A e \in First(input.count) : \A i \in Wanted : switch[i] > e.ctr => ToldOf(i)
    /\ Cardinality(First(input.count)) = IF Cardinality(Wanted) < input.count THEN Cardinality(Wanted) ELSE input.count

(* Every port and every queue that was asked for and drops packets is      *)
(* told; two kinds are known to be left out: the queues of the last port   *)
(* (bst_json_encoder.c:881), and of all ports when the list of ports is    *)
(* "all" (bst.c:1235).                                                     *)
NamedQueues ==
  {UcastIndex(p, q) : p \in input.ports \ {DropPorts}, q \in IF input.queue_type # "mcast" THEN input.queues ELSE {}}
  \cup {McastIndex(p, q) : p \in input.ports \ {DropPorts}, q \in IF input.queue_type # "ucast" THEN input.queues ELSE {}}
NamedDropsTold ==
  report # <<>> =>
    /\ input.type = "port_drops" =>
         \A p \in (IF input.all THEN 1..DropPorts ELSE input.ports) :
           switch[TotalIndex(p)] # 0 => ToldOf(TotalIndex(p))
    /\ input.type = "q_drops" /\ ~input.all =>
         \A i \in NamedQueues : switch[i] # 0 => ToldOf(i)
===============================================================================
