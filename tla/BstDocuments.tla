----------------------------- MODULE BstDocuments -----------------------------
(***************************************************************************)
(* The reports of buffer statistics and thresholds (bst_json_encoder*.c)   *)
(* as a collector receives them: bst_copy_reply_params chooses what to     *)
(* tell, and an encoder for each realm writes the indices that are.  One   *)
(* value stands for all the counters of an index.                          *)
(***************************************************************************)
EXTENDS ReportText, FiniteSets

CONSTANTS NumPorts,       \* asic->numPorts
          NumIndices,     \* priority groups, pools, queues: alike here
          MaxIncluded     \* bound: realms in a report, unless it has all

ASSUME DocumentsAssumption == NumPorts \in Nat \ {0} /\ NumIndices \in Nat \ {0} /\ MaxIncluded \in Nat

VARIABLES ask,            \* the request and the configuration it meets
          current,        \* the active record, by port and index
          previous,       \* the backup record
          document        \* what was sent, empty before

documentVars == <<ask, current, previous, document>>

IngressRealms == <<"ippg", "ipsp", "isp">>
EgressRealms == <<"cpuq", "mcq", "epsp", "rqeq", "esp", "ucq", "ucqg">>
DocumentRealms == {"device"} \cup Range(IngressRealms) \cup Range(EgressRealms)
PortRealms == {"ippg", "ipsp", "epsp"}    \* one list for each port

Cells == (1..NumPorts) \X (1..NumIndices)
Counters == [Cells -> 0..1]
IncludeSets == {s \in SUBSET DocumentRealms : Cardinality(s) <= MaxIncluded} \cup {DocumentRealms}

(* A request of the collector names the realms; a periodic or a trigger    *)
(* report has those that are tracked.                                      *)
ReportAsks ==
  [kind : {"report", "threshold"}, include : IncludeSets, incremental : {TRUE}, snapshot : {TRUE},
   realm : {"device"}, port : {1}, queue : {0}]
  \cup [kind : {"periodic"}, include : IncludeSets, incremental : BOOLEAN, snapshot : {TRUE},
   realm : {"device"}, port : {1}, queue : {0}]
  \cup [kind : {"trigger"}, include : IncludeSets, incremental : {TRUE}, snapshot : {TRUE},
   realm : {"ippg"}, port : {1}, queue : {0}]
  \cup [kind : {"trigger"}, include : {{}, DocumentRealms}, incremental : {TRUE}, snapshot : {FALSE},
   realm : DocumentRealms, port : 1..NumPorts, queue : 0..(NumIndices - 1)]

DocumentInit ==
  /\ ask \in ReportAsks /\ current \in Counters /\ document = <<>>
  /\ previous \in (IF ask.kind = "periodic" /\ ask.incremental THEN Counters ELSE {[c \in Cells |-> 0]})

(* bst_copy_reply_params *)
Trigger == ask.kind = "trigger"
OneIndex == Trigger /\ ~ask.snapshot
Include == IF OneIndex THEN {ask.realm} ELSE ask.include
HasPrevious == ask.kind = "periodic" /\ ask.incremental
Incremental == IF ask.kind = "periodic" THEN ask.incremental ELSE ask.kind # "threshold"

(* The index a report is about, or every one. *)
OfTrigger(realm, port, index) ==
  OneIndex => (index - 1 = ask.queue /\ (realm \in PortRealms => port = ask.port))

IncludeIndex(port, index) ==
  IF HasPrevious THEN previous[<<port, index>>] # current[<<port, index>>]
  ELSE ~Incremental \/ current[<<port, index>>] # 0

Entry(realm, port, index) ==
  <<[t |-> "e", realm |-> realm, port |-> port, index |-> index, value |-> current[<<port, index>>]]>>
Open == Text(<<"{", "[", " ">>)
Close == Text(<<"]", "}", " ", ",">>)

IndexList(realm, port) ==
  FlattenSeq([i \in 1..NumIndices |->
    IF OfTrigger(realm, port, i) /\ IncludeIndex(port, i)
    THEN Entry(realm, port, i) \o Text(<<" ", ",">>) ELSE <<>>])

(* A bug to tell apart: the last separator of a list stays. *)
CloseKept(text) == text \o Close

(* Step back over the last separator, or the space of the opening, and     *)
(* close the list.                                                         *)
CloseList(text) == Back(text) \o Close

FlatRealm(realm) == CloseList(Open \o IndexList(realm, 1))

PortList(realm, port) ==
  IF IndexList(realm, port) = <<>> THEN <<>> ELSE CloseList(Open \o IndexList(realm, port))
PortRealm(realm) == CloseList(Open \o FlattenSeq([p \in 1..NumPorts |-> PortList(realm, p)]))

(* One encoder for each realm, all of two shapes. *)
IngressIppg == PortRealm("ippg")
IngressIpsp == PortRealm("ipsp")
IngressSp == FlatRealm("isp")
EgressCpuq == FlatRealm("cpuq")
EgressMcq == FlatRealm("mcq")
EgressEpsp == PortRealm("epsp")
EgressRqeq == FlatRealm("rqeq")
EgressSp == FlatRealm("esp")
EgressUcq == FlatRealm("ucq")
EgressUcqg == FlatRealm("ucqg")

ReportRealm(realm) ==
  CASE realm = "ippg" -> IngressIppg [] realm = "ipsp" -> IngressIpsp [] realm = "isp" -> IngressSp
    [] realm = "cpuq" -> EgressCpuq [] realm = "mcq" -> EgressMcq [] realm = "epsp" -> EgressEpsp
    [] realm = "rqeq" -> EgressRqeq [] realm = "esp" -> EgressSp [] realm = "ucq" -> EgressUcq
    [] realm = "ucqg" -> EgressUcqg

ReportRealms(realms) ==
  FlattenSeq([i \in 1..Len(realms) |-> IF realms[i] \in Include THEN ReportRealm(realms[i]) ELSE <<>>])

(* The device is told unless it is as it was, also when it is zero. *)
ReportDevice ==
  IF "device" \in Include /\ (HasPrevious => previous[<<1, 1>>] # current[<<1, 1>>])
  THEN Entry("device", 1, 1) \o Text(<<" ", ",">>) ELSE <<>>

Asked(realms) == Include \cap Range(realms) # {}
ReportIngress ==
  IF ~Asked(IngressRealms) THEN <<>>
  ELSE IF Asked(EgressRealms) THEN ReportRealms(IngressRealms) ELSE Back(ReportRealms(IngressRealms))
ReportEgress == IF Asked(EgressRealms) THEN Back(ReportRealms(EgressRealms)) ELSE <<>>

(* The list of a trigger report is opened without a space after it. *)
ReportStart == Text(IF Trigger THEN <<"{", "[">> ELSE <<"{", "[", " ">>)

EncodeReport ==
  Back(ReportStart \o ReportDevice \o ReportIngress \o ReportEgress) \o Text(<<" ", "]", " ", "}">>)

SendResponse ==
  /\ document = <<>> /\ document' = EncodeReport
  /\ UNCHANGED <<ask, current, previous>>

DocumentSent == document # <<>> /\ UNCHANGED documentVars

DocumentNext == SendResponse \/ DocumentSent
DocumentSpec == DocumentInit /\ [][DocumentNext]_documentVars

(***************************************************************************)
(* Properties.                                                             *)
(***************************************************************************)
Told == ToldIn(document)

(* Every variable keeps its type. *)
DocumentsTypeOK ==
  /\ ask \in ReportAsks /\ current \in Counters /\ previous \in Counters
  /\ \A e \in Told : e.realm \in Include /\ <<e.port, e.index>> \in Cells /\ e.value \in 0..1

(* Stepping back over separators leaves a document a JSON parser takes,    *)
(* whichever realms and indices it has, none included; the one exception   *)
(* is a trigger report with a snapshot while nothing is tracked, whose     *)
(* opening bracket is written over (bst_json_encoder.c:471, 538).          *)
ReportWellFormed ==
  document # <<>> /\ ~(Trigger /\ Include = {}) => IsWellFormed(document)

(* A collector that takes zero for what it was not told, or in incremental *)
(* reports the value of the last one, has the counters of the switch.      *)
CollectorSees ==
  document # <<>> /\ ~OneIndex =>
    \A realm \in Include \ {"device"} :
      \A cell \in (IF realm \in PortRealms THEN Cells ELSE {1} \X (1..NumIndices)) :
        LET told == {e \in Told : e.realm = realm /\ <<e.port, e.index>> = cell}
        IN  IF told = {} THEN current[cell] = previous[cell] ELSE \A e \in told : e.value = current[cell]

(* Without a snapshot a trigger report tells nothing but the counter that  *)
(* passed its threshold.                                                   *)
OnlyTheTrigger ==
  document # <<>> /\ OneIndex =>
    \A e \in Told :
      /\ e.realm = ask.realm
      /\ e.realm # "device" => e.index = ask.queue + 1
      /\ e.realm \in PortRealms => e.port = ask.port
===============================================================================
