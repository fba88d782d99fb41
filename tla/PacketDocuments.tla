---------------------------- MODULE PacketDocuments ----------------------------
(***************************************************************************)
(* The documents of packet trace, of black hole detection and of the       *)
(* agent itself: which section a port of a trace gets, which members it    *)
(* tells, and the separators the encoders write and step back over.        *)
(* Lengths in characters, and so the end of the buffer, are not modelled.  *)
(***************************************************************************)
EXTENDS ReportText, FiniteSets

CONSTANTS TracePorts,    \* ports of the switch
          GroupMembers        \* members of a trunk or of an ECMP group

ASSUME PacketDocumentsAssumption == IsFiniteSet(TracePorts) /\ IsFiniteSet(GroupMembers)

VARIABLES wanted,        \* the document and what it is made from
          sent           \* the document sent, or <<>>

packetDocumentVars == <<wanted, sent>>

Resolutions == {"trunk", "ecmp1", "ecmp2"}
Features == {"BST", "PT", "Live-PT", "BHD"}

(* What the switch found for a request, and what the applications know.    *)
(* Groups are empty or have every member.                                  *)
Group == {{}, GroupMembers}
Traces ==
  {t \in [what : {"profile", "lag", "ecmp"}, ports : (SUBSET TracePorts) \ {{}},
          flags : [TracePorts -> SUBSET Resolutions], lag : Group, fabric : Group,
          ecmp1 : Group, ecmp2 : Group, dest : SUBSET TracePorts] :
    /\ \A p \in TracePorts \ t.ports : t.flags[p] = {}
    /\ t.what = "lag" => t.ecmp1 = {} /\ t.ecmp2 = {} /\ t.dest = {}
    /\ t.what = "ecmp" => t.lag = {} /\ t.fabric = {} /\ t.dest = {}}
BlackHoles == [what : {"event", "status"}, ports : SUBSET TracePorts]
              \cup [what : {"blackhole"}, ports : SUBSET TracePorts, method : {"agent", "sflow"}]
Properties == [what : {"properties"}, features : SUBSET Features]

PacketDocumentInit ==
  /\ wanted \in Traces \cup BlackHoles \cup Properties
  /\ sent = <<>>

Field(kind, port, value) == <<[t |-> "e", kind |-> kind, port |-> port, value |-> value]>>
Name(kind) == Field(kind, "none", "none")
Each(set, Item(_)) == FlattenSeq([i \in 1..Cardinality(set) |-> Item(SetToSeq(set)[i])])
Listed(kind, port, set) == Each(set, LAMBDA v : Field(kind, port, v) \o Text(<<",">>))
BackIfAny(text, set) == IF set = {} THEN text ELSE Back(text)

(***************************************************************************)
(* Packet trace.                                                           *)
(***************************************************************************)
Flags(port) == wanted.flags[port]

EncodeProfileLag(port) ==
  IF "trunk" \notin Flags(port) THEN Text(<<"{">>) \o Field("no_lag", port, "none") \o Text(<<"}", "}">>)
  ELSE LET members == Text(<<"{">>) \o Field("lag_id", port, "none") \o Text(<<",", "[", " ">>)
                      \o Listed("lag", port, wanted.lag)
           fabric == Text(<<"]", ",">>) \o Field("lag_member", port, "none") \o Text(<<",">>)
                     \o Field("fabric_id", port, "none") \o Text(<<",", "[", " ">>)
                     \o Listed("fabric", port, wanted.fabric)
       IN  BackIfAny(members, wanted.lag) \o BackIfAny(fabric, wanted.fabric) \o Text(<<"]", "}", "}">>)

(* The level of ECMP that resolved the packet: the second is the last. *)
EcmpLevel(port) == IF "ecmp2" \in Flags(port) THEN "ecmp2" ELSE "ecmp1"

EcmpMembers(port) == IF EcmpLevel(port) = "ecmp2" THEN wanted.ecmp2 ELSE wanted.ecmp1

(* Unlike the other encoders it steps back also when there is no member.   *)
EncodeProfileEcmp(port) ==
  IF Flags(port) \cap {"ecmp1", "ecmp2"} = {}
  THEN Text(<<"{">>) \o Field("no_ecmp", port, "none") \o Text(<<"}">>)
  ELSE Back(Text(<<"{">>) \o Field("ecmp_group", port, "none") \o Text(<<",", "[">>)
            \o Each(EcmpMembers(port), LAMBDA m :
                 Text(<<"[">>) \o Field(EcmpLevel(port), port, m) \o Text(<<"]", ",">>)))
       \o Text(<<" ", "]", ",">>) \o Field("ecmp_dst", port, "none") \o Text(<<"}">>)

(* The destination ports, when neither a trunk nor ECMP chose among them.  *)
EncodeProfileLink(port) ==
  LET dest == IF Flags(port) = {} THEN wanted.dest ELSE {}
      links == Each(dest, LAMBDA d : Text(<<"{">>) \o Field("dest", port, d) \o Text(<<"}", ",">>))
  IN  Text(<<"[", " ">>) \o BackIfAny(links, dest)

LagReport ==
  Back(Each(wanted.ports, LAMBDA p :
    Text(<<"{">>) \o Field("port", p, "none") \o Text(<<",">>) \o EncodeProfileLag(p) \o Text(<<",">>)))

(* No comma after the last port. *)
EcmpReport ==
  Back(Each(wanted.ports, LAMBDA p :
    Text(<<"{">>) \o Field("port", p, "none") \o Text(<<",", "[", " ">>) \o EncodeProfileEcmp(p)
    \o Text(<<"]", "}", ",">>)))

ProfileReport ==
  Back(Each(wanted.ports, LAMBDA p :
    Text(<<"{">>) \o Field("port", p, "none") \o Text(<<",", "[">>)
    \o Text(<<"{">>) \o Name("realm") \o Text(<<",">>) \o EncodeProfileLag(p) \o Text(<<",">>)
    \o Text(<<"{">>) \o Name("realm") \o Text(<<",", "[">>) \o EncodeProfileEcmp(p) \o Text(<<"]", "}", ",">>)
    \o Text(<<"{">>) \o Name("realm") \o Text(<<",">>) \o EncodeProfileLink(p)
    \o Text(<<"]", "}", "]", "}", ",">>)))

EncodePtProfile ==
  Text(<<"{">>) \o Name("method") \o Text(<<",", "[", "{">>) \o Name("packet") \o Text(<<"}", "]", ",", "[">>)
  \o (CASE wanted.what = "profile" -> ProfileReport
        [] wanted.what = "lag" -> LagReport
        [] wanted.what = "ecmp" -> EcmpReport)
  \o Text(<<"]", ",">>) \o Name("id") \o Text(<<"}">>)

(***************************************************************************)
(* Black hole detection and the agent.                                     *)
(***************************************************************************)
(* A list of ports steps back over its last comma, or the space after "[". *)
PortsOf(kind) == Back(Text(<<"[", " ">>) \o Listed(kind, "none", wanted.ports)) \o Text(<<"]">>)

EncodeBlackHole ==
  Text(<<"{">>) \o Name("method") \o Text(<<",", "{">>) \o PortsOf("dest") \o Text(<<",">>)
  \o Name("sampling") \o Text(<<",", "{">>)
  \o (IF wanted.method = "agent" THEN Name("params")
      ELSE Text(<<"{">>) \o Name("encap") \o Text(<<"}", ",">>) \o Name("mirror"))
  \o Text(<<"}", "}", ",">>) \o Name("id") \o Text(<<"}">>)

EncodeSamplingStatus ==
  Text(<<"{">>) \o Name("method") \o Text(<<",", "{">>)
  \o Back(Text(<<"[", " ">>) \o Each(wanted.ports, LAMBDA p :
       Text(<<"{">>) \o Field("dest", "none", p) \o Text(<<"}", ",">>)))
  \o Text(<<"]", "}", ",">>) \o Name("id") \o Text(<<"}">>)

EncodeEventReport ==
  Text(<<"{">>) \o Name("method") \o Text(<<",", "{">>) \o Name("ingress") \o Text(<<",">>)
  \o PortsOf("dest") \o Text(<<",">>) \o Name("packet") \o Text(<<"}", "}">>)

(* Each feature but the first that is there has a comma before it. *)
FeatureList ==
  IF wanted.features = {} THEN <<>> ELSE Back(Listed("feature", "none", wanted.features))
EncodeSwitchProperties ==
  Text(<<"{">>) \o Name("method") \o Text(<<",", "{">>) \o Name("asics") \o Text(<<",">>)
  \o Text(<<"[">>) \o FeatureList
  \o Text(<<"]", ",">>) \o Name("uid") \o Text(<<"}", "}">>)

EncodeDocument ==
  CASE wanted.what \in {"profile", "lag", "ecmp"} -> EncodePtProfile
    [] wanted.what = "blackhole" -> EncodeBlackHole
    [] wanted.what = "status" -> EncodeSamplingStatus
    [] wanted.what = "event" -> EncodeEventReport
    [] wanted.what = "properties" -> EncodeSwitchProperties

SendDocument ==
  /\ sent = <<>> /\ sent' = EncodeDocument
  /\ UNCHANGED wanted

PacketDocumentSent == sent # <<>> /\ UNCHANGED packetDocumentVars

PacketDocumentNext == SendDocument \/ PacketDocumentSent
PacketDocumentSpec == PacketDocumentInit /\ [][PacketDocumentNext]_packetDocumentVars

(***************************************************************************)
(* Properties.                                                             *)
(***************************************************************************)
Is(kinds) == {e \in ToldIn(sent) : e.kind \in kinds}
IsTrace == wanted.what \in {"profile", "lag", "ecmp"}
EcmpWithoutMembers ==
  wanted.what \in {"profile", "ecmp"}
    /\ \E p \in wanted.ports : Flags(p) \cap {"ecmp1", "ecmp2"} # {} /\ EcmpMembers(p) = {}

(* Stepping back over separators leaves a document a JSON parser takes,    *)
(* whatever lists are empty; the one exception is an ECMP group without    *)
(* members, whose opening bracket is taken away (packet_trace_json_        *)
(* encoder.c:290).                                                         *)
PacketReportWellFormed == sent # <<>> /\ ~EcmpWithoutMembers => IsWellFormed(sent)

(* Where a port's packet goes is told once and consistently: the members   *)
(* of its trunk and of the last ECMP group that resolved it, and ports of  *)
(* destination only when neither did; nothing about a port not asked for.  *)
ResolutionTold ==
  sent # <<>> /\ IsTrace =>
    /\ {e.port : e \in Is({"port"})} = wanted.ports
    /\ \A p \in wanted.ports :
         LET told(kind) == {e.value : e \in {x \in Is({kind}) : x.port = p}}
             flags == IF wanted.what = "lag" THEN Flags(p) \cap {"trunk"}
                      ELSE IF wanted.what = "ecmp" THEN Flags(p) \ {"trunk"} ELSE Flags(p)
         IN  /\ told("lag") = IF "trunk" \in flags THEN wanted.lag ELSE {}
             /\ told("ecmp2") = IF "ecmp2" \in flags THEN wanted.ecmp2 ELSE {}
             /\ told("ecmp1") # {} => flags \cap {"ecmp1", "ecmp2"} = {"ecmp1"}
             /\ told("dest") # {} => told("ecmp1") \cup told("ecmp2") \cup told("lag") = {}
             /\ wanted.what = "profile" /\ flags = {} => told("dest") = wanted.dest
================================================================================
