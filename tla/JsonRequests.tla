----------------------------- MODULE JsonRequests -----------------------------
(***************************************************************************)
(* A decoder at work on one request: it parses the document, reads the     *)
(* members of its command one after the other, leaves at the first that is *)
(* missing or wrong, calls the application with the command and releases   *)
(* the document.  What a member holds is chosen when it is read.           *)
(***************************************************************************)
EXTENDS JsonCommands, FiniteSets, SequencesExt

CONSTANT MaxOptional    \* bound: optional members in a request

ASSUME JsonAssumption == MaxOptional \in Nat

VARIABLES cmd,          \* the command
          at,           \* the member read next, 0 before the document is parsed
          variant,      \* the variant of the command: tuple, packet, agent, sflow
          read,         \* the members found so far
          mask,         \* command.mask, command.configMask
          wild,         \* the fields of the 5-tuple given as "any"
          tuple_mask,   \* the fields of the 5-tuple given by value
          alive,        \* cJSON documents allocated and not released
          released,     \* calls of cJSON_Delete
          rv            \* what the decoder returns, "decoding" at first

jsonVars == <<cmd, at, variant, read, mask, wild, tuple_mask, alive, released, rv>>

MaxWildcards == 3       \* BVIEW_PT_MAX_WC

JsonInit ==
  /\ cmd \in Commands /\ at = 0 /\ variant = "all" /\ rv = "decoding"
  /\ read = {} /\ mask = {} /\ wild = {} /\ tuple_mask = {} /\ alive = 0 /\ released = 0

Members == Decoder[cmd]
Next1 == Members[at]
Decoding == rv = "decoding" /\ at \in 1..Len(Members)
Applies(member) == member.only \in {"all", variant}

(* The ways a member that is there can be refused: whether the document is *)
(* released (JSON_VALIDATE_JSON_AS_*, JSON_CHECK_VALUE_AND_CLEANUP) or not *)
(* (JSON_*_MAP_FROM_NOTATION), and the status.                             *)
Released(status) == [release |-> TRUE, rv |-> status]
Leaked(status) == [release |-> FALSE, rv |-> status]
Refusals == [
  object    |-> {},
  unchecked |-> {},
  number    |-> {Released("INVALID_JSON")},
  amount    |-> {Released("INVALID_JSON")},
  text      |-> {Released("INVALID_JSON")},
  string    |-> {Released("INVALID_JSON")},
  notation  |-> {Released("INVALID_JSON"), Leaked("INVALID_JSON")},
  asic      |-> {Released("INVALID_JSON"), Leaked("INVALID_JSON"), Leaked("INVALID_PARAMETER")},
  choice    |-> {Released("INVALID_JSON")},
  method    |-> {Released("INVALID_JSON"), Released("INVALID_PARAMETER")},
  address   |-> {Released("INVALID_JSON"), Released("INVALID_PARAMETER")},
  udpport   |-> {Released("INVALID_JSON")},
  wild      |-> {Released("INVALID_JSON")},
  packet    |-> {Released("INVALID_JSON"), Leaked("INVALID_PARAMETER")},
  ports     |-> {Leaked("INVALID_JSON"), Leaked("INVALID_PARAMETER")},
  allports  |-> {Released("INVALID_JSON"), Leaked("INVALID_JSON")}]

(* A number around the bounds of its range; a 5-tuple field can be a word, *)
(* which atoi takes for zero.                                              *)
Samples(member) == {member.lo - 1, member.lo, member.hi, member.hi + 1}
InRange(member, value) == member.lo <= value /\ value <= member.hi

(* No cookie, no text, a text that is not JSON. *)
ParseFails ==
  /\ rv = "decoding" /\ at = 0
  /\ rv' \in {"INVALID_PARAMETER", "INVALID_JSON"}
  /\ UNCHANGED <<cmd, at, variant, read, mask, wild, tuple_mask, alive, released>>

Parse ==
  /\ rv = "decoding" /\ at = 0
  /\ at' = 1 /\ alive' = 1
  /\ UNCHANGED <<cmd, variant, read, mask, wild, tuple_mask, released, rv>>

(* A member that belongs to another variant is not looked for. *)
Skip ==
  /\ Decoding /\ ~Applies(Next1)
  /\ at' = at + 1
  /\ UNCHANGED <<cmd, variant, read, mask, wild, tuple_mask, alive, released, rv>>

(* JSON_VALIDATE_JSON_POINTER returns without releasing the document. *)
Missing ==
  /\ Decoding /\ Applies(Next1) /\ Next1.needed
  /\ rv' = "INVALID_JSON"
  /\ UNCHANGED <<cmd, at, variant, read, mask, wild, tuple_mask, alive, released>>

(* An optional member is left out; without a source address the profile is *)
(* a packet.                                                               *)
LeftOut ==
  /\ Decoding /\ Applies(Next1) /\ ~Next1.needed
  /\ at' = at + 1
  /\ variant' = IF Next1.name = "src-ip" THEN "packet" ELSE variant
  /\ UNCHANGED <<cmd, read, mask, wild, tuple_mask, alive, released, rv>>

WithinBound == Next1.needed \/ Cardinality({m \in read : ~m.needed}) < MaxOptional

(* A bug to tell apart: a refused member is skipped. *)
RefuseAndReadOn ==
  /\ Decoding /\ Applies(Next1) /\ WithinBound
  /\ \E r \in Refusals[Next1.kind] :
       /\ alive' = IF r.release THEN 0 ELSE alive
       /\ released' = IF r.release THEN released + 1 ELSE released
  /\ at' = at + 1
  /\ UNCHANGED <<cmd, variant, read, mask, wild, tuple_mask, rv>>

(* A member of the wrong type, an unknown text or a number out of range. *)
Refuse ==
  /\ Decoding /\ Applies(Next1) /\ WithinBound
  /\ Next1.kind = "number" => \E v \in Samples(Next1) : ~InRange(Next1, v)
  /\ \E r \in Refusals[Next1.kind] :
       /\ rv' = r.rv
       /\ alive' = IF r.release THEN 0 ELSE alive
       /\ released' = IF r.release THEN released + 1 ELSE released
  /\ UNCHANGED <<cmd, at, variant, read, mask, wild, tuple_mask>>

(* A member is read into the command. *)
Read ==
  /\ Decoding /\ Applies(Next1) /\ WithinBound /\ Next1.kind # "wild"
  /\ Next1.kind = "number" => \E v \in Samples(Next1) : InRange(Next1, v)
  /\ variant' \in (IF Next1.kind = "method" THEN {"agent", "sflow"} ELSE {variant})
  /\ read' = read \cup {Next1}
  /\ mask' = IF Next1.masked THEN mask \cup {Next1.name} ELSE mask
  /\ at' = at + 1
  /\ UNCHANGED <<cmd, wild, tuple_mask, alive, released, rv>>

(* A UDP port of zero: the document is released and decoding goes on. *)
UdpPortZero ==
  /\ Decoding /\ Applies(Next1) /\ Next1.kind = "udpport"
  /\ read' = read \cup {Next1}
  /\ alive' = 0 /\ released' = released + 1
  /\ at' = at + 1
  /\ UNCHANGED <<cmd, variant, mask, wild, tuple_mask, rv>>

(* A bug to tell apart: one wildcard more. *)
TooMany(fields) == Cardinality(fields) > MaxWildcards + 1

TooManyWildcards(fields) == Cardinality(fields) > MaxWildcards

(* A field of the 5-tuple given by value... *)
ReadField ==
  /\ Decoding /\ Applies(Next1) /\ Next1.kind = "wild"
  /\ \E v \in Samples(Next1) \cup {0} : InRange(Next1, v)
  /\ tuple_mask' = tuple_mask \cup {Next1.name}
  /\ variant' = "tuple" /\ read' = read \cup {Next1} /\ at' = at + 1
  /\ UNCHANGED <<cmd, mask, wild, alive, released, rv>>

(* ... or as "any": at most three are. *)
ReadWildcard ==
  /\ Decoding /\ Applies(Next1) /\ Next1.kind = "wild"
  /\ wild' = wild \cup {Next1.name} /\ variant' = "tuple"
  /\ IF TooManyWildcards(wild')
     THEN /\ rv' = "INVALID_JSON" /\ alive' = 0 /\ released' = released + 1
          /\ UNCHANGED <<at, read>>
     ELSE /\ read' = read \cup {Next1} /\ at' = at + 1
          /\ UNCHANGED <<alive, released, rv>>
  /\ UNCHANGED <<cmd, mask, tuple_mask>>

(* get-bst-cgsn-drop-counters: what is meant to refuse a request without   *)
(* the members its type needs accepts every mask, as a bit outside of      *)
(* those needed is always clear.                                           *)
AllDropMembers == {"collection-interval", "port-list", "count", "queue-type", "queue-list", "request-type", "unused"}
ValidCombination(given, needed) ==
  given \cap needed # {} /\ (AllDropMembers \ given) \cap (AllDropMembers \ needed) # {}

DropsNeeded == [
  top_drops |-> {"count", "request-type"}, top_q_drops |-> {"count", "request-type", "queue-type"},
  port_drops |-> {"port-list", "request-type"},
  q_drops |-> {"port-list", "request-type", "queue-type", "queue-list"}]
DropTypes == DOMAIN DropsNeeded

(* Everything was read: the application is called, then the document is    *)
(* released.  The variant of a drop-counter request is its type.           *)
Handle ==
  /\ rv = "decoding" /\ at = Len(Members) + 1
  /\ IF cmd = "get_bst_cgsn_drop_counters"
     THEN \E type \in DropTypes : ValidCombination(mask, DropsNeeded[type]) /\ variant' = type
     ELSE UNCHANGED variant
  /\ rv' = "handled" /\ alive' = 0 /\ released' = released + 1
  /\ UNCHANGED <<cmd, at, read, mask, wild, tuple_mask>>

(* The REST server waits for the decoder; it has answered or handed over.  *)
Decoded == rv # "decoding" /\ UNCHANGED jsonVars

JsonNext ==
  \/ ParseFails \/ Parse \/ Skip \/ Missing \/ LeftOut \/ Refuse \/ Read \/ UdpPortZero
  \/ ReadField \/ ReadWildcard \/ Handle \/ Decoded
JsonSpec == JsonInit /\ [][JsonNext]_jsonVars

(***************************************************************************)
(* Properties.                                                             *)
(***************************************************************************)
(* Every variable keeps its type. *)
JsonTypeOK ==
  /\ cmd \in Commands /\ at \in 0..Len(Members) + 1 /\ alive \in 0..1 /\ released \in 0..3
  /\ variant \in {"all", "tuple", "packet", "agent", "sflow"} \cup DropTypes
  /\ read \subseteq Range(Members) /\ mask \subseteq {m.name : m \in Range(Members)}
  /\ wild \cup tuple_mask \subseteq {m.name : m \in {x \in Range(Members) : x.kind = "wild"}}
  /\ rv \in {"decoding", "handled", "INVALID_JSON", "INVALID_PARAMETER"}

(* The document is released at most once, and once by the time the request *)
(* is handed over, in every one of the 29 decoders and whatever it refuses *)
(* on its way; the exception is a UDP port of zero, which releases it and  *)
(* reads on (configure_black_hole.c:274).                                  *)
ReleasedOnce ==
  LET ports == {m \in read : m.kind = "udpport"}
  IN  released <= 1 + Cardinality(ports) /\ (rv = "handled" => released >= 1 /\ alive = 0)

(* A command is handed to the application only with every member that its  *)
(* variant needs, whichever optional members came before: a 5-tuple with   *)
(* all its fields, a packet with its bytes, sFlow with its encapsulation.  *)
NeededGiven ==
  rv = "handled" =>
    \A m \in Range(Members) :
      m.needed /\ (m.only = "all" \/ m.only = variant) => m \in read

(* The hardware rule of a 5-tuple is built from the fields given by value: *)
(* every field is either one of these or "any", never both and never       *)
(* neither, and at most three are "any" (packet_trace.h:44).               *)
FieldsDecided ==
  rv = "handled" /\ (\E m \in Range(Members) : m.kind = "wild") /\ variant = "tuple" =>
    /\ wild \cap tuple_mask = {} /\ Cardinality(wild) <= MaxWildcards
    /\ wild \cup tuple_mask = {m.name : m \in {x \in Range(Members) : x.kind = "wild"}}
===============================================================================
