------------------------------ MODULE MCRequests ------------------------------
(***************************************************************************)
(* Instances of what happens to one request and its answer: decoding it,   *)
(* setting thresholds, writing the documents and the pools they are        *)
(* written in.  The parts are checked one at a time: part, chosen at the   *)
(* start, says which one runs; the others keep one initial state.          *)
(***************************************************************************)
EXTENDS JsonRequests, BstThresholds, BstDocuments, DropDocuments, PacketDocuments, JsonMemory

VARIABLE part

requestsVars == <<jsonVars, thrVars, documentVars, dropVars, packetDocumentVars, poolVars, part>>

(* One initial state of each part, for when another part runs.             *)
JsonRest ==
  /\ cmd = "clear_bst_statistics" /\ at = 0 /\ variant = "all" /\ rv = "decoding"
  /\ read = {} /\ mask = {} /\ wild = {} /\ tuple_mask = {} /\ alive = 0 /\ released = 0
ThrRest ==
  /\ realm = "device" /\ steady = TRUE /\ units = "bytes" /\ tainted = FALSE /\ last = NoCommand
  /\ hw = [f \in Programmed |-> Limit] /\ cache = ThresholdGet(hw)
DocumentRest ==
  /\ ask = CHOOSE a \in ReportAsks : a.kind = "report" /\ a.include = {}
  /\ current = [c \in Cells |-> 0] /\ previous = [c \in Cells |-> 0] /\ document = <<>>
DropRest ==
  /\ input = CHOOSE i \in Inputs : i.type = "top_drops"
  /\ switch = [i \in Indices |-> 0] /\ report = <<>>
PacketDocumentRest == wanted = [what |-> "event", ports |-> {}] /\ sent = <<>>
PoolRest ==
  /\ pool = "system" /\ slices = SystemMemoryInit
  /\ held = Nothing /\ lost = {} /\ documents = 0 /\ denied = FALSE

MCInit ==
  /\ part \in {"decode", "thresholds", "bst", "drops", "packets", "memory"}
  /\ IF part = "decode" THEN JsonInit ELSE JsonRest
  /\ IF part = "thresholds" THEN ThrInit ELSE ThrRest
  /\ IF part = "bst" THEN DocumentInit ELSE DocumentRest
  /\ IF part = "drops" THEN DropInit ELSE DropRest
  /\ IF part = "packets" THEN PacketDocumentInit ELSE PacketDocumentRest
  /\ IF part = "memory" THEN PoolInit ELSE PoolRest

JsonRuns ==
  /\ part = "decode" /\ JsonNext
  /\ UNCHANGED <<thrVars, documentVars, dropVars, packetDocumentVars, poolVars, part>>
ThrRuns ==
  /\ part = "thresholds" /\ ThrNext
  /\ UNCHANGED <<jsonVars, documentVars, dropVars, packetDocumentVars, poolVars, part>>
DocumentRuns ==
  /\ part = "bst" /\ DocumentNext
  /\ UNCHANGED <<jsonVars, thrVars, dropVars, packetDocumentVars, poolVars, part>>
DropRuns ==
  /\ part = "drops" /\ DropNext
  /\ UNCHANGED <<jsonVars, thrVars, documentVars, packetDocumentVars, poolVars, part>>
PacketDocumentRuns ==
  /\ part = "packets" /\ PacketDocumentNext
  /\ UNCHANGED <<jsonVars, thrVars, documentVars, dropVars, poolVars, part>>
PoolRuns ==
  /\ part = "memory" /\ PoolNext
  /\ UNCHANGED <<jsonVars, thrVars, documentVars, dropVars, packetDocumentVars, part>>

MCNext == JsonRuns \/ ThrRuns \/ DocumentRuns \/ DropRuns \/ PacketDocumentRuns \/ PoolRuns
MCSpec == MCInit /\ [][MCNext]_requestsVars

----------------------------------------------------------------------------
(* Types; a mask names members that were read, a document is of a kind     *)
(* that was asked for.                                                     *)
RequestsTypeOK == JsonTypeOK /\ ThrTypeOK /\ DocumentsTypeOK /\ DropDocumentsTypeOK

(* What a decoder hands over is complete and decided, and the document it  *)
(* read is released once, on every path through it.                        *)
RequestsDecoded == ReleasedOnce /\ NeededGiven /\ FieldsDecided

(* The switch has thresholds in its limits, and the cache they are merged  *)
(* from agrees with it until the switch fails.                             *)
ThresholdsInRange == CacheMatchesSwitch /\ SwitchInRange

(* A threshold is set for the object the command names, unicast queue      *)
(* groups excepted, and one that the plug-in programs is reported as it    *)
(* was asked for, with both conversions rounding: 33% of 199 cells is 65   *)
(* cells, which are 32.7%.                                                 *)
ThresholdsAsAsked == ReportedAsAsked /\ ObjectNamed

(* Also when the switch fails a command changes nothing it does not name;  *)
(* when it does not, the application implements ThresholdStore.            *)
ThresholdsUnmixed == UnnamedKept /\ ThresholdsKept

(* The encoders that step back over the last separator leave a document a  *)
(* parser takes, whichever of its lists are empty.                         *)
DocumentsWellFormed == ReportWellFormed /\ DropsWellFormed /\ PacketReportWellFormed

(* The documents tell what the switch counted and what was asked for, and  *)
(* leave out only what their readers can know.                             *)
DocumentsTell == CollectorSees /\ OnlyTheTrigger /\ ToldAsCounted /\ TopIsTop /\ NamedDropsTold /\ ResolutionTold

(* A pool has every slice in one place, and is empty only for as many      *)
(* documents as were left behind.                                          *)
PoolsServe == SlicesAccounted /\ PoolServes
=============================================================================
