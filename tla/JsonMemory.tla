------------------------------ MODULE JsonMemory ------------------------------
(***************************************************************************)
(* The pools that documents are written in.  Each application has its own  *)
(* pool and only its thread takes slices from it; an encoder that gives up *)
(* half-way leaves the slice it took in use for good.                      *)
(***************************************************************************)
EXTENDS Integers, FiniteSets

CONSTANTS SmallSlices,   \* bound: slices for responses, _BUFPOOL_MAX_RESPONE_SLICES
          LargeSlices,   \* bound: slices for reports, _BUFPOOL_MAX_REPORT_SLICES
          MaxDocuments   \* bound: documents asked for

ASSUME JsonMemoryAssumption ==
  SmallSlices \in Nat \ {0} /\ LargeSlices \in Nat \ {0} /\ MaxDocuments \in Nat

VARIABLES pool,          \* whose pool is followed
          slices,        \* size -> slice -> in use
          held,          \* the slice a document is being written in, or Nothing
          lost,          \* slices encoders left behind
          documents,     \* documents asked for so far
          denied         \* the last document found no slice

poolVars == <<pool, slices, held, lost, documents, denied>>

Pools == {"bst", "pt", "bhd", "system"}
Nothing == <<"none", 0>>
Slices(size) == 1..(IF size = "response" THEN SmallSlices ELSE LargeSlices)

(* Black hole detection and the agent write all their documents in slices  *)
(* for responses.                                                          *)
Sizes == IF pool \in {"bst", "pt"} THEN {"response", "report"} ELSE {"response"}

BstMemoryInit == [size \in {"response", "report"} |-> [s \in Slices(size) |-> FALSE]]
PtMemoryInit == BstMemoryInit
BhdMemoryInit == BstMemoryInit
SystemMemoryInit == [size \in {"response"} |-> [s \in Slices(size) |-> FALSE]]

PoolInit ==
  /\ pool \in Pools
  /\ slices = CASE pool = "bst" -> BstMemoryInit [] pool = "pt" -> PtMemoryInit
                [] pool = "bhd" -> BhdMemoryInit [] pool = "system" -> SystemMemoryInit
  /\ held = Nothing /\ lost = {} /\ documents = 0 /\ denied = FALSE

(***************************************************************************)
(* Every pool looks for the first slice of the size that is not in use.    *)
(***************************************************************************)
Free(size) == {s \in DOMAIN slices[size] : ~slices[size][s]}

FirstFree(size, s) == s \in Free(size) /\ \A t \in Free(size) : s <= t

Allocate(size) ==
  \/ \E s \in DOMAIN slices[size] :
       /\ FirstFree(size, s)
       /\ slices' = [slices EXCEPT ![size][s] = TRUE]
       /\ held' = <<size, s>> /\ denied' = FALSE
  \/ /\ ~\E s \in DOMAIN slices[size] : FirstFree(size, s)
     /\ denied' = TRUE /\ UNCHANGED <<slices, held>>

BstAllocate(size) == pool = "bst" /\ Allocate(size)
PtAllocate(size) == pool = "pt" /\ Allocate(size)
BhdAllocate(size) == pool = "bhd" /\ Allocate(size)
SystemAllocate(size) == pool = "system" /\ Allocate(size)

Encode ==
  /\ held = Nothing /\ documents < MaxDocuments
  /\ documents' = documents + 1
  /\ \E size \in Sizes : BstAllocate(size) \/ PtAllocate(size) \/ BhdAllocate(size) \/ SystemAllocate(size)
  /\ UNCHANGED <<pool, lost>>

(* A port, realm or unit without a notation ends the encoder before it has *)
(* handed the slice to its caller.                                         *)
GivesUp ==
  /\ held # Nothing
  /\ held' = Nothing /\ lost' = lost \cup {held}
  /\ UNCHANGED <<pool, slices, documents, denied>>

(***************************************************************************)
(* Every sender frees the slice once the answer is sent, or refused to be. *)
(***************************************************************************)
(* A bug to tell apart: the slice stays in use. *)
FreeNothing(slice) == slices' = slices

FreeSlice(slice) == slices' = [slices EXCEPT ![slice[1]][slice[2]] = FALSE]

BstFree(slice) == pool = "bst" /\ FreeSlice(slice)
PtFree(slice) == pool = "pt" /\ FreeSlice(slice)
BhdFree(slice) == pool = "bhd" /\ FreeSlice(slice)
SystemFree(slice) == pool = "system" /\ FreeSlice(slice)

Answered ==
  /\ held # Nothing
  /\ BstFree(held) \/ PtFree(held) \/ BhdFree(held) \/ SystemFree(held)
  /\ held' = Nothing
  /\ UNCHANGED <<pool, lost, documents, denied>>

PoolDone == held = Nothing /\ documents = MaxDocuments /\ UNCHANGED poolVars

PoolNext == Encode \/ GivesUp \/ Answered \/ PoolDone
PoolSpec == PoolInit /\ [][PoolNext]_poolVars

(***************************************************************************)
(* Properties.                                                             *)
(***************************************************************************)
(* Every slice in use is the one a document is written in or one an        *)
(* encoder left behind, and the document has its slice for itself.         *)
SlicesAccounted ==
  LET inUse == UNION {{<<size, s>> : s \in DOMAIN slices[size] \ Free(size)} : size \in DOMAIN slices}
  IN  /\ inUse = lost \cup ({held} \ {Nothing})
      /\ held \notin lost

(* A document finds no slice only when encoders have given up as often as  *)
(* there are slices of its size: answering costs none.                     *)
PoolServes ==
  denied => \E size \in Sizes : Cardinality({l \in lost : l[1] = size}) = Cardinality(DOMAIN slices[size])
===============================================================================
