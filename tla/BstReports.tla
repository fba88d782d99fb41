------------------------------- MODULE BstReports -------------------------------
(***************************************************************************)
(* The statistics reports of the BST application.                          *)
(*                                                                         *)
(* The application thread collects a snapshot of the ASIC's counters for   *)
(* every report: for a REST client (get-bst-report), for a trigger, and    *)
(* periodically for the collector.  Three records hold the snapshots.  The *)
(* snapshot goes to the current record; then the records rotate, and the   *)
(* report is encoded from the new active record.  An incremental periodic  *)
(* report has the counters that differ from the backup record, which is    *)
(* the snapshot of the report before, whoever asked for it.                *)
(*                                                                         *)
(* All of it runs on one thread: a request is one step.                    *)
(***************************************************************************)
EXTENDS Naturals

CONSTANTS
  Counters,       \* counters of all realms
  MaxValue,       \* bound on their values
  Disturbances    \* what happens between periodic reports: ReportsAssumption

ASSUME ReportsAssumption ==
  /\ MaxValue \in Nat
  /\ Disturbances \subseteq {"get",      \* a REST client asks for a report
                             "trigger",  \* a counter crosses its threshold
                             "clear",    \* clear-bst-statistics
                             "track",    \* realms are tracked or not
                             "failed",   \* the ASIC does not give a snapshot
                             "lost"}     \* the collector gets no report

Values == 0 .. MaxValue
Snapshot == [Counters -> Values]
Zero == [c \in Counters |-> 0]

Records == 1 .. 3
NoRecord == 0

VARIABLES
  asic,        \* the counters of the ASIC
  memory,      \* the three records
  records,     \* stats_current, _active and _backup_record_ptr
  config,      \* sendIncrementalReport, and the tracked realms
  collector,   \* what the collector knows: the last value it was sent
  arrived,     \* history: the last step was a periodic report that arrived
  undisturbed  \* history: only periodic reports that arrived since a full one

vars == <<asic, memory, records, config, collector, arrived, undisturbed>>

-----------------------------------------------------------------------------
\* The record is cleared first, and the collection stops where it fails.
Collected(ok) ==
  IF ok THEN {asic}
  ELSE {[c \in Counters |-> IF c \in got THEN asic[c] ELSE 0] :
          got \in SUBSET Counters}

Outcomes == {TRUE} \cup (IF "failed" \in Disturbances THEN {FALSE} ELSE {})
Arrivals == {TRUE} \cup (IF "lost" \in Disturbances THEN {FALSE} ELSE {})

RotatedWrongWay == [current |-> records.active, active |-> records.current,
                    backup |-> records.backup]

RotatedTwoOnly == [current |-> records.active, active |-> records.current,
                   backup |-> records.active]

RotatedWithoutTemp == [current |-> NoRecord, active |-> records.current,
                       backup |-> records.active]

\* bst_update_data runs for every report, also when the collection failed.
Rotated == [current |-> records.backup, active |-> records.current,
            backup |-> records.active]

\* bst_copy_reply_params: a complete report is encoded without previous.
Previous == IF config.incremental THEN records'.backup ELSE NoRecord

\* The encoder's rule, after the rotation: previous is a record, or none.
Included(previous, incremental, scope) ==
  LET now == memory'[records'.active]
  IN {c \in scope : IF previous = NoRecord
                      THEN incremental => now[c] # 0
                      ELSE now[c] # memory'[previous][c]}

-----------------------------------------------------------------------------
CounterChanges ==
  /\ \E c \in Counters : \E v \in Values \ {asic[c]} :
       asic' = [asic EXCEPT ![c] = v]
  /\ arrived' = FALSE
  /\ UNCHANGED <<memory, records, config, collector, undisturbed>>

\* configure-bst-feature: async-full-reports
ConfigureFeature ==
  /\ \E full \in BOOLEAN : config' = [incremental |-> ~full,
                                        track |-> config.track]
  /\ arrived' = FALSE
  /\ UNCHANGED <<asic, memory, records, collector, undisturbed>>

ConfigureTracking ==
  /\ "track" \in Disturbances
  /\ \E realms \in SUBSET Counters :
       config' = [incremental |-> config.incremental, track |-> realms]
  /\ arrived' = FALSE
  /\ undisturbed' = FALSE
  /\ UNCHANGED <<asic, memory, records, collector>>

\* sbapi_bst_clear_stats may fail after the records have been cleared.
ClearStats ==
  /\ "clear" \in Disturbances
  /\ memory' = [r \in Records |-> Zero]
  /\ \E ok \in Outcomes : asic' = IF ok THEN Zero ELSE asic
  /\ arrived' = FALSE
  /\ undisturbed' = FALSE
  /\ UNCHANGED <<records, config, collector>>

\* The collector takes what a report contains.
Received(included) ==
  collector' = [c \in Counters |-> IF c \in included
                                     THEN memory'[records'.active][c]
                                     ELSE collector[c]]

PeriodicReport ==
  \E ok \in Outcomes, received \in Arrivals : \E now \in Collected(ok) :
    /\ memory' = [memory EXCEPT ![records.current] = now]
    /\ records' = Rotated
    /\ IF ok /\ received
         THEN Received(Included(Previous, config.incremental, config.track))
         ELSE UNCHANGED collector
    /\ arrived' = (ok /\ received)
    /\ undisturbed' = (arrived' /\ (config.incremental => undisturbed))
    /\ UNCHANGED <<asic, config>>

\* The result of the collection is lost: the one that counts is that of
\* bst_enable_on_trigger.
TriggerReport ==
  /\ "trigger" \in Disturbances
  /\ \E ok \in Outcomes, enabled \in Outcomes, received \in Arrivals,
        trigger \in Counters, sendSnapshotOnTrigger \in BOOLEAN :
     \E now \in Collected(ok) :
       LET scope == IF sendSnapshotOnTrigger THEN config.track ELSE {trigger}
       IN /\ memory' = [memory EXCEPT ![records.current] = now]
          /\ records' = Rotated
          /\ IF enabled /\ received
               THEN Received(Included(NoRecord, TRUE, scope))
               ELSE UNCHANGED collector
  /\ arrived' = FALSE
  /\ undisturbed' = FALSE
  /\ UNCHANGED <<asic, config>>

\* The report goes to the REST client, not to the collector.
GetReport ==
  /\ "get" \in Disturbances
  /\ \E ok \in Outcomes : \E now \in Collected(ok) :
       memory' = [memory EXCEPT ![records.current] = now]
  /\ records' = Rotated
  /\ arrived' = FALSE
  /\ undisturbed' = FALSE
  /\ UNCHANGED <<asic, config, collector>>

-----------------------------------------------------------------------------
\* The collector knows nothing, and the records are clear.
Init ==
  /\ asic = Zero
  /\ memory = [r \in Records |-> Zero]
  /\ records = [current |-> 1, active |-> 2, backup |-> 3]
  /\ config = [incremental |-> TRUE, track |-> Counters]
  /\ collector = Zero
  /\ arrived = FALSE
  /\ undisturbed = TRUE

Next == \/ CounterChanges
        \/ ConfigureFeature \/ ConfigureTracking \/ ClearStats
        \/ PeriodicReport \/ TriggerReport \/ GetReport

Spec == Init /\ [][Next]_vars

-----------------------------------------------------------------------------
(* Properties.                                                              *)

TypeOK ==
  /\ asic \in Snapshot
  /\ memory \in [Records -> Snapshot]
  /\ records \in [current : Records, active : Records, backup : Records]
  /\ config \in [incremental : BOOLEAN, track : SUBSET Counters]
  /\ collector \in Snapshot
  /\ arrived \in BOOLEAN
  /\ undisturbed \in BOOLEAN

(***************************************************************************)
(* The three pointers never share a record: a collection overwrites        *)
(* neither the report that is encoded nor the one it is compared with.     *)
(***************************************************************************)
RecordsDistinct ==
  /\ records.current # records.active
  /\ records.current # records.backup
  /\ records.active # records.backup

(***************************************************************************)
(* Whoever applies the periodic reports one after the other knows every    *)
(* tracked counter as the last report found it: a complete report brings   *)
(* the collector up to date whatever went before, and the incremental      *)
(* reports keep it so until another report rotates the records, they are   *)
(* cleared, other realms are tracked, a collection fails or a report is    *)
(* lost.                                                                   *)
(***************************************************************************)
InStep == \A c \in config.track : collector[c] = asic[c]

PeriodicInSync == arrived /\ undisturbed => InStep

=============================================================================
