------------------------------ MODULE RecordLog ------------------------------
(***************************************************************************)
(* What a JSON record store promises its callers: every operation that     *)
(* changes state takes effect in one step, adds exactly one event to the   *)
(* audit stream and the same event to the log of the record it names, a    *)
(* backup is a picture of one instant, and a restore replaces everything   *)
(* by such a picture.  There are no files, no crashes and no journal here; *)
(* module JsonStore has them and implements this module.                   *)
(***************************************************************************)
EXTENDS Naturals, Sequences, FiniteSets

CONSTANTS Ids,        \* record identifiers
          System,     \* the pseudo record "_system" that backup and restore events name
          NoRecord,   \* an id without a record
          MaxOps,     \* how many operations a behaviour may contain
          BackupIds   \* identifiers of backup directories

Logs   == Ids \cup {System}
Events == [n : 1..MaxOps, log : Logs]     \* operationId and recordId of an event
Rec    == [rev : 0..MaxOps, by : 1..MaxOps]  \* revision and the operation that wrote it

NoBackup == [recs |-> <<>>, logs |-> <<>>, audit |-> <<>>, none |-> TRUE]

VARIABLES recs,   \* [Ids -> Rec or NoRecord]
          logs,   \* [Logs -> sequence of events], the per-record event logs
          audit,  \* the audit stream
          saved   \* [BackupIds -> a picture of recs, logs and audit, or NoBackup]
vars == <<recs, logs, audit, saved>>

Init ==
  /\ recs  = [i \in Ids |-> NoRecord]
  /\ logs  = [l \in Logs |-> <<>>]
  /\ audit = <<>>
  /\ saved = [b \in BackupIds |-> NoBackup]

Note(e) ==
  /\ logs'  = [logs EXCEPT ![e.log] = Append(@, e)]
  /\ audit' = Append(audit, e)

Create(e) ==
  /\ e.log \in Ids /\ recs[e.log] = NoRecord
  /\ recs' = [recs EXCEPT ![e.log] = [rev |-> 0, by |-> e.n]]
  /\ Note(e) /\ UNCHANGED saved

Mutate(e) ==
  /\ e.log \in Ids /\ recs[e.log] # NoRecord
  /\ recs' = [recs EXCEPT ![e.log] = [rev |-> @.rev + 1, by |-> e.n]]
  /\ Note(e) /\ UNCHANGED saved

Delete(e) ==
  /\ e.log \in Ids
  /\ recs' = [recs EXCEPT ![e.log] = NoRecord]
  /\ Note(e) /\ UNCHANGED saved

AppendEvent(e) ==
  /\ Note(e) /\ UNCHANGED <<recs, saved>>

Backup(b) ==
  /\ saved[b] = NoBackup
  /\ saved' = [saved EXCEPT ![b] = [recs |-> recs, logs |-> logs, audit |-> audit, none |-> FALSE]]
  /\ UNCHANGED <<recs, logs, audit>>

Restore(b, e) ==
  /\ ~saved[b].none /\ e.log = System
  /\ recs'  = saved[b].recs
  /\ logs'  = [saved[b].logs EXCEPT ![System] = Append(@, e)]
  /\ audit' = Append(saved[b].audit, e)
  /\ UNCHANGED saved

\* An operation id is a fresh random UUID: no event in the store carries it yet.
Fresh(e) == \A k \in 1..Len(audit) : audit[k].n # e.n

Next ==
  \/ \E e \in Events : Fresh(e) /\ (Create(e) \/ Mutate(e) \/ Delete(e) \/ AppendEvent(e))
  \/ \E b \in BackupIds : Backup(b)
  \/ \E b \in BackupIds, e \in Events : Fresh(e) /\ Restore(b, e)

Spec == Init /\ [][Next]_vars
=============================================================================
