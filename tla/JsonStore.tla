------------------------------ MODULE JsonStore ------------------------------
(***************************************************************************)
(* The durable JSON record store: durable-store.ts over the write-ahead    *)
(* journal of json-journal.ts and the directory swap of json-restore.ts.   *)
(*                                                                         *)
(* One process serves one request at a time (every file call is            *)
(* synchronous), so the hazards are not interleavings but stops: the       *)
(* process may die, or a file call may throw, between any two file         *)
(* operations and in the middle of an append.  An action is one durable    *)
(* file operation; Crash and Fault may follow any of them.                 *)
(*                                                                         *)
(* writePrivateFileAtomic, removeRegularFile and moveManagedDirectory take *)
(* effect with one rename, so each is one step (ManagedFiles has their     *)
(* calls).  removeManagedDirectory is two, a rename and the deletion, and  *)
(* a failure between them leaves the copies under another name.            *)
(* appendPrivateFile is not atomic: a line reaches the disk in two pieces, *)
(* and a stop between them leaves a torn line.  Lengths count pieces.      *)
(***************************************************************************)
EXTENDS Integers, Sequences, FiniteSets

CONSTANTS Ids, System, NoRecord, MaxOps, BackupIds,
          Gone,       \* a managed directory that does not exist
          Keep,       \* JsonMutation.nextRecord is undefined: no record file changes
          None,       \* no pending journal, no marker, no torn line, no request
          MaxStops    \* bound on the crashes and faults of a behaviour

Logs   == Ids \cup {System}
Events == [n : 1..MaxOps, log : Logs]
Rec    == [rev : Nat, by : Nat]      \* revision, and the operation that wrote it

\* The content of records/, events/ and audit/.
Log        == [lines : Seq(Events), torn : Events \cup {None}]
RecordsDir == [Ids -> Rec \cup {NoRecord}]
EventsDir  == [Logs -> Log]
Areas      == <<"records", "events", "audit">>
AreaNames  == {"records", "events", "audit"}
EmptyLog   == [lines |-> <<>>, torn |-> None]
NoDirs     == [a \in AreaNames |-> Gone]

\* counters.json, pending.json, restore.json, and the directories they describe.
Counts  == [records : Int, events : Int]
Dirs    == [records : RecordsDir \cup {Gone}, events : EventsDir \cup {Gone}, audit : Log \cup {Gone}]
Entries == [event : Events, record : Rec \cup {NoRecord, Keep}, counters : Counts,
            eventLogLength : Nat, auditLogLength : Nat]
Markers == [event : Events, counters : Counts]
Copies  == [records : RecordsDir \cup {Gone}, events : EventsDir \cup {Gone}, audit : Log \cup {Gone},
            manifest : (SUBSET Ids) \cup {None}]

\* The constants that stand for the absence of something are no such thing.
ASSUME SentinelsDiffer ==
  /\ System \notin Ids
  /\ NoRecord \notin Rec /\ Keep \notin Rec /\ NoRecord # Keep
  /\ Gone \notin RecordsDir /\ Gone \notin EventsDir /\ Gone \notin Log
  /\ None \notin Events /\ None \notin Entries /\ None \notin Markers
  /\ \A ids \in SUBSET Ids : ids # None
ASSUME IdsFinite == IsFiniteSet(Ids)
ASSUME BoundsAreNaturals == MaxOps \in Nat /\ MaxStops \in Nat

VARIABLES
  live,      \* root/records, root/events, root/audit
  next,      \* journal/restore-<uuid>/next-*
  previous,  \* journal/restore-<uuid>/previous-*
  staged,    \* does journal/restore-<uuid>/ exist?
  leftovers, \* how many directories in journal/ wait for their deletion: a stage that
             \* was renamed to .restore-<uuid>.<pid>.<hex>.removing, or one given up
  pending,   \* journal/pending.json
  marker,    \* journal/restore.json
  counters,  \* journal/counters.json
  backups,   \* backups/<id>/, with or without its manifest
  pc,        \* next file operation of the process
  then,      \* where the process goes when the journal entry in hand is applied
  serving,   \* event of the request being answered, None while recovering
  boot,      \* is the process still in its constructor?
  area,      \* position of installStagedDirectories in Areas
  nextOp,    \* operation ids handed out so far (randomUUID)
  acked,     \* events whose request was answered with success
  lapses,    \* calls that failed since the process started while they made or removed a stage
  stops      \* crashes and faults so far

disk == <<live, next, previous, staged, leftovers, pending, marker, counters, backups>>
vars == <<live, next, previous, staged, leftovers, pending, marker, counters, backups,
          pc, then, serving, area, boot, nextOp, acked, lapses, stops>>

NoBackup == [records |-> Gone, events |-> Gone, audit |-> Gone, manifest |-> None]

Present(records) == {i \in Ids : records[i] # NoRecord}

-----------------------------------------------------------------------------
(* The journal's log arithmetic                                             *)

Pieces == 2     \* pieces of one line

Size(log) == Pieces * Len(log.lines) + (IF log.torn = None THEN 0 ELSE 1)

EndsWith(log, e) == /\ log.torn = None
                    /\ log.lines # <<>>
                    /\ log.lines[Len(log.lines)] = e

\* ensureEvent: append what is missing of e's line, nothing when the log already
\* ends with it.  `before` is the length the intent recorded; any other length,
\* or a torn line of another event, makes the code throw (see Fault).
Applicable(log, before, e) ==
  \/ EndsWith(log, e)
  \/ Size(log) = before
  \/ Size(log) = before + 1 /\ log.torn = e

\* The next piece: the first of a line leaves it torn, the second completes it.
Extended(log, e) ==
  IF log.torn = e THEN [lines |-> Append(log.lines, e), torn |-> None]
                  ELSE [log EXCEPT !.torn = e]

-----------------------------------------------------------------------------
(* The process                                                              *)

Init ==
  /\ live = [records |-> [i \in Ids |-> NoRecord],
             events  |-> [l \in Logs |-> EmptyLog],
             audit   |-> EmptyLog]
  /\ next = NoDirs /\ previous = NoDirs /\ staged = FALSE
  /\ pending = None /\ marker = None
  /\ counters = [records |-> 0, events |-> 0]
  /\ backups = [b \in BackupIds |-> NoBackup]
  /\ pc = "idle" /\ then = "reply" /\ serving = None /\ area = 1
  /\ boot = FALSE
  /\ leftovers = 0 /\ nextOp = 0 /\ acked = {} /\ lapses = 0 /\ stops = 0

Goto(place) == pc' = place

\* A request, or a restarted process, runs ensureReady before anything else.
EnsureReady ==
  /\ pc = "idle"
  /\ Goto("restoring") /\ UNCHANGED <<disk, then, serving, area, boot, nextOp, acked, lapses, stops>>

Start ==
  /\ pc = "down" /\ boot' = TRUE
  /\ Goto("restoring") /\ UNCHANGED <<disk, then, serving, area, nextOp, acked, lapses, stops>>

\* ensureManagedLayout creates an area that does not exist, after recoverJsonRestore.
Layout(dirs) ==
  [records |-> IF dirs.records = Gone THEN [i \in Ids |-> NoRecord] ELSE dirs.records,
   events  |-> IF dirs.events = Gone THEN [l \in Logs |-> EmptyLog] ELSE dirs.events,
   audit   |-> IF dirs.audit = Gone THEN EmptyLog ELSE dirs.audit]

\* Mutant: the missing areas are created before the interrupted restore is resumed.
RecoverRestore_LayoutFirst ==
  /\ pc = "restoring"
  /\ area' = 1 /\ live' = Layout(live)
  /\ IF marker = None THEN Goto("recovering") ELSE Goto(IF staged THEN "install" ELSE "leftover")
  /\ UNCHANGED <<next, previous, staged, leftovers, pending, marker, counters, backups,
                 then, serving, boot, nextOp, acked, lapses, stops>>

\* Mutant: only a starting process looks for an interrupted restore.
RecoverRestore_StartOnly ==
  /\ pc = "restoring"
  /\ area' = 1 /\ live' = Layout(live)
  /\ IF marker = None \/ ~boot THEN Goto("recovering") ELSE Goto(IF staged THEN "install" ELSE "leftover")
  /\ UNCHANGED <<next, previous, staged, leftovers, pending, marker, counters, backups,
                 then, serving, boot, nextOp, acked, lapses, stops>>

\* recoverJsonRestore: with a marker, install whatever the stage still holds and
\* commit the restore's own event; without one, go on to the journal.
RecoverRestore ==
  /\ pc = "restoring"
  /\ area' = 1
  /\ IF marker = None THEN live' = Layout(live) /\ Goto("recovering")
                      ELSE UNCHANGED live /\ Goto(IF staged THEN "install" ELSE "leftover")
  /\ UNCHANGED <<next, previous, staged, leftovers, pending, marker, counters, backups,
                 then, serving, boot, nextOp, acked, lapses, stops>>

\* Mutant: only a starting process applies a leftover entry.
RecoverPending_StartOnly ==
  /\ pc = "recovering"
  /\ IF pending # None /\ boot THEN Goto("record") /\ then' = "recovering"
                               ELSE Goto(IF boot THEN "clean" ELSE "ready") /\ UNCHANGED then
  /\ UNCHANGED <<disk, serving, area, boot, nextOp, acked, lapses, stops>>

\* recoverJsonMutation: an entry left by a stopped operation is applied first.
RecoverPending ==
  /\ pc = "recovering"
  /\ IF pending # None THEN Goto("record") /\ then' = "recovering"
                       ELSE Goto(IF boot THEN "clean" ELSE "ready") /\ UNCHANGED then
  /\ UNCHANGED <<disk, serving, area, boot, nextOp, acked, lapses, stops>>

\* removeManagedDirectory first renames the stage to a private name; what is left to
\* delete then is a directory that no marker and no restore names.
SetAside ==
  /\ staged' = FALSE /\ next' = NoDirs /\ previous' = NoDirs
  /\ leftovers' = leftovers + 1

\* Mutant: stages are looked for under their own name only.
CleanTemporaries_OwnNames ==
  /\ pc = "clean"
  /\ staged' = FALSE /\ next' = NoDirs /\ previous' = NoDirs
  /\ boot' = FALSE /\ Goto("idle")
  /\ UNCHANGED <<live, leftovers, pending, marker, counters, backups,
                 then, serving, area, nextOp, acked, lapses, stops>>

\* cleanJsonTemporaries ends the constructor: every stage goes, under its own name or
\* under one that a removal gave it (originalName).
CleanTemporaries ==
  /\ pc = "clean"
  /\ \/ staged /\ SetAside /\ UNCHANGED <<pc, boot>>
     \/ /\ ~staged /\ leftovers > 0
        /\ leftovers' = leftovers - 1
        /\ UNCHANGED <<next, previous, staged, pc, boot>>
     \/ /\ ~staged /\ leftovers = 0
        /\ boot' = FALSE /\ Goto("idle")
        /\ UNCHANGED <<next, previous, staged, leftovers>>
  /\ UNCHANGED <<live, pending, marker, counters, backups, then, serving, area, nextOp, acked, lapses, stops>>

-----------------------------------------------------------------------------
(* applyMutation, one file operation at a time                              *)

ApplyRecord ==
  /\ pc = "record"
  /\ IF pending.record = Keep THEN UNCHANGED live
     ELSE live' = [live EXCEPT !.records[pending.event.log] = pending.record]
  /\ Goto("event")
  /\ UNCHANGED <<next, previous, staged, leftovers, pending, marker, counters, backups,
                 then, serving, area, boot, nextOp, acked, lapses, stops>>

\* ensureEvent on the log of the record, then on the audit stream.  A line takes
\* two steps; the second one, or a log that already ends with it, moves on.
ApplyEvent ==
  /\ pc = "event"
  /\ LET e == pending.event
         log == live.events[e.log]
     IN  /\ Applicable(log, pending.eventLogLength, e)
         /\ IF EndsWith(log, e) THEN Goto("audit") /\ UNCHANGED live
            ELSE UNCHANGED pc /\ live' = [live EXCEPT !.events[e.log] = Extended(log, e)]
  /\ UNCHANGED <<next, previous, staged, leftovers, pending, marker, counters, backups,
                 then, serving, area, boot, nextOp, acked, lapses, stops>>

ApplyAudit ==
  /\ pc = "audit"
  /\ LET e == pending.event
     IN  /\ Applicable(live.audit, pending.auditLogLength, e)
         /\ IF EndsWith(live.audit, e) THEN Goto("counters") /\ UNCHANGED live
            ELSE UNCHANGED pc /\ live' = [live EXCEPT !.audit = Extended(live.audit, e)]
  /\ UNCHANGED <<next, previous, staged, leftovers, pending, marker, counters, backups,
                 then, serving, area, boot, nextOp, acked, lapses, stops>>

ApplyCounters ==
  /\ pc = "counters"
  /\ counters' = pending.counters
  /\ Goto("clear")
  /\ UNCHANGED <<live, next, previous, staged, leftovers, pending, marker, backups,
                 then, serving, area, boot, nextOp, acked, lapses, stops>>

ClearPending ==
  /\ pc = "clear"
  /\ pending' = None
  /\ Goto(then)
  /\ UNCHANGED <<live, next, previous, staged, leftovers, marker, counters, backups,
                 then, serving, area, boot, nextOp, acked, lapses, stops>>

\* The request is answered with success.
Reply ==
  /\ pc = "reply"
  /\ acked' = IF serving = None THEN acked ELSE acked \cup {serving}
  /\ serving' = None
  /\ Goto("idle")
  /\ UNCHANGED <<disk, then, area, boot, nextOp, lapses, stops>>

-----------------------------------------------------------------------------
(* Requests                                                                 *)

\* Mutant: the entry records how many lines the logs have, not their length.
Intent_CountsLines(e, record, cs) ==
  [event |-> e, record |-> record, counters |-> cs,
   eventLogLength |-> Len(live.events[e.log].lines), auditLogLength |-> Len(live.audit.lines)]

\* commitJsonMutation: publish the intent, then apply it.  next' and the other
\* directories are untouched; e carries a fresh operation id.
Intent(e, record, cs) ==
  [event |-> e, record |-> record, counters |-> cs,
   eventLogLength |-> Size(live.events[e.log]), auditLogLength |-> Size(live.audit)]

Commit(log, record, recordDelta) ==
  LET e == [n |-> nextOp + 1, log |-> log]
  IN  /\ nextOp < MaxOps
      /\ nextOp' = nextOp + 1
      /\ pending' = Intent(e, record, [records |-> recordDelta, events |-> counters.events + 1])
      /\ serving' = e
      /\ Goto("record") /\ then' = "reply"
      /\ UNCHANGED <<live, next, previous, staged, leftovers, marker, counters, backups, area, boot, acked, lapses, stops>>

Create(i) ==
  /\ pc = "ready" /\ live.records[i] = NoRecord
  /\ Commit(i, [rev |-> 0, by |-> nextOp + 1], counters.records + 1)

\* The transition sees the latest record; the stored revision is one higher.
Mutate(i) ==
  /\ pc = "ready" /\ live.records[i] # NoRecord
  /\ Commit(i, [rev |-> live.records[i].rev + 1, by |-> nextOp + 1], counters.records)

\* Mutant: the record count drops even when there was no record.
Delete_AlwaysCounts(i) ==
  /\ pc = "ready"
  /\ Commit(i, NoRecord, counters.records - 1)

\* delete journals an event even when there is no record to remove.
Delete(i) ==
  /\ pc = "ready"
  /\ Commit(i, NoRecord,
            IF live.records[i] = NoRecord THEN counters.records ELSE counters.records - 1)

AppendEvent(log) ==
  /\ pc = "ready"
  /\ Commit(log, Keep, counters.records)

\* Reads, and requests refused before anything is written (a duplicate id, an
\* unknown id, a stale revision, a backup without a manifest).
ReadOrRefuse ==
  /\ pc = "ready" /\ Goto("idle")
  /\ UNCHANGED <<disk, then, serving, area, boot, nextOp, acked, lapses, stops>>

-----------------------------------------------------------------------------
(* backup: copy the three areas into a fresh directory, then the manifest,  *)
(* then an event of its own                                                 *)

\* Mutant: the manifest is written first.
CopyRecords_ManifestFirst(b) ==
  /\ pc = "ready" /\ backups[b] = NoBackup /\ nextOp < MaxOps
  /\ backups' = [backups EXCEPT ![b].records = live.records, ![b].manifest = Present(live.records)]
  /\ Goto("copyEvents") /\ serving' = b
  /\ UNCHANGED <<live, next, previous, staged, leftovers, pending, marker, counters, then, area, boot, nextOp, acked, lapses, stops>>

CopyRecords(b) ==
  /\ pc = "ready" /\ backups[b] = NoBackup /\ nextOp < MaxOps
  /\ backups' = [backups EXCEPT ![b].records = live.records]
  /\ Goto("copyEvents") /\ serving' = b
  /\ UNCHANGED <<live, next, previous, staged, leftovers, pending, marker, counters, then, area, boot, nextOp, acked, lapses, stops>>

CopyEvents ==
  /\ pc = "copyEvents"
  /\ backups' = [backups EXCEPT ![serving].events = live.events]
  /\ Goto("copyAudit")
  /\ UNCHANGED <<live, next, previous, staged, leftovers, pending, marker, counters, then, serving, area, boot, nextOp, acked, lapses, stops>>

CopyAudit ==
  /\ pc = "copyAudit"
  /\ backups' = [backups EXCEPT ![serving].audit = live.audit]
  /\ Goto("manifest")
  /\ UNCHANGED <<live, next, previous, staged, leftovers, pending, marker, counters, then, serving, area, boot, nextOp, acked, lapses, stops>>

WriteManifest ==
  /\ pc = "manifest"
  /\ backups' = [backups EXCEPT ![serving].manifest = Present(live.records)]
  /\ Goto("noteBackup")
  /\ UNCHANGED <<live, next, previous, staged, leftovers, pending, marker, counters, then, serving, area, boot, nextOp, acked, lapses, stops>>

\* Mutant: a backup that leaves no event.
NoteBackup_Silent ==
  /\ pc = "noteBackup"
  /\ Goto("reply")
  /\ UNCHANGED <<disk, then, serving, area, boot, nextOp, acked, lapses, stops>>

\* append("_system", "backup", ...); its ensureReady finds nothing to recover.
NoteBackup ==
  /\ pc = "noteBackup"
  /\ Commit(System, Keep, counters.records)

-----------------------------------------------------------------------------
(* restore: validate into a stage, publish a marker, swap, commit an event  *)

\* assertEventAgreement: the two copies hold the same lines equally often.
Occurrences(log, e) == Cardinality({k \in 1..Len(log.lines) : log.lines[k] = e})

EventsAgree(events, audit) ==
  \A e \in Events : Occurrences(events[e.log], e) = Occurrences(audit, e)

Restorable(b) ==
  /\ backups[b].manifest # None
  /\ Present(backups[b].records) = backups[b].manifest
  /\ EventsAgree(backups[b].events, backups[b].audit)

\* The stage and its three areas are made (ensureDir, before the try) ...
StageRestore(b) ==
  /\ pc = "ready" /\ Restorable(b)
  /\ nextOp < MaxOps
  /\ staged' = TRUE
  /\ serving' = b
  /\ Goto("stage")
  /\ UNCHANGED <<live, next, previous, leftovers, pending, marker, counters, backups,
                 then, area, boot, nextOp, acked, lapses, stops>>

\* ... and filled with the checked copies of the backup.
FillStage ==
  /\ pc = "stage"
  /\ next' = [records |-> backups[serving].records, events |-> backups[serving].events,
              audit |-> backups[serving].audit]
  /\ Goto("mark")
  /\ UNCHANGED <<live, previous, staged, leftovers, pending, marker, counters, backups,
                 then, serving, area, boot, nextOp, acked, lapses, stops>>

WriteMarker ==
  /\ pc = "mark"
  /\ nextOp' = nextOp + 1
  /\ marker' = [event    |-> [n |-> nextOp + 1, log |-> System],
                counters |-> [records |-> Cardinality(Present(next.records)),
                              events  |-> Len(next.audit.lines) + 1]]
  /\ serving' = marker'.event
  /\ acked' = {e \in acked : \E k \in 1..Len(next.audit.lines) : next.audit.lines[k] = e}
  /\ area' = 1
  /\ Goto("install")
  /\ UNCHANGED <<live, next, previous, staged, leftovers, pending, counters, backups, then, boot, lapses, stops>>

\* installStagedDirectories: move live out, move next in, area by area.
MoveOut ==
  /\ pc = "install" /\ area <= 3
  /\ LET a == Areas[area]
     IN  /\ next[a] # Gone /\ live[a] # Gone /\ previous[a] = Gone
         /\ previous' = [previous EXCEPT ![a] = live[a]]
         /\ live' = [live EXCEPT ![a] = Gone]
  /\ UNCHANGED <<next, staged, leftovers, pending, marker, counters, backups, pc, then, serving, area, boot, nextOp, acked, lapses, stops>>

MoveIn ==
  /\ pc = "install" /\ area <= 3
  /\ LET a == Areas[area]
     IN  /\ next[a] # Gone /\ live[a] = Gone
         /\ live' = [live EXCEPT ![a] = next[a]]
         /\ next' = [next EXCEPT ![a] = Gone]
  /\ UNCHANGED <<previous, staged, leftovers, pending, marker, counters, backups, pc, then, serving, area, boot, nextOp, acked, lapses, stops>>

InstallNext ==
  /\ pc = "install"
  /\ \/ /\ area <= 3
        /\ LET a == Areas[area]
           IN  live[a] # Gone /\ (next[a] = Gone \/ previous[a] # Gone)
        /\ area' = area + 1 /\ UNCHANGED pc
     \/ /\ area > 3
        /\ Goto("leftover") /\ UNCHANGED area
  /\ UNCHANGED <<disk, then, serving, boot, nextOp, acked, lapses, stops>>

\* Mutant: the event gets a new operation id at every attempt, not the marker's.
CommitRestore_NewId ==
  /\ pc = "leftover" /\ nextOp < MaxOps
  /\ IF pending # None
       THEN then' = "leftover" /\ UNCHANGED <<pending, nextOp>>
       ELSE /\ then' = "unstage" /\ nextOp' = nextOp + 1
            /\ pending' = Intent([n |-> nextOp + 1, log |-> System], Keep, marker.counters)
  /\ Goto("record")
  /\ UNCHANGED <<live, next, previous, staged, leftovers, marker, counters, backups, serving, area, boot, acked, lapses, stops>>

\* commitJsonMutation inside recoverJsonRestore: finish an entry left by an
\* earlier attempt, then journal the restore's event under the marker's id.
CommitRestore ==
  /\ pc = "leftover"
  /\ IF pending # None
       THEN then' = "leftover" /\ UNCHANGED pending
       ELSE /\ then' = "unstage"
            /\ pending' = Intent(marker.event, Keep, marker.counters)
  /\ Goto("record")
  /\ UNCHANGED <<live, next, previous, staged, leftovers, marker, counters, backups, serving, area, boot, nextOp, acked, lapses, stops>>

\* removeManagedDirectory, when there is a stage: the rename, then the deletion.  A
\* removal without a marker is that of a restore which failed (AbandonStage).
RemoveStage ==
  /\ pc = "unstage"
  /\ IF staged THEN SetAside /\ Goto("purge")
               ELSE UNCHANGED <<next, previous, staged, leftovers>> /\ Goto("unmark")
  /\ UNCHANGED <<live, pending, marker, counters, backups, then, serving, area, boot, nextOp, acked, lapses, stops>>

PurgeStage ==
  /\ pc = "purge"
  /\ leftovers' = leftovers - 1
  /\ Goto(IF marker = None THEN "idle" ELSE "unmark")
  /\ UNCHANGED <<live, next, previous, staged, pending, marker, counters, backups,
                 then, serving, area, boot, nextOp, acked, lapses, stops>>

\* The catch of restoreJsonBackup: without a marker it removes its stage and throws on.
AbandonStage ==
  /\ pc = "abort"
  /\ SetAside
  /\ Goto("purge")
  /\ UNCHANGED <<live, pending, marker, counters, backups, then, serving, area, boot, nextOp, acked, lapses, stops>>

RemoveMarker ==
  /\ pc = "unmark"
  /\ marker' = None
  /\ IF serving = None THEN Goto("recovering") ELSE Goto("reply")
  /\ UNCHANGED <<live, next, previous, staged, leftovers, pending, counters, backups, then, serving, area, boot, nextOp, acked, lapses, stops>>

-----------------------------------------------------------------------------
(* Stops                                                                    *)

\* The process dies: everything on disk stays as it is.
Crash ==
  /\ pc # "down" /\ stops < MaxStops
  /\ Goto("down") /\ serving' = None /\ boot' = FALSE
  /\ lapses' = 0 /\ stops' = stops + 1
  /\ UNCHANGED <<disk, then, area, nextOp, acked>>

\* A file call throws: the request fails and the process lives on (a throw out of the
\* constructor ends it).  A call after ensureDir and before the marker is published is
\* caught (AbandonStage).  One of ensureDir is not, and one of a removal has nobody to
\* repeat it before the next start: the stage stays, or what was renamed.
Fault ==
  /\ pc \notin {"down", "idle"} /\ stops < MaxStops
  /\ Goto(IF boot THEN "down" ELSE IF pc = "mark" THEN "abort" ELSE "idle")
  /\ serving' = None /\ boot' = FALSE
  /\ stops' = stops + 1
  /\ IF pc \in {"stage", "abort"} THEN SetAside ELSE UNCHANGED <<next, previous, staged, leftovers>>
  /\ lapses' = IF boot THEN 0 ELSE IF pc \in {"stage", "abort", "purge"} THEN lapses + 1 ELSE lapses
  /\ UNCHANGED <<live, pending, marker, counters, backups, then, area, nextOp, acked>>

Recover == RecoverRestore \/ RecoverPending \/ CleanTemporaries
Apply   == ApplyRecord \/ ApplyEvent \/ ApplyAudit \/ ApplyCounters \/ ClearPending
Request ==
  \/ \E i \in Ids : Create(i) \/ Mutate(i) \/ Delete(i)
  \/ \E l \in Logs : AppendEvent(l)
  \/ \E b \in BackupIds : CopyRecords(b) \/ StageRestore(b)
  \/ ReadOrRefuse
BackupStep  == CopyEvents \/ CopyAudit \/ WriteManifest \/ NoteBackup
RestoreStep ==
  \/ FillStage \/ WriteMarker \/ MoveOut \/ MoveIn \/ InstallNext \/ CommitRestore
  \/ RemoveStage \/ PurgeStage \/ RemoveMarker \/ AbandonStage

Next ==
  \/ EnsureReady \/ Start \/ Recover \/ Apply \/ Reply
  \/ Request \/ BackupStep \/ RestoreStep
  \/ Crash \/ Fault

Spec == Init /\ [][Next]_vars
-----------------------------------------------------------------------------
(* What the store promises                                                  *)

\* The event the disk still owes to the logs: the journal's, else the marker's.
Owed == IF pending # None THEN pending.event
        ELSE IF marker # None THEN marker.event ELSE None

\* The content an area has once the interrupted restore, if any, is installed.
Settled(a) == IF marker # None /\ next[a] # Gone THEN next[a] ELSE live[a]

LinesWith(log, e) ==
  IF e = None \/ EndsWith(log, e) THEN log.lines ELSE Append(log.lines, e)

EffectiveRecords ==
  IF pending = None \/ pending.record = Keep THEN Settled("records")
  ELSE [Settled("records") EXCEPT ![pending.event.log] = pending.record]
EffectiveLogs ==
  [l \in Logs |-> LinesWith(Settled("events")[l], IF Owed # None /\ Owed.log = l THEN Owed ELSE None)]
EffectiveAudit == LinesWith(Settled("audit"), Owed)
ListedBackups ==
  [b \in BackupIds |->
     IF backups[b].manifest = None
     THEN [recs |-> <<>>, logs |-> <<>>, audit |-> <<>>, none |-> TRUE]
     ELSE [recs |-> backups[b].records, logs |-> [l \in Logs |-> backups[b].events[l].lines],
           audit |-> backups[b].audit.lines, none |-> FALSE]]

Promise == INSTANCE RecordLog
             WITH recs <- EffectiveRecords, logs <- EffectiveLogs,
                  audit <- EffectiveAudit, saved <- ListedBackups

\* Every operation takes effect as a whole or not at all, and once: the store,
\* read as what is on disk plus what the journal and the restore marker still owe,
\* behaves like RecordLog whatever stops and recoveries happen between two file
\* operations.  The instant of effect is the publication of pending.json, of
\* restore.json or of a backup's manifest.
ImplementsRecordLog == Promise!Spec

ApplyPlaces == {"record", "event", "audit", "counters", "clear"}
ServePlaces == {"ready", "copyEvents", "copyAudit", "manifest", "noteBackup", "stage", "mark"}
Places == {"down", "idle", "restoring", "recovering", "clean", "reply",
           "install", "leftover", "unstage", "purge", "unmark", "abort"} \cup ApplyPlaces \cup ServePlaces

TypeOK ==
  /\ live \in Dirs /\ next \in Dirs /\ previous \in Dirs
  /\ staged \in BOOLEAN /\ boot \in BOOLEAN /\ leftovers \in Nat /\ lapses \in Nat
  /\ counters \in Counts
  /\ pending = None \/ pending \in Entries
  /\ marker = None \/ marker \in Markers
  /\ backups \in [BackupIds -> Copies]
  /\ pc \in Places /\ then \in {"recovering", "reply", "leftover", "unstage"}
  /\ serving \in IF pc \in ServePlaces \ {"ready"} THEN BackupIds ELSE Events \cup {None}
  /\ area \in 1..4 /\ nextOp \in 0..MaxOps /\ acked \subseteq Events /\ stops \in 0..MaxStops

Whole(log) == log # Gone /\ log.torn = None

\* A request is served, and a backup or a restore copied, only from a store in
\* which nothing is half done: no journal entry and no marker is left, every area
\* is there and no line is torn.
ServesWholeState ==
  pc \in ServePlaces =>
    /\ pending = None /\ marker = None
    /\ live.records # Gone /\ live.events # Gone /\ Whole(live.audit)
    /\ \A l \in Logs : Whole(live.events[l])

\* In that state the counters that the metrics report are the true counts, and
\* the record logs and the audit stream hold the same events equally often.
ServesTrueCounts ==
  pc \in ServePlaces =>
    /\ counters = [records |-> Cardinality(Present(live.records)), events |-> Len(live.audit.lines)]
    /\ EventsAgree(live.events, live.audit)

\* Recovery never meets a log it cannot continue: ensureEvent's length and
\* content conflicts, after which every later request would throw, do not arise
\* from the store's own stops.
JournalApplies ==
  /\ pc = "event" => Applicable(live.events[pending.event.log], pending.eventLogLength, pending.event)
  /\ pc = "audit" => Applicable(live.audit, pending.auditLogLength, pending.event)

\* A backup that has a manifest is complete and passes every check of restore,
\* whenever the process stopped while it was being copied.
ListedBackupsRestore ==
  \A b \in BackupIds : backups[b].manifest # None =>
    /\ backups[b].records # Gone /\ backups[b].events # Gone /\ Whole(backups[b].audit)
    /\ \A l \in Logs : Whole(backups[b].events[l])
    /\ Restorable(b)

\* An event whose request was answered with success stays in the audit stream,
\* through every stop and recovery, until a restore to an earlier backup.
AcknowledgedSurvives ==
  \A e \in acked : \E k \in 1..Len(EffectiveAudit) : EffectiveAudit[k] = e

\* A store that is not restoring keeps a copy of restored or replaced records in its
\* journal directory only where a call that made or removed a stage failed in the life
\* of this process, one for each such call: neither a stop anywhere, after the next
\* start, nor any other call that failed leaves one.
NoStageLeftBehind ==
  pc \in {"idle", "ready"} /\ marker = None => ~staged /\ leftovers <= lapses

\* What the process does on its own, without a request, a stop or a fault.
Progress == EnsureReady \/ Start \/ Recover \/ Apply \/ Reply \/ BackupStep \/ RestoreStep \/ ReadOrRefuse

\* An interrupted operation or restore does not stay half done: once the process
\* is restarted, or the next request arrives, it is completed.
RecoveryCompletes ==
  (pending # None \/ marker # None) ~> (pending = None /\ marker = None)
=============================================================================
