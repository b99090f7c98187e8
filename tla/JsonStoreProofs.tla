--------------------------- MODULE JsonStoreProofs ---------------------------
(***************************************************************************)
(* Proofs about JsonStore, for every set of record and backup ids and every *)
(* bound on operations and stops: the journal can always be applied, a      *)
(* request is served only from a store in which nothing is half done, and   *)
(* JsonStore implements RecordLog.                                         *)
(*                                                                         *)
(* What callers are shown (JsonStore's Effective operators) is a function   *)
(* of the disk alone.  Every action is shown to leave it as it is, or to be *)
(* one of the three publications: of pending.json, of a backup's manifest,  *)
(* of restore.json.  WorkFits says what the process in the middle of an     *)
(* operation may rely on, in terms of the files; ContentFits says what is   *)
(* true of the contents shown, and needs nothing of the files any more.     *)
(***************************************************************************)
EXTENDS JsonStore, FiniteSetTheorems, TLAPS

AllLive == live.records # Gone /\ live.events # Gone /\ live.audit # Gone
NoNext  == next.records = Gone /\ next.events = Gone /\ next.audit = Gone

QuietEvents(events) == \A l \in Logs : events[l].torn = None

\* What an entry in the journal may find in a log: nothing of its line, the
\* first piece, or the whole line.
Fits(log, before, e) ==
  \/ EndsWith(log, e)
  \/ log.torn = None /\ Size(log) = before
  \/ log.torn = e /\ Size(log) = before + 1

\* Copies of the areas hold no torn line, and a backup in the making or listed has
\* the areas that were copied before it got where it is.
CopiesQuiet ==
  /\ \A b \in BackupIds :
       /\ backups[b].events # Gone => QuietEvents(backups[b].events)
       /\ backups[b].audit # Gone => backups[b].audit.torn = None
       /\ backups[b].manifest # None =>
            backups[b].records # Gone /\ backups[b].events # Gone /\ backups[b].audit # Gone
  /\ pc \in {"copyEvents", "copyAudit", "manifest"} => backups[serving].records # Gone
  /\ pc \in {"copyAudit", "manifest"} => backups[serving].events # Gone
  /\ pc = "manifest" => backups[serving].audit # Gone
  /\ next.events # Gone => QuietEvents(next.events)
  /\ next.audit # Gone => next.audit.torn = None

\* Without an entry no live line is torn; with one, only the lines it owes, and
\* all areas are in place.
LiveFits ==
  /\ pending = None =>
       /\ live.events # Gone => QuietEvents(live.events)
       /\ live.audit # Gone => live.audit.torn = None
  /\ pending # None =>
       /\ AllLive
       /\ Fits(live.events[pending.event.log], pending.eventLogLength, pending.event)
       /\ \A l \in Logs \ {pending.event.log} : live.events[l].torn = None
       /\ Fits(live.audit, pending.auditLogLength, pending.event)

\* The swap: an area is live or waits in the stage, and never in both once it has
\* been moved out.
SwapFits ==
  /\ ~staged => NoNext /\ previous.records = Gone /\ previous.events = Gone /\ previous.audit = Gone
  /\ marker = None => AllLive
  /\ marker # None =>
       /\ live.records = Gone => next.records # Gone
       /\ live.events = Gone => next.events # Gone
       /\ live.audit = Gone => next.audit # Gone
       /\ (live.records # Gone /\ previous.records # Gone) => next.records = Gone
       /\ (live.events # Gone /\ previous.events # Gone) => next.events = Gone
       /\ (live.audit # Gone /\ previous.audit # Gone) => next.audit = Gone
       /\ pending # None => NoNext

\* Where the process is and what it may find there.
PlaceFits ==
  /\ pc \in ServePlaces \cup {"reply", "clean", "abort"} => pending = None /\ marker = None
  /\ pc = "recovering" => marker = None
  /\ pc \in ApplyPlaces =>
       /\ pending # None
       /\ then \in {"leftover", "unstage"} => marker # None
       /\ then \in {"recovering", "reply"} => marker = None
  /\ pc \in {"audit", "counters", "clear"} => EndsWith(live.events[pending.event.log], pending.event)
  /\ pc \in {"counters", "clear"} => EndsWith(live.audit, pending.event)
  /\ pc = "install" =>
       /\ marker # None /\ staged
       /\ area > 1 => live.records # Gone /\ next.records = Gone
       /\ area > 2 => live.events # Gone /\ next.events = Gone
       /\ area > 3 => live.audit # Gone /\ next.audit = Gone
  /\ pc = "leftover" => marker # None /\ NoNext
  /\ pc = "unstage" => marker # None /\ pending = None /\ NoNext
  /\ pc = "unmark" => marker # None /\ pending = None /\ ~staged
  /\ pc = "purge" => leftovers > 0 /\ ~staged /\ pending = None
  /\ pc \in {"stage", "mark"} =>
       /\ nextOp < MaxOps /\ staged
       /\ previous.records = Gone /\ previous.events = Gone /\ previous.audit = Gone
  /\ pc = "stage" => backups[serving].manifest # None
  /\ pc = "mark" => next.records # Gone /\ next.events # Gone /\ next.audit # Gone

\* A stage without a marker belongs to a restore about to publish it or to give it up,
\* or to a process that is down or starting.  A process that is neither has no more
\* left to delete than it failed to, but for the directory it is deleting.
StageFits ==
  /\ boot => pc \notin ServePlaces \cup {"down", "idle", "reply", "abort"} /\ serving = None
  /\ boot /\ pc \in ApplyPlaces => then # "reply"
  /\ pc \in {"down", "idle", "restoring", "recovering", "clean", "ready", "abort"} => serving = None
  /\ pc \in ApplyPlaces /\ then = "recovering" => serving = None
  /\ pc \in ApplyPlaces /\ then = "reply" => serving # None
  /\ marker = None /\ staged => pc \in {"stage", "mark", "abort", "down"} \/ boot
  /\ pc = "purge" /\ marker = None => serving = None /\ ~boot
  /\ ~boot /\ pc \notin {"down", "purge"} => leftovers <= lapses
  /\ ~boot /\ pc = "purge" => leftovers <= lapses + 1

IInv == TypeOK /\ CopiesQuiet /\ LiveFits /\ SwapFits /\ PlaceFits /\ StageFits
-----------------------------------------------------------------------------
USE DEF Places, ServePlaces, ApplyPlaces

LEMMA InitInv == Init => IInv
  <1> SUFFICES ASSUME Init PROVE IInv
    OBVIOUS
  <1> USE DEF Init
  <1>1. EmptyLog \in Log
    BY DEF EmptyLog, Log
  <1>2. live \in Dirs
    BY <1>1 DEF Dirs, RecordsDir, EventsDir
  <1>3. NoDirs \in Dirs
    BY DEF NoDirs, Dirs, AreaNames
  <1>4. AllLive
    BY <1>1, <1>2, SentinelsDiffer DEF AllLive, RecordsDir, EventsDir
  <1>5. TypeOK
    <2>1. NoBackup \in Copies
      BY DEF NoBackup, Copies
    <2>2. backups \in [BackupIds -> Copies]
      BY <2>1
    <2>3. counters \in Counts
      BY DEF Counts
    <2>4. serving \in IF pc \in ServePlaces \ {"ready"} THEN BackupIds ELSE Events \cup {None}
      OBVIOUS
    <2>5. nextOp \in 0..MaxOps /\ stops \in 0..MaxStops
      BY BoundsAreNaturals
    <2>6. live \in Dirs /\ next \in Dirs /\ previous \in Dirs
      BY <1>2, <1>3
    <2>7. pc \in Places /\ then \in {"recovering", "reply", "leftover", "unstage"} /\ area \in 1..4
      OBVIOUS
    <2>8. /\ staged \in BOOLEAN /\ boot \in BOOLEAN /\ acked \subseteq Events
          /\ pending = None /\ marker = None
      OBVIOUS
    <2> QED
      BY <2>2, <2>3, <2>4, <2>5, <2>6, <2>7, <2>8 DEF TypeOK
  <1>6. CopiesQuiet
    BY DEF CopiesQuiet, NoBackup, NoDirs, AreaNames
  <1>7. LiveFits
    BY <1>1 DEF LiveFits, QuietEvents, EmptyLog
  <1>8. SwapFits
    BY <1>4 DEF SwapFits, NoNext, NoDirs, AreaNames
  <1>9. PlaceFits
    BY DEF PlaceFits
  <1>10. StageFits
    BY DEF StageFits
  <1> QED
    BY <1>5, <1>6, <1>7, <1>8, <1>9, <1>10 DEF IInv

-----------------------------------------------------------------------------
(* Facts about logs and directories *)

LEMMA NoDirsFields ==
  NoDirs \in Dirs /\ NoDirs.records = Gone /\ NoDirs.events = Gone /\ NoDirs.audit = Gone
  BY DEF NoDirs, Dirs, AreaNames

LEMMA DirsFields ==
  ASSUME NEW d \in Dirs
  PROVE  /\ d.records \in RecordsDir \cup {Gone}
         /\ d.events \in EventsDir \cup {Gone}
         /\ d.audit \in Log \cup {Gone}
         /\ d = [records |-> d.records, events |-> d.events, audit |-> d.audit]
  BY DEF Dirs

LEMMA SizeNat == ASSUME NEW log \in Log PROVE Size(log) \in Nat
  BY DEF Size, Log, Pieces

\* A log that fits an entry can be continued, and the next piece fits again.
LEMMA FitsApplies ==
  ASSUME NEW log \in Log, NEW before \in Nat, NEW e \in Events, Fits(log, before, e)
  PROVE  Applicable(log, before, e)
  BY DEF Fits, Applicable

LEMMA ExtendedFits ==
  ASSUME NEW log \in Log, NEW before \in Nat, NEW e \in Events,
         Fits(log, before, e), ~EndsWith(log, e)
  PROVE  Extended(log, e) \in Log /\ Fits(Extended(log, e), before, e)
  <1>1. CASE log.torn = e
    <2>1. /\ Extended(log, e) = [lines |-> Append(log.lines, e), torn |-> None]
          /\ Extended(log, e) \in Log
      BY <1>1 DEF Extended, Log
    <2>2. EndsWith(Extended(log, e), e)
      BY <2>1 DEF EndsWith, Log
    <2> QED
      BY <2>1, <2>2 DEF Fits
  <1>2. CASE log.torn # e
    <2>1. log.torn = None /\ Size(log) = before
      BY <1>2 DEF Fits
    <2>2. /\ Extended(log, e) \in Log
          /\ Extended(log, e).torn = e /\ Extended(log, e).lines = log.lines
      BY <1>2 DEF Extended, Log
    <2>3. Size(Extended(log, e)) = before + 1
      BY <2>1, <2>2, SentinelsDiffer DEF Size, Log, Pieces
    <2> QED
      BY <2>2, <2>3 DEF Fits
  <1> QED
    BY <1>1, <1>2

\* A fresh entry fits any log that is not torn.
LEMMA IntentFits ==
  ASSUME NEW log \in Log, NEW e \in Events, log.torn = None
  PROVE  Fits(log, Size(log), e)
  BY DEF Fits

LEMMA EnsureReadyStep == ASSUME IInv, EnsureReady PROVE IInv'
  <1> USE DEF IInv, EnsureReady, Goto, disk
  <1>1. TypeOK'
    BY DEF TypeOK
  <1>2. CopiesQuiet'
    BY DEF CopiesQuiet, TypeOK
  <1>3. LiveFits'
    BY DEF LiveFits, PlaceFits, AllLive
  <1>4. SwapFits'
    BY DEF SwapFits, PlaceFits, NoNext, AllLive
  <1>5. PlaceFits'
    BY DEF PlaceFits, SwapFits, StageFits, NoNext
  <1>6. StageFits'
    BY DEF StageFits, PlaceFits, TypeOK
  <1> QED
    BY <1>1, <1>2, <1>3, <1>4, <1>5, <1>6

LEMMA StartStep == ASSUME IInv, Start PROVE IInv'
  <1> USE DEF IInv, Start, Goto, disk
  <1>1. TypeOK'
    BY DEF TypeOK
  <1>2. CopiesQuiet'
    BY DEF CopiesQuiet, TypeOK
  <1>3. LiveFits'
    BY DEF LiveFits, PlaceFits, AllLive
  <1>4. SwapFits'
    BY DEF SwapFits, PlaceFits, NoNext, AllLive
  <1>5. PlaceFits'
    BY DEF PlaceFits, SwapFits, StageFits, NoNext
  <1>6. StageFits'
    BY DEF StageFits, PlaceFits, TypeOK
  <1> QED
    BY <1>1, <1>2, <1>3, <1>4, <1>5, <1>6

LEMMA RecoverRestoreStep == ASSUME IInv, RecoverRestore PROVE IInv'
  <1> USE DEF IInv, RecoverRestore, Goto, disk

  <1>a. live' = live
    <2>1. marker = None => AllLive
      BY DEF SwapFits
    <2>2. marker = None => Layout(live) = live
      BY <2>1, DirsFields DEF Layout, AllLive, TypeOK
    <2> QED
      BY <2>2
  <1> HIDE DEF Layout
  <1>1. TypeOK'
    BY <1>a DEF TypeOK
  <1>2. CopiesQuiet'
    BY DEF CopiesQuiet
  <1>3. LiveFits'
    BY <1>a DEF LiveFits, AllLive
  <1>4. SwapFits'
    BY <1>a DEF SwapFits, NoNext, AllLive
  <1>5. PlaceFits'
    BY <1>a DEF PlaceFits, SwapFits, StageFits, NoNext
  <1>6. StageFits'
    BY DEF StageFits, PlaceFits, TypeOK
  <1> QED
    BY <1>1, <1>2, <1>3, <1>4, <1>5, <1>6

LEMMA RecoverPendingStep == ASSUME IInv, RecoverPending PROVE IInv'
  <1> USE DEF IInv, RecoverPending, Goto, disk
  <1>1. TypeOK'
    BY DEF TypeOK
  <1>2. CopiesQuiet'
    BY DEF CopiesQuiet, TypeOK
  <1>3. LiveFits'
    BY DEF LiveFits, PlaceFits, AllLive
  <1>4. SwapFits'
    BY DEF SwapFits, PlaceFits, NoNext, AllLive
  <1>5. PlaceFits'
    BY DEF PlaceFits, SwapFits, StageFits, NoNext
  <1>6. StageFits'
    BY DEF StageFits, PlaceFits, TypeOK
  <1> QED
    BY <1>1, <1>2, <1>3, <1>4, <1>5, <1>6

LEMMA CleanTemporariesStep == ASSUME IInv, CleanTemporaries PROVE IInv'
  <1> USE DEF IInv, CleanTemporaries, SetAside, Goto, disk
  <1>1. TypeOK'
    <2>1. leftovers' \in Nat /\ lapses' \in Nat /\ stops' \in 0..MaxStops
      BY SMTT(30) DEF TypeOK, PlaceFits
    <2>2. /\ next' \in Dirs /\ previous' \in Dirs /\ staged' \in BOOLEAN /\ boot' \in BOOLEAN
          /\ UNCHANGED <<live, pending, marker, counters, backups, then, area, nextOp, acked>>
      BY NoDirsFields DEF TypeOK
    <2>3. pc' \in Places /\ serving' \in IF pc' \in ServePlaces \ {"ready"} THEN BackupIds ELSE Events \cup {None}
      BY DEF TypeOK
    <2> HIDE DEF CleanTemporaries, SetAside
    <2> QED
      BY <2>1, <2>2, <2>3 DEF TypeOK
  <1>2. CopiesQuiet'
    BY NoDirsFields DEF CopiesQuiet
  <1>3. LiveFits'
    BY DEF LiveFits, PlaceFits, AllLive
  <1>4. SwapFits'
    BY NoDirsFields DEF SwapFits, PlaceFits, NoNext, AllLive
  <1>5. PlaceFits'
    BY NoDirsFields DEF PlaceFits, SwapFits, NoNext, TypeOK
  <1>6. StageFits'
    BY DEF StageFits, PlaceFits, TypeOK
  <1> QED
    BY <1>1, <1>2, <1>3, <1>4, <1>5, <1>6

LEMMA ApplyRecordStep == ASSUME IInv, ApplyRecord PROVE IInv'
  <1> USE DEF IInv, ApplyRecord, Goto, disk

  <1>a. pending \in Entries /\ AllLive /\ live \in Dirs
    BY DEF PlaceFits, LiveFits, TypeOK
  <1>b. live.records \in RecordsDir
    BY <1>a, DirsFields DEF AllLive
  <1>c. /\ live' \in Dirs /\ live'.records \in RecordsDir
        /\ live'.events = live.events /\ live'.audit = live.audit
    BY <1>a, <1>b DEF Dirs, Entries, RecordsDir
  <1>d. live'.records # Gone
    BY <1>c, SentinelsDiffer
  <1>1. TypeOK'
    BY <1>c DEF TypeOK
  <1>2. CopiesQuiet'
    BY DEF CopiesQuiet
  <1>3. LiveFits'
    BY <1>a, <1>c, <1>d DEF LiveFits, PlaceFits, AllLive
  <1>4. SwapFits'
    BY <1>a, <1>c, <1>d DEF SwapFits, PlaceFits, NoNext, AllLive, LiveFits
  <1>5. PlaceFits'
    BY <1>c DEF PlaceFits, SwapFits, StageFits, NoNext
  <1>6. StageFits'
    BY DEF StageFits, PlaceFits, TypeOK
  <1> QED
    BY <1>1, <1>2, <1>3, <1>4, <1>5, <1>6

LEMMA ApplyEventStep == ASSUME IInv, ApplyEvent PROVE IInv'
  <1> USE DEF IInv, ApplyEvent, Goto, disk

  <1> DEFINE e == pending.event
             log == live.events[e.log]
  <1>a. pending \in Entries /\ pending # None /\ AllLive /\ live \in Dirs /\ e \in Events /\ e.log \in Logs
    BY DEF PlaceFits, LiveFits, TypeOK, Entries, Events
  <1>b. live.events \in EventsDir /\ log \in Log
    BY <1>a, DirsFields DEF AllLive, EventsDir
  <1>c. Fits(log, pending.eventLogLength, e) /\ pending.eventLogLength \in Nat
    BY <1>a DEF LiveFits, Entries
  <1>d. /\ live' \in Dirs
        /\ live'.records = live.records /\ live'.audit = live.audit /\ live'.events \in EventsDir
        /\ \A l \in Logs \ {e.log} : live'.events[l] = live.events[l]
        /\ Fits(live'.events[e.log], pending.eventLogLength, e)
        /\ pc' = "audit" => EndsWith(live'.events[e.log], e)
    <2>1. CASE EndsWith(log, e)
      BY <2>1, <1>a, <1>b, <1>c
    <2>2. CASE ~EndsWith(log, e)
      <3>1. Extended(log, e) \in Log /\ Fits(Extended(log, e), pending.eventLogLength, e)
        BY <2>2, <1>a, <1>b, <1>c, ExtendedFits
      <3>2. live' = [live EXCEPT !.events[e.log] = Extended(log, e)] /\ pc' = pc
        BY <2>2
      <3> QED
        BY <3>1, <3>2, <1>a, <1>b DEF Dirs, EventsDir
    <2> QED
      BY <2>1, <2>2
  <1>e. AllLive'
    BY <1>a, <1>d, SentinelsDiffer DEF AllLive
  <1>f. /\ pc' \in {"event", "audit"} /\ pending' = pending /\ then' = then /\ marker' = marker
        /\ UNCHANGED <<next, previous, staged, leftovers, counters, backups, serving, area, boot, nextOp, acked, lapses, stops>>
    OBVIOUS
  <1> HIDE DEF ApplyEvent, Goto, e, log
  <1>1. TypeOK'
    BY <1>d, <1>f DEF TypeOK, ApplyEvent
  <1>2. CopiesQuiet'
    BY <1>f DEF CopiesQuiet, ApplyEvent
  <1>3. LiveFits'
    BY <1>a, <1>d, <1>e, <1>f DEF LiveFits, e
  <1>4. SwapFits'
    BY <1>a, <1>d, <1>e, <1>f DEF SwapFits, NoNext, AllLive
  <1>5. PlaceFits'
    BY <1>a, <1>d, <1>f DEF PlaceFits, ApplyEvent, e
  <1>6. StageFits'
    BY <1>f DEF StageFits, ApplyEvent
  <1> QED
    BY <1>1, <1>2, <1>3, <1>4, <1>5, <1>6

LEMMA ApplyAuditStep == ASSUME IInv, ApplyAudit PROVE IInv'
  <1> USE DEF IInv, ApplyAudit, Goto, disk

  <1> DEFINE e == pending.event
  <1>a. pending \in Entries /\ pending # None /\ AllLive /\ live \in Dirs /\ e \in Events /\ e.log \in Logs
    BY DEF PlaceFits, LiveFits, TypeOK, Entries, Events
  <1>b. live.audit \in Log
    BY <1>a, DirsFields DEF AllLive
  <1>c. Fits(live.audit, pending.auditLogLength, e) /\ pending.auditLogLength \in Nat
    BY <1>a DEF LiveFits, Entries
  <1>d. /\ live' \in Dirs
        /\ live'.records = live.records /\ live'.events = live.events /\ live'.audit \in Log
        /\ Fits(live'.audit, pending.auditLogLength, e)
        /\ pc' = "counters" => EndsWith(live'.audit, e)
    <2>1. CASE EndsWith(live.audit, e)
      BY <2>1, <1>a, <1>b, <1>c
    <2>2. CASE ~EndsWith(live.audit, e)
      <3>1. Extended(live.audit, e) \in Log /\ Fits(Extended(live.audit, e), pending.auditLogLength, e)
        BY <2>2, <1>a, <1>b, <1>c, ExtendedFits
      <3>2. live' = [live EXCEPT !.audit = Extended(live.audit, e)] /\ pc' = pc
        BY <2>2
      <3> QED
        BY <3>1, <3>2, <1>a, <1>b DEF Dirs
    <2> QED
      BY <2>1, <2>2
  <1>e. AllLive'
    BY <1>a, <1>d, SentinelsDiffer DEF AllLive
  <1>f. /\ pc = "audit" /\ pc' \in {"audit", "counters"}
        /\ UNCHANGED <<next, previous, staged, leftovers, pending, marker, counters, backups,
                       then, serving, area, boot, nextOp, acked, lapses, stops>>
    OBVIOUS
  <1> HIDE DEF ApplyAudit, Goto, e
  <1>1. TypeOK'
    BY <1>d, <1>f DEF TypeOK
  <1>2. CopiesQuiet'
    BY <1>f DEF CopiesQuiet
  <1>3. LiveFits'
    BY <1>a, <1>d, <1>e, <1>f DEF LiveFits, e
  <1>4. SwapFits'
    BY <1>a, <1>d, <1>e, <1>f DEF SwapFits, NoNext, AllLive
  <1>5. PlaceFits'
    BY <1>a, <1>d, <1>f DEF PlaceFits, e
  <1>6. StageFits'
    BY <1>f DEF StageFits
  <1> QED
    BY <1>1, <1>2, <1>3, <1>4, <1>5, <1>6

LEMMA ApplyCountersStep == ASSUME IInv, ApplyCounters PROVE IInv'
  <1> USE DEF IInv, ApplyCounters, Goto, disk
  <1>1. TypeOK'
    BY DEF TypeOK, PlaceFits, Entries
  <1>2. CopiesQuiet'
    BY DEF CopiesQuiet, TypeOK
  <1>3. LiveFits'
    BY DEF LiveFits, PlaceFits, AllLive
  <1>4. SwapFits'
    BY DEF SwapFits, PlaceFits, NoNext, AllLive
  <1>5. PlaceFits'
    BY DEF PlaceFits, SwapFits, StageFits, NoNext
  <1>6. StageFits'
    BY DEF StageFits, PlaceFits, TypeOK
  <1> QED
    BY <1>1, <1>2, <1>3, <1>4, <1>5, <1>6

LEMMA ClearPendingStep == ASSUME IInv, ClearPending PROVE IInv'
  <1> USE DEF IInv, ClearPending, Goto, disk

  <1>a. pending # None /\ AllLive /\ pc = "clear"
    BY DEF PlaceFits, LiveFits
  <1>b. QuietEvents(live.events) /\ live.audit.torn = None
    BY <1>a DEF PlaceFits, LiveFits, EndsWith, QuietEvents
  <1>c. marker # None => NoNext
    BY <1>a DEF SwapFits
  <1>d. then \in {"leftover", "unstage", "recovering", "reply"}
    BY DEF TypeOK
  <1>1. TypeOK'
    BY DEF TypeOK
  <1>2. CopiesQuiet'
    BY DEF CopiesQuiet, TypeOK
  <1>3. LiveFits'
    BY <1>a, <1>b DEF LiveFits
  <1>4. SwapFits'
    BY DEF SwapFits, PlaceFits, NoNext, AllLive
  <1>5. PlaceFits'
    BY <1>a, <1>c, <1>d DEF PlaceFits, NoNext
  <1>6. StageFits'
    BY DEF StageFits, PlaceFits, TypeOK
  <1> QED
    BY <1>1, <1>2, <1>3, <1>4, <1>5, <1>6

LEMMA ReplyStep == ASSUME IInv, Reply PROVE IInv'
  <1> USE DEF IInv, Reply, Goto, disk
  <1>1. TypeOK'
    BY DEF TypeOK
  <1>2. CopiesQuiet'
    BY DEF CopiesQuiet, TypeOK
  <1>3. LiveFits'
    BY DEF LiveFits, PlaceFits, AllLive
  <1>4. SwapFits'
    BY DEF SwapFits, PlaceFits, NoNext, AllLive
  <1>5. PlaceFits'
    BY DEF PlaceFits, SwapFits, StageFits, NoNext
  <1>6. StageFits'
    BY DEF StageFits, PlaceFits, TypeOK
  <1> QED
    BY <1>1, <1>2, <1>3, <1>4, <1>5, <1>6

LEMMA ReadOrRefuseStep == ASSUME IInv, ReadOrRefuse PROVE IInv'
  <1> USE DEF IInv, ReadOrRefuse, Goto, disk
  <1>1. TypeOK'
    BY DEF TypeOK
  <1>2. CopiesQuiet'
    BY DEF CopiesQuiet, TypeOK
  <1>3. LiveFits'
    BY DEF LiveFits, PlaceFits, AllLive
  <1>4. SwapFits'
    BY DEF SwapFits, PlaceFits, NoNext, AllLive
  <1>5. PlaceFits'
    BY DEF PlaceFits, SwapFits, StageFits, NoNext
  <1>6. StageFits'
    BY DEF StageFits, PlaceFits, TypeOK
  <1> QED
    BY <1>1, <1>2, <1>3, <1>4, <1>5, <1>6

LEMMA CopyRecordsStep == ASSUME IInv, NEW b \in BackupIds, CopyRecords(b) PROVE IInv'
  <1> USE DEF IInv, CopyRecords, Goto, disk

  <1>a. live \in Dirs /\ AllLive /\ pending = None
    BY DEF TypeOK, PlaceFits, SwapFits
  <1>b. QuietEvents(live.events) /\ live.audit.torn = None
    BY <1>a DEF LiveFits, AllLive
  <1>c. backups \in [BackupIds -> Copies]
    BY DEF TypeOK

  <1>d. backups' \in [BackupIds -> Copies]
    BY <1>a, <1>c DEF Copies, Dirs
  <1>e. \A c \in BackupIds : /\ backups'[c].events = backups[c].events /\ backups'[c].audit = backups[c].audit
                             /\ backups'[c].manifest = backups[c].manifest
                             /\ c # b => backups'[c].records = backups[c].records
    BY <1>c DEF Copies
  <1>f. backups'[b].records # Gone
    BY <1>a, <1>c DEF Copies, AllLive
  <1>1. TypeOK'
    BY <1>d DEF TypeOK
  <1>2. CopiesQuiet'
    BY <1>a, <1>e, <1>f DEF CopiesQuiet
  <1>3. LiveFits'
    BY DEF LiveFits, PlaceFits, AllLive
  <1>4. SwapFits'
    BY DEF SwapFits, PlaceFits, NoNext, AllLive
  <1>5. PlaceFits'
    BY DEF PlaceFits, SwapFits, StageFits, NoNext
  <1>6. StageFits'
    BY DEF StageFits, PlaceFits, TypeOK
  <1> QED
    BY <1>1, <1>2, <1>3, <1>4, <1>5, <1>6

LEMMA CopyEventsStep == ASSUME IInv, CopyEvents PROVE IInv'
  <1> USE DEF IInv, CopyEvents, Goto, disk

  <1>a. live \in Dirs /\ AllLive /\ pending = None
    BY DEF TypeOK, PlaceFits, SwapFits
  <1>b. QuietEvents(live.events) /\ live.audit.torn = None
    BY <1>a DEF LiveFits, AllLive
  <1>c. backups \in [BackupIds -> Copies]
    BY DEF TypeOK

  <1>d. serving \in BackupIds
    BY DEF TypeOK
  <1>e. backups' \in [BackupIds -> Copies]
    BY <1>a, <1>c DEF Copies, Dirs
  <1>f. \A c \in BackupIds : /\ backups'[c].records = backups[c].records
                             /\ backups'[c].manifest = backups[c].manifest
                             /\ backups'[c].audit = backups[c].audit
                             /\ c # serving => backups'[c].events = backups[c].events
    BY <1>c DEF Copies
  <1>g. backups'[serving].events = live.events /\ live.events # Gone
    BY <1>a, <1>c, <1>d DEF Copies, AllLive
  <1>1. TypeOK'
    BY <1>d, <1>e DEF TypeOK
  <1>2. CopiesQuiet'
    BY <1>b, <1>d, <1>f, <1>g DEF CopiesQuiet
  <1>3. LiveFits'
    BY DEF LiveFits, PlaceFits, AllLive
  <1>4. SwapFits'
    BY DEF SwapFits, PlaceFits, NoNext, AllLive
  <1>5. PlaceFits'
    BY DEF PlaceFits, SwapFits, StageFits, NoNext
  <1>6. StageFits'
    BY DEF StageFits, PlaceFits, TypeOK
  <1> QED
    BY <1>1, <1>2, <1>3, <1>4, <1>5, <1>6

LEMMA CopyAuditStep == ASSUME IInv, CopyAudit PROVE IInv'
  <1> USE DEF IInv, CopyAudit, Goto, disk

  <1>a. live \in Dirs /\ AllLive /\ pending = None
    BY DEF TypeOK, PlaceFits, SwapFits
  <1>b. QuietEvents(live.events) /\ live.audit.torn = None
    BY <1>a DEF LiveFits, AllLive
  <1>c. backups \in [BackupIds -> Copies]
    BY DEF TypeOK

  <1>d. serving \in BackupIds
    BY DEF TypeOK
  <1>e. backups' \in [BackupIds -> Copies]
    BY <1>a, <1>c DEF Copies, Dirs
  <1>f. \A c \in BackupIds : /\ backups'[c].records = backups[c].records
                             /\ backups'[c].manifest = backups[c].manifest
                             /\ backups'[c].events = backups[c].events
                             /\ c # serving => backups'[c].audit = backups[c].audit
    BY <1>c DEF Copies
  <1>g. backups'[serving].audit = live.audit /\ live.audit # Gone
    BY <1>a, <1>c, <1>d DEF Copies, AllLive
  <1>1. TypeOK'
    BY <1>d, <1>e DEF TypeOK
  <1>2. CopiesQuiet'
    BY <1>b, <1>d, <1>f, <1>g DEF CopiesQuiet
  <1>3. LiveFits'
    BY DEF LiveFits, PlaceFits, AllLive
  <1>4. SwapFits'
    BY DEF SwapFits, PlaceFits, NoNext, AllLive
  <1>5. PlaceFits'
    BY DEF PlaceFits, SwapFits, StageFits, NoNext
  <1>6. StageFits'
    BY DEF StageFits, PlaceFits, TypeOK
  <1> QED
    BY <1>1, <1>2, <1>3, <1>4, <1>5, <1>6

LEMMA WriteManifestStep == ASSUME IInv, WriteManifest PROVE IInv'
  <1> USE DEF IInv, WriteManifest, Goto, disk

  <1>a. live \in Dirs /\ AllLive /\ pending = None
    BY DEF TypeOK, PlaceFits, SwapFits
  <1>b. QuietEvents(live.events) /\ live.audit.torn = None
    BY <1>a DEF LiveFits, AllLive
  <1>c. backups \in [BackupIds -> Copies]
    BY DEF TypeOK

  <1>d. serving \in BackupIds /\ Present(live.records) \in SUBSET Ids
    BY DEF TypeOK, Present
  <1>e. backups' \in [BackupIds -> Copies]
    BY <1>c, <1>d DEF Copies
  <1>f. \A c \in BackupIds : /\ backups'[c].records = backups[c].records
                             /\ backups'[c].events = backups[c].events
                             /\ backups'[c].audit = backups[c].audit
                             /\ c # serving => backups'[c].manifest = backups[c].manifest
    BY <1>c DEF Copies
  <1>1. TypeOK'
    BY <1>d, <1>e DEF TypeOK
  <1>2. CopiesQuiet'
    BY <1>d, <1>f DEF CopiesQuiet
  <1>3. LiveFits'
    BY DEF LiveFits, PlaceFits, AllLive
  <1>4. SwapFits'
    BY DEF SwapFits, PlaceFits, NoNext, AllLive
  <1>5. PlaceFits'
    BY DEF PlaceFits, SwapFits, StageFits, NoNext
  <1>6. StageFits'
    BY DEF StageFits, PlaceFits, TypeOK
  <1> QED
    BY <1>1, <1>2, <1>3, <1>4, <1>5, <1>6

\* commitJsonMutation publishes an entry that fits the logs it found.
LEMMA CommitStep ==
  ASSUME IInv, pc \in {"ready", "noteBackup"},
         NEW log \in Logs, NEW record \in Rec \cup {NoRecord, Keep}, NEW n \in Int,
         Commit(log, record, n)
  PROVE  IInv'
  <1> USE DEF IInv, Commit, Goto
  <1> DEFINE e == [n |-> nextOp + 1, log |-> log]
  <1>a. e \in Events /\ e.log = log /\ nextOp' \in 0..MaxOps
    BY BoundsAreNaturals DEF TypeOK, Events
  <1>b. pending = None /\ marker = None /\ AllLive /\ live \in Dirs /\ counters \in Counts
    BY DEF TypeOK, PlaceFits, SwapFits
  <1>c. QuietEvents(live.events) /\ live.audit.torn = None
    BY <1>b DEF LiveFits, AllLive
  <1>d. live.events \in EventsDir /\ live.events[log] \in Log /\ live.audit \in Log
    BY <1>b, DirsFields DEF AllLive, EventsDir
  <1>e. /\ pending'.event = e /\ pending'.eventLogLength = Size(live.events[log])
        /\ pending'.auditLogLength = Size(live.audit)
    BY DEF Intent
  <1>f. pending' \in Entries /\ pending' # None
    BY <1>a, <1>b, <1>d, SizeNat, SentinelsDiffer DEF Intent, Entries, Counts
  <1>g. /\ Fits(live.events[log], Size(live.events[log]), e)
        /\ Fits(live.audit, Size(live.audit), e)
    BY <1>a, <1>c, <1>d, IntentFits DEF QuietEvents
  <1>h. e # None
    BY <1>a, SentinelsDiffer
  <1> HIDE DEF e, Intent
  <1>1. TypeOK'
    BY <1>a, <1>f DEF TypeOK, e
  <1>2. CopiesQuiet'
    BY DEF CopiesQuiet
  <1>3. LiveFits'
    BY <1>a, <1>b, <1>c, <1>e, <1>f, <1>g DEF LiveFits, AllLive, QuietEvents
  <1>4. SwapFits'
    BY <1>b DEF SwapFits, NoNext, AllLive
  <1>5. PlaceFits'
    BY <1>b, <1>f DEF PlaceFits
  <1>6. StageFits'
    BY <1>b, <1>h DEF StageFits, e
  <1> QED
    BY <1>1, <1>2, <1>3, <1>4, <1>5, <1>6

LEMMA ReadyState ==
  ASSUME IInv, pc \in {"ready", "noteBackup"}
  PROVE  live.records \in RecordsDir /\ nextOp \in Nat /\ counters.records \in Int
  BY SentinelsDiffer, DirsFields DEF IInv, TypeOK, PlaceFits, SwapFits, AllLive, Dirs, Counts

LEMMA CreateStep == ASSUME IInv, NEW i \in Ids, Create(i) PROVE IInv'
  <1>1. [rev |-> 0, by |-> nextOp + 1] \in Rec
    BY ReadyState DEF Create, Rec
  <1> QED
    BY <1>1, ReadyState, CommitStep DEF Create, Logs

LEMMA MutateStep == ASSUME IInv, NEW i \in Ids, Mutate(i) PROVE IInv'
  <1>1. [rev |-> live.records[i].rev + 1, by |-> nextOp + 1] \in Rec
    BY ReadyState DEF Mutate, Rec, RecordsDir
  <1> QED
    BY <1>1, ReadyState, CommitStep DEF Mutate, Logs

LEMMA DeleteStep == ASSUME IInv, NEW i \in Ids, Delete(i) PROVE IInv'
  BY ReadyState, CommitStep DEF Delete, Logs

LEMMA AppendEventStep == ASSUME IInv, NEW l \in Logs, AppendEvent(l) PROVE IInv'
  BY ReadyState, CommitStep DEF AppendEvent

LEMMA NoteBackupStep == ASSUME IInv, NoteBackup PROVE IInv'
  BY ReadyState, CommitStep DEF NoteBackup, Logs

LEMMA StageRestoreStep == ASSUME IInv, NEW b \in BackupIds, StageRestore(b) PROVE IInv'
  <1> USE DEF IInv, StageRestore, Goto, disk
  <1>a. backups[b].manifest # None /\ nextOp < MaxOps
    BY DEF Restorable
  <1>b. pc = "ready" /\ ~boot /\ ~staged /\ pending = None /\ marker = None /\ AllLive
    BY DEF StageFits, PlaceFits, SwapFits
  <1> HIDE DEF Restorable
  <1>1. TypeOK'
    BY DEF TypeOK
  <1>2. CopiesQuiet'
    BY DEF CopiesQuiet
  <1>3. LiveFits'
    BY DEF LiveFits, PlaceFits, AllLive
  <1>4. SwapFits'
    BY <1>b DEF SwapFits, AllLive
  <1>5. PlaceFits'
    BY <1>a, <1>b DEF PlaceFits, SwapFits
  <1>6. StageFits'
    BY <1>b DEF StageFits
  <1> QED
    BY <1>1, <1>2, <1>3, <1>4, <1>5, <1>6

LEMMA FillStageStep == ASSUME IInv, FillStage PROVE IInv'
  <1> USE DEF IInv, FillStage, Goto, disk
  <1>a. serving \in BackupIds /\ backups[serving] \in Copies /\ backups[serving].manifest # None
    BY DEF TypeOK, PlaceFits
  <1>b. /\ next' \in Dirs
        /\ next'.records # Gone /\ next'.events # Gone /\ next'.audit # Gone
        /\ QuietEvents(next'.events) /\ next'.audit.torn = None
    BY <1>a DEF Copies, Dirs, CopiesQuiet
  <1>c. pc = "stage" /\ ~boot /\ pending = None /\ marker = None /\ AllLive /\ staged
    BY DEF StageFits, PlaceFits, SwapFits
  <1>1. TypeOK'
    BY <1>b DEF TypeOK
  <1>2. CopiesQuiet'
    BY <1>b DEF CopiesQuiet
  <1>3. LiveFits'
    BY DEF LiveFits, PlaceFits, AllLive
  <1>4. SwapFits'
    BY <1>c DEF SwapFits, AllLive
  <1>5. PlaceFits'
    BY <1>b, <1>c DEF PlaceFits
  <1>6. StageFits'
    BY <1>c DEF StageFits
  <1> QED
    BY <1>1, <1>2, <1>3, <1>4, <1>5, <1>6

LEMMA WriteMarkerStep == ASSUME IInv, WriteMarker PROVE IInv'
  <1> USE DEF IInv, WriteMarker, Goto, disk

  <1>a. /\ next \in Dirs /\ next.records \in RecordsDir /\ next.audit \in Log /\ nextOp \in 0..MaxOps
        /\ nextOp < MaxOps
    BY DirsFields DEF TypeOK, PlaceFits
  <1>b. Cardinality(Present(next.records)) \in Nat
    BY IdsFinite, FS_Subset, FS_CardinalityType DEF Present
  <1>c. marker'.event = [n |-> nextOp + 1, log |-> System] /\ marker'.event \in Events
    BY <1>a, BoundsAreNaturals DEF Events, Logs
  <1>d. marker' \in Markers /\ marker' # None /\ serving' \in Events /\ serving' # None
    BY <1>a, <1>b, <1>c, SentinelsDiffer DEF Markers, Counts, Log
  <1>e. /\ nextOp' \in 0..MaxOps /\ acked' \subseteq Events
    BY <1>a, BoundsAreNaturals DEF TypeOK
  <1>f. pc = "mark" /\ pending = None /\ marker = None /\ AllLive /\ ~boot
    BY DEF PlaceFits, SwapFits, StageFits
  <1>g. /\ area' = 1 /\ pc' = "install"
        /\ UNCHANGED <<live, next, previous, staged, leftovers, pending, counters, backups, then, boot, lapses, stops>>
    OBVIOUS
  <1> HIDE DEF WriteMarker
  <1>1. TypeOK'
    BY <1>d, <1>e, <1>g DEF TypeOK
  <1>2. CopiesQuiet'
    BY <1>g DEF CopiesQuiet
  <1>3. LiveFits'
    BY <1>f, <1>g DEF LiveFits
  <1>4. SwapFits'
    BY <1>d, <1>f, <1>g DEF SwapFits, NoNext, AllLive, PlaceFits
  <1>5. PlaceFits'
    BY <1>d, <1>f, <1>g DEF PlaceFits
  <1>6. StageFits'
    BY <1>d, <1>f, <1>g DEF StageFits
  <1> QED
    BY <1>1, <1>2, <1>3, <1>4, <1>5, <1>6

LEMMA MoveOutStep == ASSUME IInv, MoveOut PROVE IInv'
  <1> USE DEF IInv, MoveOut, Goto, disk

  <1>a. /\ pending = None /\ marker # None /\ live \in Dirs /\ next \in Dirs /\ previous \in Dirs
        /\ area \in {1, 2, 3} /\ pc = "install" /\ staged
    BY DirsFields DEF TypeOK, PlaceFits, SwapFits, NoNext, LiveFits, AllLive, Areas

  <1>b. CASE area = 1
    <2>1. /\ next.records # Gone /\ live.records # Gone /\ previous.records = Gone
          /\ live' = [live EXCEPT !.records = Gone] /\ previous' = [previous EXCEPT !.records = live.records]
      BY <1>b DEF Areas
    <2>2. /\ live' \in Dirs /\ previous' \in Dirs /\ live'.records = Gone
          /\ live'.events = live.events /\ live'.audit = live.audit
          /\ previous'.events = previous.events /\ previous'.audit = previous.audit
      BY <1>a, <2>1 DEF Dirs
    <2> QED
      BY <1>a, <1>b, <2>1, <2>2 DEF TypeOK, CopiesQuiet, LiveFits, SwapFits, PlaceFits, StageFits, NoNext
  <1>c. CASE area = 2
    <2>1. /\ next.events # Gone /\ live.events # Gone /\ previous.events = Gone
          /\ live' = [live EXCEPT !.events = Gone] /\ previous' = [previous EXCEPT !.events = live.events]
      BY <1>c DEF Areas
    <2>2. /\ live' \in Dirs /\ previous' \in Dirs /\ live'.events = Gone
          /\ live'.records = live.records /\ live'.audit = live.audit
          /\ previous'.records = previous.records /\ previous'.audit = previous.audit
      BY <1>a, <2>1 DEF Dirs
    <2> QED
      BY <1>a, <1>c, <2>1, <2>2 DEF TypeOK, CopiesQuiet, LiveFits, SwapFits, PlaceFits, StageFits, NoNext
  <1>d. CASE area = 3
    <2>1. /\ next.audit # Gone /\ live.audit # Gone /\ previous.audit = Gone
          /\ live' = [live EXCEPT !.audit = Gone] /\ previous' = [previous EXCEPT !.audit = live.audit]
      BY <1>d DEF Areas
    <2>2. /\ live' \in Dirs /\ previous' \in Dirs /\ live'.audit = Gone
          /\ live'.records = live.records /\ live'.events = live.events
          /\ previous'.records = previous.records /\ previous'.events = previous.events
      BY <1>a, <2>1 DEF Dirs
    <2> QED
      BY <1>a, <1>d, <2>1, <2>2 DEF TypeOK, CopiesQuiet, LiveFits, SwapFits, PlaceFits, StageFits, NoNext
  <1> QED
    BY <1>a, <1>b, <1>c, <1>d

LEMMA MoveInStep == ASSUME IInv, MoveIn PROVE IInv'
  <1> USE DEF IInv, MoveIn, Goto, disk

  <1>a. /\ pending = None /\ marker # None /\ live \in Dirs /\ next \in Dirs /\ previous \in Dirs
        /\ area \in {1, 2, 3} /\ pc = "install" /\ staged
    BY DirsFields DEF TypeOK, PlaceFits, SwapFits, NoNext, LiveFits, AllLive, Areas
  <1>b. CASE area = 1
    <2>1. /\ next.records # Gone /\ live.records = Gone
          /\ live' = [live EXCEPT !.records = next.records] /\ next' = [next EXCEPT !.records = Gone]
      BY <1>b DEF Areas
    <2>2. /\ live' \in Dirs /\ next' \in Dirs /\ live'.records # Gone /\ next'.records = Gone
          /\ live'.events = live.events /\ live'.audit = live.audit
          /\ next'.events = next.events /\ next'.audit = next.audit
      BY <1>a, <2>1 DEF Dirs, CopiesQuiet
    <2> QED
      BY <1>a, <1>b, <2>1, <2>2 DEF TypeOK, CopiesQuiet, LiveFits, SwapFits, PlaceFits, StageFits, NoNext
  <1>c. CASE area = 2
    <2>1. /\ next.events # Gone /\ live.events = Gone
          /\ live' = [live EXCEPT !.events = next.events] /\ next' = [next EXCEPT !.events = Gone]
      BY <1>c DEF Areas
    <2>2. /\ live' \in Dirs /\ next' \in Dirs /\ live'.events # Gone /\ next'.events = Gone
          /\ live'.records = live.records /\ live'.audit = live.audit
          /\ next'.records = next.records /\ next'.audit = next.audit
          /\ QuietEvents(live'.events)
      BY <1>a, <2>1 DEF Dirs, CopiesQuiet
    <2> QED
      BY <1>a, <1>c, <2>1, <2>2 DEF TypeOK, CopiesQuiet, LiveFits, SwapFits, PlaceFits, StageFits, NoNext
  <1>d. CASE area = 3
    <2>1. /\ next.audit # Gone /\ live.audit = Gone
          /\ live' = [live EXCEPT !.audit = next.audit] /\ next' = [next EXCEPT !.audit = Gone]
      BY <1>d DEF Areas
    <2>2. /\ live' \in Dirs /\ next' \in Dirs /\ live'.audit # Gone /\ next'.audit = Gone
          /\ live'.records = live.records /\ live'.events = live.events
          /\ next'.records = next.records /\ next'.events = next.events
          /\ live'.audit.torn = None
      BY <1>a, <2>1 DEF Dirs, CopiesQuiet
    <2> QED
      BY <1>a, <1>d, <2>1, <2>2 DEF TypeOK, CopiesQuiet, LiveFits, SwapFits, PlaceFits, StageFits, NoNext
  <1> QED
    BY <1>a, <1>b, <1>c, <1>d

LEMMA InstallNextStep == ASSUME IInv, InstallNext PROVE IInv'
  <1> USE DEF IInv, InstallNext, Goto, disk

  <1>a. /\ marker # None /\ pc = "install" /\ staged /\ area \in 1..4
    BY DEF TypeOK, PlaceFits
  <1>b. /\ area' = area + 1 => area <= 3
        /\ area = 1 /\ area' = 2 => live.records # Gone /\ next.records = Gone
        /\ area = 2 /\ area' = 3 => live.events # Gone /\ next.events = Gone
        /\ area = 3 /\ area' = 4 => live.audit # Gone /\ next.audit = Gone
    BY <1>a DEF SwapFits, Areas
  <1>c. \/ pc' = "install" /\ area' = area + 1
        \/ pc' = "leftover" /\ area = 4 /\ area' = area
    BY <1>a
  <1>d. UNCHANGED <<live, next, previous, staged, leftovers, pending, marker, counters, backups, then, serving, boot, nextOp, acked, lapses, stops>>
    OBVIOUS
  <1> HIDE DEF InstallNext
  <1>1. TypeOK'
    BY <1>a, <1>b, <1>c, <1>d DEF TypeOK
  <1>2. CopiesQuiet'
    BY <1>a, <1>c, <1>d DEF CopiesQuiet
  <1>3. LiveFits'
    BY <1>d DEF LiveFits, AllLive
  <1>4. SwapFits'
    BY <1>d DEF SwapFits, NoNext, AllLive
  <1>5. PlaceFits'
    BY <1>a, <1>b, <1>c, <1>d DEF PlaceFits, NoNext
  <1>6. StageFits'
    BY <1>a, <1>c, <1>d DEF StageFits
  <1> QED
    BY <1>1, <1>2, <1>3, <1>4, <1>5, <1>6

LEMMA CommitRestoreStep == ASSUME IInv, CommitRestore PROVE IInv'
  <1> USE DEF IInv, CommitRestore, Goto, disk

  <1>a. marker \in Markers /\ marker # None /\ NoNext /\ AllLive /\ live \in Dirs
    BY DEF TypeOK, PlaceFits, SwapFits, NoNext, AllLive
  <1>b. marker.event \in Events /\ marker.event.log \in Logs /\ marker.counters \in Counts
    BY <1>a DEF Markers, Events
  <1>c. live.events \in EventsDir /\ live.events[marker.event.log] \in Log /\ live.audit \in Log
    BY <1>a, <1>b, DirsFields DEF AllLive, EventsDir
  <1>d. CASE pending # None
    BY <1>a, <1>d DEF TypeOK, CopiesQuiet, LiveFits, SwapFits, PlaceFits, StageFits, NoNext, AllLive
  <1>e. CASE pending = None
    <2>1. QuietEvents(live.events) /\ live.audit.torn = None
      BY <1>a, <1>e DEF LiveFits, AllLive
    <2>2. /\ pending'.event = marker.event
          /\ pending'.eventLogLength = Size(live.events[marker.event.log])
          /\ pending'.auditLogLength = Size(live.audit)
      BY <1>e DEF Intent
    <2>3. pending' \in Entries /\ pending' # None
      BY <1>b, <1>c, <1>e, SizeNat, SentinelsDiffer DEF Intent, Entries
    <2>4. /\ Fits(live.events[marker.event.log], Size(live.events[marker.event.log]), marker.event)
          /\ Fits(live.audit, Size(live.audit), marker.event)
      BY <1>b, <1>c, <2>1, IntentFits DEF QuietEvents
    <2>5. /\ pc = "leftover" /\ pc' = "record" /\ then' = "unstage"
          /\ UNCHANGED <<live, next, previous, staged, leftovers, marker, counters, backups, serving, area, boot, nextOp, acked, lapses, stops>>
      BY <1>e
    <2> HIDE DEF CommitRestore, Intent
    <2>6. TypeOK'
      BY <2>3, <2>5 DEF TypeOK
    <2>7. LiveFits'
      BY <1>a, <2>1, <2>2, <2>3, <2>4, <2>5 DEF LiveFits, AllLive, QuietEvents
    <2>8. CopiesQuiet' /\ SwapFits' /\ PlaceFits' /\ StageFits'
      BY <1>a, <2>3, <2>5 DEF CopiesQuiet, SwapFits, PlaceFits, StageFits, NoNext, AllLive
    <2> QED
      BY <2>6, <2>7, <2>8
  <1> QED
    BY <1>d, <1>e

LEMMA RemoveStageStep == ASSUME IInv, RemoveStage PROVE IInv'
  <1> USE DEF IInv, RemoveStage, SetAside, Goto, disk
  <1>1. TypeOK'
    <2>1. leftovers' \in Nat /\ lapses' \in Nat /\ stops' \in 0..MaxStops
      BY SMTT(30) DEF TypeOK, PlaceFits
    <2>2. /\ next' \in Dirs /\ previous' \in Dirs /\ staged' \in BOOLEAN /\ boot' \in BOOLEAN
          /\ UNCHANGED <<live, pending, marker, counters, backups, then, area, nextOp, acked>>
      BY NoDirsFields DEF TypeOK
    <2>3. pc' \in Places /\ serving' \in IF pc' \in ServePlaces \ {"ready"} THEN BackupIds ELSE Events \cup {None}
      BY DEF TypeOK
    <2> HIDE DEF RemoveStage, SetAside
    <2> QED
      BY <2>1, <2>2, <2>3 DEF TypeOK
  <1>2. CopiesQuiet'
    BY NoDirsFields DEF CopiesQuiet
  <1>3. LiveFits'
    BY DEF LiveFits, PlaceFits, AllLive
  <1>4. SwapFits'
    BY NoDirsFields DEF SwapFits, PlaceFits, NoNext, AllLive
  <1>5. PlaceFits'
    BY NoDirsFields DEF PlaceFits, SwapFits, NoNext, TypeOK
  <1>6. StageFits'
    BY DEF StageFits, PlaceFits, TypeOK
  <1> QED
    BY <1>1, <1>2, <1>3, <1>4, <1>5, <1>6

LEMMA PurgeStageStep == ASSUME IInv, PurgeStage PROVE IInv'
  <1> USE DEF IInv, PurgeStage, SetAside, Goto, disk
  <1>1. TypeOK'
    <2>1. leftovers' \in Nat /\ lapses' \in Nat /\ stops' \in 0..MaxStops
      BY SMTT(30) DEF TypeOK, PlaceFits
    <2>2. /\ next' \in Dirs /\ previous' \in Dirs /\ staged' \in BOOLEAN /\ boot' \in BOOLEAN
          /\ UNCHANGED <<live, pending, marker, counters, backups, then, area, nextOp, acked>>
      BY NoDirsFields DEF TypeOK
    <2>3. pc' \in Places /\ serving' \in IF pc' \in ServePlaces \ {"ready"} THEN BackupIds ELSE Events \cup {None}
      BY DEF TypeOK
    <2> HIDE DEF PurgeStage, SetAside
    <2> QED
      BY <2>1, <2>2, <2>3 DEF TypeOK
  <1>2. CopiesQuiet'
    BY NoDirsFields DEF CopiesQuiet
  <1>3. LiveFits'
    BY DEF LiveFits, PlaceFits, AllLive
  <1>4. SwapFits'
    BY NoDirsFields DEF SwapFits, PlaceFits, NoNext, AllLive
  <1>5. PlaceFits'
    BY NoDirsFields DEF PlaceFits, SwapFits, NoNext, TypeOK
  <1>6. StageFits'
    BY DEF StageFits, PlaceFits, TypeOK
  <1> QED
    BY <1>1, <1>2, <1>3, <1>4, <1>5, <1>6

LEMMA AbandonStageStep == ASSUME IInv, AbandonStage PROVE IInv'
  <1> USE DEF IInv, AbandonStage, SetAside, Goto, disk
  <1>1. TypeOK'
    <2>1. leftovers' \in Nat /\ lapses' \in Nat /\ stops' \in 0..MaxStops
      BY SMTT(30) DEF TypeOK, PlaceFits
    <2>2. /\ next' \in Dirs /\ previous' \in Dirs /\ staged' \in BOOLEAN /\ boot' \in BOOLEAN
          /\ UNCHANGED <<live, pending, marker, counters, backups, then, area, nextOp, acked>>
      BY NoDirsFields DEF TypeOK
    <2>3. pc' \in Places /\ serving' \in IF pc' \in ServePlaces \ {"ready"} THEN BackupIds ELSE Events \cup {None}
      BY DEF TypeOK
    <2> HIDE DEF AbandonStage, SetAside
    <2> QED
      BY <2>1, <2>2, <2>3 DEF TypeOK
  <1>2. CopiesQuiet'
    BY NoDirsFields DEF CopiesQuiet
  <1>3. LiveFits'
    BY DEF LiveFits, PlaceFits, AllLive
  <1>4. SwapFits'
    BY NoDirsFields DEF SwapFits, PlaceFits, NoNext, AllLive
  <1>5. PlaceFits'
    BY NoDirsFields DEF PlaceFits, SwapFits, NoNext, TypeOK
  <1>6. StageFits'
    BY DEF StageFits, PlaceFits, TypeOK
  <1> QED
    BY <1>1, <1>2, <1>3, <1>4, <1>5, <1>6

LEMMA RemoveMarkerStep == ASSUME IInv, RemoveMarker PROVE IInv'
  <1> USE DEF IInv, RemoveMarker, Goto, disk
  <1>1. TypeOK'
    BY DEF TypeOK, PlaceFits
  <1>2. CopiesQuiet'
    BY DEF CopiesQuiet, TypeOK
  <1>3. LiveFits'
    BY DEF LiveFits, PlaceFits, AllLive
  <1>4. SwapFits'
    BY DEF SwapFits, PlaceFits, NoNext, AllLive
  <1>5. PlaceFits'
    BY DEF PlaceFits, SwapFits, StageFits, NoNext
  <1>6. StageFits'
    BY DEF StageFits, PlaceFits, TypeOK
  <1> QED
    BY <1>1, <1>2, <1>3, <1>4, <1>5, <1>6

LEMMA CrashStep == ASSUME IInv, Crash PROVE IInv'
  <1> USE DEF IInv, Crash, Goto, disk
  <1>a. stops' \in 0..MaxStops
    BY BoundsAreNaturals DEF TypeOK
  <1>b. pc' \in {"down", "idle"} /\ serving' = None /\ boot' = FALSE
    OBVIOUS
  <1>1. TypeOK'
    BY <1>a, <1>b DEF TypeOK
  <1>2. CopiesQuiet'
    BY DEF CopiesQuiet, TypeOK
  <1>3. LiveFits'
    BY DEF LiveFits, PlaceFits, AllLive
  <1>4. SwapFits'
    BY DEF SwapFits, PlaceFits, NoNext, AllLive
  <1>5. PlaceFits'
    BY DEF PlaceFits, SwapFits, StageFits, NoNext
  <1>6. StageFits'
    BY DEF StageFits, PlaceFits, TypeOK
  <1> QED
    BY <1>1, <1>2, <1>3, <1>4, <1>5, <1>6

LEMMA FaultStep == ASSUME IInv, Fault PROVE IInv'
  <1> USE DEF IInv, Fault, SetAside, Goto, disk
  <1>a. stops' \in 0..MaxStops
    BY BoundsAreNaturals DEF TypeOK
  <1>b. pc' \in {"down", "idle", "abort"} /\ serving' = None /\ boot' = FALSE
    OBVIOUS
  <1>1. TypeOK'
    <2>1. leftovers' \in Nat /\ lapses' \in Nat /\ stops' \in 0..MaxStops
      BY <1>a, SMTT(30) DEF TypeOK, PlaceFits
    <2>2. /\ next' \in Dirs /\ previous' \in Dirs /\ staged' \in BOOLEAN /\ boot' \in BOOLEAN
          /\ UNCHANGED <<live, pending, marker, counters, backups, then, area, nextOp, acked>>
      BY NoDirsFields DEF TypeOK
    <2>3. pc' \in Places /\ serving' \in IF pc' \in ServePlaces \ {"ready"} THEN BackupIds ELSE Events \cup {None}
      BY DEF TypeOK
    <2> HIDE DEF Fault, SetAside
    <2> QED
      BY <2>1, <2>2, <2>3 DEF TypeOK
  <1>2. CopiesQuiet'
    BY NoDirsFields DEF CopiesQuiet
  <1>3. LiveFits'
    BY DEF LiveFits, PlaceFits, AllLive
  <1>4. SwapFits'
    BY NoDirsFields DEF SwapFits, PlaceFits, NoNext, AllLive
  <1>5. PlaceFits'
    BY NoDirsFields DEF PlaceFits, SwapFits, NoNext, TypeOK
  <1>6. StageFits'
    BY DEF StageFits, PlaceFits, TypeOK
  <1> QED
    BY <1>1, <1>2, <1>3, <1>4, <1>5, <1>6

-----------------------------------------------------------------------------
(* The invariant holds in every reachable state *)

LEMMA NextInv == IInv /\ [Next]_vars => IInv'
  <1> SUFFICES ASSUME IInv, [Next]_vars PROVE IInv'
    OBVIOUS
  <1>1. CASE EnsureReady \/ Start
    BY <1>1, EnsureReadyStep, StartStep
  <1>2. CASE Recover
    BY <1>2, RecoverRestoreStep, RecoverPendingStep, CleanTemporariesStep DEF Recover
  <1>3. CASE Apply
    BY <1>3, ApplyRecordStep, ApplyEventStep, ApplyAuditStep, ApplyCountersStep, ClearPendingStep DEF Apply
  <1>4. CASE Reply
    BY <1>4, ReplyStep
  <1>5. CASE Request
    BY <1>5, CreateStep, MutateStep, DeleteStep, AppendEventStep, CopyRecordsStep, StageRestoreStep,
       ReadOrRefuseStep DEF Request
  <1>6. CASE BackupStep
    BY <1>6, CopyEventsStep, CopyAuditStep, WriteManifestStep, NoteBackupStep DEF BackupStep
  <1>7. CASE RestoreStep
    BY <1>7, FillStageStep, WriteMarkerStep, MoveOutStep, MoveInStep, InstallNextStep,
       CommitRestoreStep, RemoveStageStep, PurgeStageStep, RemoveMarkerStep, AbandonStageStep DEF RestoreStep
  <1>8. CASE Crash \/ Fault
    BY <1>8, CrashStep, FaultStep
  <1>9. CASE UNCHANGED vars
    BY <1>9 DEF vars, IInv, TypeOK, CopiesQuiet, LiveFits, SwapFits, PlaceFits, StageFits, AllLive, NoNext
  <1> QED
    BY <1>1, <1>2, <1>3, <1>4, <1>5, <1>6, <1>7, <1>8, <1>9 DEF Next

THEOREM Invariance == Spec => []IInv
  BY InitInv, NextInv, PTL DEF Spec

\* The state on disk and in the process keeps its shape through every operation,
\* backup, restore, crash and fault.
THEOREM TypeCorrect == Spec => []TypeOK
  <1>1. IInv => TypeOK
    BY DEF IInv
  <1> QED
    BY <1>1, Invariance, PTL

\* ensureEvent can always continue the log it finds: recovery never throws a
\* length or content conflict over what the store's own stops left behind.
THEOREM JournalAlwaysApplies == Spec => []JournalApplies
  <1>1. IInv => JournalApplies
    <2> SUFFICES ASSUME IInv, pc \in {"event", "audit"} PROVE JournalApplies
      BY DEF JournalApplies
    <2>1. pending \in Entries /\ AllLive /\ live \in Dirs
      BY DEF IInv, TypeOK, PlaceFits, LiveFits
    <2>2. /\ pending.event \in Events /\ pending.event.log \in Logs
          /\ pending.eventLogLength \in Nat /\ pending.auditLogLength \in Nat
      BY <2>1 DEF Entries, Events
    <2>3. live.events[pending.event.log] \in Log /\ live.audit \in Log
      BY <2>1, <2>2, DirsFields DEF AllLive, EventsDir
    <2>4. /\ Fits(live.events[pending.event.log], pending.eventLogLength, pending.event)
          /\ Fits(live.audit, pending.auditLogLength, pending.event)
      BY DEF IInv, LiveFits, PlaceFits
    <2> QED
      BY <2>2, <2>3, <2>4, FitsApplies DEF JournalApplies
  <1> QED
    BY <1>1, Invariance, PTL

\* A request meets no journal entry, no restore marker, no missing area and no
\* torn line, whatever was interrupted before it.
THEOREM ServesWhole == Spec => []ServesWholeState
  <1>1. IInv => ServesWholeState
    <2> SUFFICES ASSUME IInv, pc \in ServePlaces PROVE ServesWholeState
      BY DEF ServesWholeState
    <2>1. pending = None /\ marker = None /\ AllLive /\ live \in Dirs
      BY DEF IInv, TypeOK, PlaceFits, SwapFits
    <2>2. QuietEvents(live.events) /\ live.audit.torn = None
      BY <2>1 DEF IInv, LiveFits, AllLive
    <2>3. \A l \in Logs : live.events[l] \in Log
      BY <2>1, DirsFields DEF AllLive, EventsDir
    <2> QED
      BY <2>1, <2>2, <2>3, SentinelsDiffer DEF ServesWholeState, Whole, AllLive, QuietEvents
  <1> QED
    BY <1>1, Invariance, PTL

\* Outside a restore, once the process serves requests, the journal directory holds
\* copies of restored or of replaced records only for calls of this process that failed
\* while they made or removed a stage: no stop and no other failure leaves one.
THEOREM NoStageRemains == Spec => []NoStageLeftBehind
  <1>1. IInv => NoStageLeftBehind
    BY DEF IInv, StageFits, NoStageLeftBehind
  <1> QED
    BY <1>1, Invariance, PTL

-----------------------------------------------------------------------------
(* JsonStore implements RecordLog.                                         *)

\* The counters that counters.json will hold once nothing is owed.
CountersDue == IF pending # None THEN pending.counters
               ELSE IF marker # None THEN marker.counters ELSE counters

\* What the callers of the store are shown, whatever is half done on disk.
Shown == <<EffectiveRecords, EffectiveLogs, EffectiveAudit, ListedBackups, CountersDue>>

\* A log contains e, contains e so many times, has no event numbered above n.
Holds(lines, e)  == \E k \in 1..Len(lines) : lines[k] = e
Times(lines, e)  == Cardinality({k \in 1..Len(lines) : lines[k] = e})
Within(lines, n) == \A k \in 1..Len(lines) : lines[k].n <= n

\* The logs of the records and the audit stream hold the same events equally often;
\* none of them has an operation id that was not yet handed out.
LinesAgree(logs, audit)  == \A e \in Events : Times(logs[e.log], e) = Times(audit, e)
LinesOld(logs, audit, n) == Within(audit, n) /\ \A l \in Logs : Within(logs[l], n)

\* The entry that a restore journals is the one its marker announced, and it is
\* on disk, with its counters, before the marker goes.
RestoreFits ==
  /\ marker # None => marker.event.log = System
  /\ marker # None /\ pending # None =>
       pending.event = marker.event /\ pending.record = Keep /\ pending.counters = marker.counters
  /\ (pc \in {"unstage", "unmark"} \/ (pc = "purge" /\ marker # None)) =>
       /\ EndsWith(live.audit, marker.event) /\ EndsWith(live.events[System], marker.event)
       /\ counters = marker.counters

\* The record and the counters of an entry are written before the steps after them.
EntryFits ==
  /\ pending # None /\ pending.record # Keep => pending.event.log \in Ids
  /\ pc \in {"event", "audit", "counters", "clear"} /\ pending.record # Keep =>
       live.records[pending.event.log] = pending.record
  /\ pc = "clear" => counters = pending.counters

\* Nothing changes the live areas while a backup copies them, nor the backup while
\* a restore stages it; a manifest names the records of its backup.
BackupFits ==
  /\ pc \in {"copyEvents", "copyAudit", "manifest"} =>
       backups[serving].manifest = None /\ backups[serving].records = live.records
  /\ pc \in {"copyAudit", "manifest"} => backups[serving].events = live.events
  /\ pc = "manifest" => backups[serving].audit = live.audit
  /\ pc = "mark" =>
       /\ backups[serving].manifest # None
       /\ next.records = backups[serving].records
       /\ next.events = backups[serving].events
       /\ next.audit = backups[serving].audit
  /\ \A b \in BackupIds : backups[b].manifest # None => backups[b].manifest = Present(backups[b].records)

WorkFits == RestoreFits /\ EntryFits /\ BackupFits

\* No event shown, live or in a listed backup, has an id still to be handed out.
OldFits ==
  /\ LinesOld(EffectiveLogs, EffectiveAudit, nextOp)
  /\ \A b \in BackupIds : ~ListedBackups[b].none =>
       LinesOld(ListedBackups[b].logs, ListedBackups[b].audit, nextOp)

\* Record logs and audit stream agree, live and in every listed backup.
AgreeFits ==
  /\ LinesAgree(EffectiveLogs, EffectiveAudit)
  /\ \A b \in BackupIds : ~ListedBackups[b].none =>
       LinesAgree(ListedBackups[b].logs, ListedBackups[b].audit)

\* The counters in hand count the records and the events shown.
CountersFit ==
  CountersDue = [records |-> Cardinality(Present(EffectiveRecords)), events |-> Len(EffectiveAudit)]

\* What was answered is in the audit stream shown, and so is what is being answered.
AnswersFit ==
  /\ \A e \in acked : Holds(EffectiveAudit, e)
  /\ (pc \in ApplyPlaces \cup {"reply", "install", "leftover", "unstage", "purge", "unmark"} /\ serving # None) =>
       Holds(EffectiveAudit, serving)

ContentFits == OldFits /\ AgreeFits /\ CountersFit /\ AnswersFit

\* The inductive invariant.
CInv == IInv /\ WorkFits /\ ContentFits

USE DEF Places, ServePlaces, ApplyPlaces
-----------------------------------------------------------------------------
(* What is shown, and its types                                             *)

\* An area is live or waits in the stage of a marked restore.
LEMMA SettledTypes ==
  ASSUME IInv
  PROVE  /\ Settled("records") \in RecordsDir
         /\ Settled("events") \in EventsDir
         /\ Settled("audit") \in Log
  <1>1. live \in Dirs /\ next \in Dirs
    BY DEF IInv, TypeOK
  <1>2. /\ live.records = Gone => marker # None /\ next.records # Gone
        /\ live.events = Gone => marker # None /\ next.events # Gone
        /\ live.audit = Gone => marker # None /\ next.audit # Gone
    BY DEF IInv, SwapFits, AllLive
  <1> QED
    BY <1>1, <1>2, DirsFields DEF Settled

\* Without a marker, or with an empty stage, the areas are the live ones.
LEMMA SettledLive ==
  ASSUME IInv, marker = None \/ NoNext
  PROVE  /\ Settled("records") = live.records
         /\ Settled("events") = live.events
         /\ Settled("audit") = live.audit
  BY DEF Settled, NoNext

LEMMA OwedTypes ==
  ASSUME IInv
  PROVE  Owed \in Events \cup {None}
  BY DEF IInv, TypeOK, Owed, Entries, Markers

\* The line still owed to one log.
OwedBy(l) == IF Owed # None /\ Owed.log = l THEN Owed ELSE None

LEMMA LogsPointwise ==
  /\ EffectiveLogs = [l \in Logs |-> EffectiveLogs[l]]
  /\ \A l \in Logs : EffectiveLogs[l] = LinesWith(Settled("events")[l], OwedBy(l))
  BY DEF EffectiveLogs, OwedBy

LEMMA LinesWithTypes ==
  ASSUME NEW log \in Log, NEW e \in Events \cup {None}
  PROVE  LinesWith(log, e) \in Seq(Events)
  BY DEF LinesWith, Log

LEMMA EffectiveTypes ==
  ASSUME IInv
  PROVE  /\ EffectiveAudit \in Seq(Events)
         /\ EffectiveLogs \in [Logs -> Seq(Events)]
  <1>1. \A l \in Logs : Settled("events")[l] \in Log /\ OwedBy(l) \in Events \cup {None}
    BY SettledTypes, OwedTypes DEF EventsDir, OwedBy
  <1>2. \A l \in Logs : EffectiveLogs[l] \in Seq(Events)
    BY <1>1, LogsPointwise, LinesWithTypes
  <1> QED
    BY <1>2, LogsPointwise, SettledTypes, OwedTypes, LinesWithTypes DEF EffectiveAudit

-----------------------------------------------------------------------------
(* Steps that change nothing on disk *)

LEMMA LayoutKeeps == ASSUME IInv, marker = None PROVE Layout(live) = live
  <1>1. AllLive /\ live \in Dirs
    BY DEF IInv, SwapFits, TypeOK
  <1> QED
    BY <1>1, DirsFields DEF Layout, AllLive

StillMove == EnsureReady \/ Start \/ RecoverRestore \/ RecoverPending \/ ReadOrRefuse \/ Reply \/ InstallNext \/ Crash

LEMMA StillDisk == ASSUME IInv, StillMove PROVE UNCHANGED <<disk, nextOp>>
  <1>1. RecoverRestore => live' = live
    BY LayoutKeeps DEF RecoverRestore
  <1> QED
    BY <1>1 DEF StillMove, EnsureReady, Start, RecoverRestore, RecoverPending, ReadOrRefuse, Reply,
                InstallNext, Crash, disk

LEMMA SameDisk == ASSUME UNCHANGED disk PROVE UNCHANGED Shown
  BY DEF disk, Shown, EffectiveRecords, EffectiveLogs, EffectiveAudit, ListedBackups, CountersDue,
         Settled, Owed

LEMMA StillWork == ASSUME IInv, WorkFits, StillMove PROVE WorkFits'
  <1> USE DEF WorkFits
  <1>1. UNCHANGED disk
    BY StillDisk
  <1>2. /\ pc' \notin {"unstage", "purge", "unmark", "event", "audit", "counters", "clear"}
        /\ pc' \notin {"copyEvents", "copyAudit", "manifest", "mark"}
    BY DEF StillMove, EnsureReady, Start, RecoverRestore, RecoverPending, ReadOrRefuse, Reply,
           InstallNext, Crash, Goto
  <1>3. RestoreFits'
    BY <1>1, <1>2 DEF RestoreFits, disk
  <1>4. EntryFits'
    BY <1>1, <1>2 DEF EntryFits, disk
  <1>5. BackupFits'
    BY <1>1, <1>2 DEF BackupFits, disk
  <1> QED
    BY <1>3, <1>4, <1>5

-----------------------------------------------------------------------------
(* Steps that make the stage or sweep it away *)

SweepMove ==
  \/ CleanTemporaries \/ Fault \/ RemoveStage \/ PurgeStage \/ AbandonStage
  \/ \E b \in BackupIds : StageRestore(b)

LEMMA SweepSettled ==
  ASSUME IInv, SweepMove
  PROVE  /\ Settled("records")' = Settled("records")
         /\ Settled("events")' = Settled("events")
         /\ Settled("audit")' = Settled("audit")
         /\ UNCHANGED <<live, pending, marker, counters, backups, nextOp>>
  <1>1. UNCHANGED <<live, pending, marker, counters, backups, nextOp>>
    BY DEF SweepMove, CleanTemporaries, SetAside, Fault, RemoveStage, PurgeStage, AbandonStage, StageRestore
  <1>2. \/ next' = next
        \/ marker = None
        \/ NoNext /\ next' = NoDirs
    BY DEF IInv, PlaceFits, SweepMove, CleanTemporaries, SetAside, Fault, RemoveStage, PurgeStage, AbandonStage, StageRestore
  <1> QED
    BY <1>1, <1>2, NoDirsFields DEF Settled, NoNext

LEMMA SweepShown == ASSUME IInv, SweepMove PROVE UNCHANGED Shown /\ nextOp' = nextOp
  BY SweepSettled DEF Shown, EffectiveRecords, EffectiveLogs, EffectiveAudit, ListedBackups,
     CountersDue, Owed

LEMMA SweepWork == ASSUME IInv, WorkFits, SweepMove PROVE WorkFits'
  <1> USE DEF WorkFits
  <1>1. UNCHANGED <<live, pending, marker, counters, backups>>
    BY SweepSettled
  <1>2. /\ pc' \notin {"event", "audit", "counters", "clear"}
        /\ pc' \notin {"copyEvents", "copyAudit", "manifest", "mark"}
        /\ pc' = "unmark" => pc = "unstage" \/ (pc = "purge" /\ marker # None)
        /\ pc' = "purge" /\ marker # None => pc = "unstage"
        /\ pc' # "unstage"
    BY DEF IInv, PlaceFits, SweepMove, CleanTemporaries, SetAside, Fault, RemoveStage, PurgeStage, AbandonStage,
           StageRestore, Goto
  <1>3. RestoreFits'
    BY <1>1, <1>2 DEF RestoreFits
  <1>4. EntryFits'
    BY <1>1, <1>2 DEF EntryFits
  <1>5. BackupFits'
    BY <1>1, <1>2 DEF BackupFits
  <1> QED
    BY <1>3, <1>4, <1>5

-----------------------------------------------------------------------------
(* Steps that apply the entry in the journal *)

\* While an entry is applied the live areas are the settled ones.
LEMMA ApplyPlace ==
  ASSUME IInv, pc \in ApplyPlaces
  PROVE  /\ pending \in Entries /\ pending # None /\ pending.event \in Events /\ pending.event.log \in Logs
         /\ live \in Dirs /\ AllLive
         /\ live.records \in RecordsDir /\ live.events \in EventsDir /\ live.audit \in Log
         /\ marker = None \/ NoNext
         /\ Owed = pending.event /\ Owed # None
  <1>1. pending \in Entries /\ pending # None /\ live \in Dirs /\ AllLive
    BY DEF IInv, TypeOK, PlaceFits, LiveFits
  <1>2. pending.event \in Events /\ pending.event.log \in Logs
    BY <1>1 DEF Entries, Events
  <1>3. live.records \in RecordsDir /\ live.events \in EventsDir /\ live.audit \in Log
    BY <1>1, DirsFields DEF AllLive
  <1>4. marker = None \/ NoNext
    BY <1>1 DEF IInv, SwapFits
  <1> QED
    BY <1>1, <1>2, <1>3, <1>4, SentinelsDiffer DEF Owed

\* A piece of the owed line changes nothing of what the log holds with it.
LEMMA ExtendedShows ==
  ASSUME NEW log \in Log, NEW e \in Events, NEW before \in Nat, Fits(log, before, e), ~EndsWith(log, e)
  PROVE  LinesWith(Extended(log, e), e) = LinesWith(log, e)
  <1>1. e # None
    BY SentinelsDiffer
  <1>2. CASE log.torn = e
    <2>1. Extended(log, e).lines = Append(log.lines, e) /\ Extended(log, e).torn = None
      BY <1>2 DEF Extended
    <2>2. EndsWith(Extended(log, e), e)
      BY <2>1 DEF EndsWith, Log
    <2> QED
      BY <1>1, <2>1, <2>2 DEF LinesWith
  <1>3. CASE log.torn # e
    <2>1. Extended(log, e).lines = log.lines /\ Extended(log, e).torn = e
      BY <1>3 DEF Extended, Log
    <2>2. ~EndsWith(Extended(log, e), e)
      BY <1>1, <2>1 DEF EndsWith
    <2> QED
      BY <1>1, <2>1, <2>2 DEF LinesWith
  <1> QED
    BY <1>2, <1>3

\* Writing the record, a piece of a line or the counters of the entry shows nothing
\* new: the entry was shown when it was published.
LEMMA ApplyRecordShown ==
  ASSUME IInv, WorkFits, ApplyRecord
  PROVE  UNCHANGED <<Shown, nextOp>> /\ WorkFits'
  <1>1. pc = "record" /\ pc' = "event"
        /\ UNCHANGED <<next, previous, staged, leftovers, pending, marker, counters, backups, then, serving, area, boot, nextOp, acked, lapses, stops>>
    BY DEF ApplyRecord, Goto
  <1>2. /\ pending \in Entries /\ live \in Dirs /\ live.records \in RecordsDir
        /\ pending # None /\ (marker = None \/ NoNext)
    BY <1>1, ApplyPlace
  <1>3. pending.record # Keep => pending.event.log \in Ids
    BY <1>2 DEF WorkFits, EntryFits
  <1>4. /\ live'.events = live.events /\ live'.audit = live.audit
        /\ pending.record = Keep => live'.records = live.records
        /\ pending.record # Keep => live'.records = [live.records EXCEPT ![pending.event.log] = pending.record]
    BY <1>2 DEF ApplyRecord, Dirs
  <1>5. live'.records # Gone /\ live.records # Gone
    BY <1>2, <1>3, <1>4, SentinelsDiffer DEF RecordsDir, Entries
  <1>6. /\ Settled("records") = live.records /\ Settled("records")' = live'.records
        /\ Settled("events")' = Settled("events")
        /\ Settled("audit")' = Settled("audit")
    BY <1>1, <1>2, <1>4 DEF Settled, NoNext
  <1>7. pending.record # Keep => live'.records[pending.event.log] = pending.record
    BY <1>2, <1>3, <1>4 DEF RecordsDir
  <1>8. EffectiveRecords' = EffectiveRecords
    <2>1. EffectiveRecords' = IF pending.record = Keep THEN live'.records
                              ELSE [live'.records EXCEPT ![pending.event.log] = pending.record]
      BY <1>1, <1>2, <1>6 DEF EffectiveRecords
    <2>2. EffectiveRecords = IF pending.record = Keep THEN live.records
                              ELSE [live.records EXCEPT ![pending.event.log] = pending.record]
      BY <1>2, <1>6 DEF EffectiveRecords
    <2> QED
      BY <2>1, <2>2, <1>2, <1>3, <1>4 DEF RecordsDir
  <1>9. UNCHANGED <<EffectiveLogs, EffectiveAudit, ListedBackups, CountersDue>>
    BY <1>1, <1>6 DEF EffectiveLogs, EffectiveAudit, ListedBackups, CountersDue, Owed
  <1>10. WorkFits'
    BY <1>1, <1>4, <1>7 DEF WorkFits, RestoreFits, EntryFits, BackupFits
  <1> QED
    BY <1>1, <1>8, <1>9, <1>10 DEF Shown

LEMMA ApplyEventShown ==
  ASSUME IInv, WorkFits, ApplyEvent
  PROVE  UNCHANGED <<Shown, nextOp>> /\ WorkFits'
  <1>1. pc = "event" /\ pc' \in {"event", "audit"}
        /\ UNCHANGED <<next, previous, staged, leftovers, pending, marker, counters, backups, then, serving, area, boot, nextOp, acked, lapses, stops>>
    BY DEF ApplyEvent, Goto
  <1> DEFINE e == pending.event
             log == live.events[e.log]
  <1>2. /\ pending \in Entries /\ live \in Dirs /\ live.events \in EventsDir /\ log \in Log
        /\ e \in Events /\ e.log \in Logs /\ Owed = e /\ Owed # None
        /\ pending # None /\ (marker = None \/ NoNext) /\ live.events # Gone
    BY <1>1, ApplyPlace DEF EventsDir, AllLive
  <1>3. Fits(log, pending.eventLogLength, e) /\ pending.eventLogLength \in Nat
    BY <1>2 DEF IInv, LiveFits, Entries
  <1>4. /\ live'.records = live.records /\ live'.audit = live.audit
        /\ live'.events # Gone
        /\ live'.events = live.events \/ live'.events = [live.events EXCEPT ![e.log] = Extended(log, e)]
        /\ live'.events # live.events => ~EndsWith(log, e)
    <2>1. CASE EndsWith(log, e)
      BY <2>1, <1>2 DEF ApplyEvent
    <2>2. CASE ~EndsWith(log, e)
      <3>1. live' = [live EXCEPT !.events[e.log] = Extended(log, e)]
        BY <2>2 DEF ApplyEvent
      <3>2. Extended(log, e) \in Log
        BY <2>2, <1>2, <1>3, ExtendedFits
      <3>3. live'.events = [live.events EXCEPT ![e.log] = Extended(log, e)]
        BY <3>1, <1>2 DEF Dirs
      <3>4. live'.events \in EventsDir
        BY <3>2, <3>3, <1>2 DEF EventsDir
      <3> QED
        BY <2>2, <3>1, <3>3, <3>4, <1>2, SentinelsDiffer DEF Dirs
    <2> QED
      BY <2>1, <2>2
  <1>5. /\ Settled("events") = live.events /\ Settled("events")' = live'.events
        /\ Settled("records")' = Settled("records")
        /\ Settled("audit")' = Settled("audit")
        /\ Owed' = Owed
    BY <1>1, <1>2, <1>4 DEF Settled, NoNext, Owed
  <1>6. \A l \in Logs : EffectiveLogs'[l] = EffectiveLogs[l]
    <2>1. TAKE l \in Logs
    <2>2. EffectiveLogs[l] = LinesWith(live.events[l], IF e.log = l THEN e ELSE None)
      BY <1>2, <1>5 DEF EffectiveLogs
    <2>3. EffectiveLogs'[l] = LinesWith(live'.events[l], IF e.log = l THEN e ELSE None)
      BY <1>2, <1>5 DEF EffectiveLogs
    <2>4. l # e.log => live'.events[l] = live.events[l]
      BY <1>2, <1>4 DEF EventsDir
    <2>5. \/ live'.events[e.log] = log
          \/ live'.events[e.log] = Extended(log, e) /\ ~EndsWith(log, e)
      BY <1>2, <1>4 DEF EventsDir
    <2>6. CASE l # e.log
      BY <2>2, <2>3, <2>4, <2>6
    <2>7. CASE l = e.log
      BY <2>2, <2>3, <2>5, <2>7, <1>2, <1>3, ExtendedShows
    <2> QED
      BY <2>6, <2>7
  <1>7. EffectiveLogs' = EffectiveLogs
    BY <1>6 DEF EffectiveLogs
  <1>8. UNCHANGED <<EffectiveRecords, EffectiveAudit, ListedBackups, CountersDue>>
    BY <1>1, <1>5 DEF EffectiveRecords, EffectiveAudit, ListedBackups, CountersDue
  <1>9. WorkFits'
    BY <1>1, <1>4 DEF WorkFits, RestoreFits, EntryFits, BackupFits
  <1> QED
    BY <1>1, <1>7, <1>8, <1>9 DEF Shown

LEMMA ApplyAuditShown ==
  ASSUME IInv, WorkFits, ApplyAudit
  PROVE  UNCHANGED <<Shown, nextOp>> /\ WorkFits'
  <1>1. pc = "audit" /\ pc' \in {"audit", "counters"}
        /\ UNCHANGED <<next, previous, staged, leftovers, pending, marker, counters, backups, then, serving, area, boot, nextOp, acked, lapses, stops>>
    BY DEF ApplyAudit, Goto
  <1> DEFINE e == pending.event
  <1>2. /\ pending \in Entries /\ live \in Dirs /\ live.audit \in Log
        /\ e \in Events /\ Owed = e /\ Owed # None
        /\ pending # None /\ (marker = None \/ NoNext) /\ live.audit # Gone
    BY <1>1, ApplyPlace DEF AllLive
  <1>3. Fits(live.audit, pending.auditLogLength, e) /\ pending.auditLogLength \in Nat
    BY <1>2 DEF IInv, LiveFits, Entries
  <1>4. /\ live'.records = live.records /\ live'.events = live.events
        /\ live'.audit # Gone
        /\ \/ live'.audit = live.audit
           \/ live'.audit = Extended(live.audit, e) /\ ~EndsWith(live.audit, e)
    <2>1. CASE EndsWith(live.audit, e)
      BY <2>1, <1>2 DEF ApplyAudit
    <2>2. CASE ~EndsWith(live.audit, e)
      <3>1. live' = [live EXCEPT !.audit = Extended(live.audit, e)]
        BY <2>2 DEF ApplyAudit
      <3>2. Extended(live.audit, e) \in Log
        BY <2>2, <1>2, <1>3, ExtendedFits
      <3> QED
        BY <2>2, <3>1, <3>2, <1>2, SentinelsDiffer DEF Dirs
    <2> QED
      BY <2>1, <2>2
  <1>5. /\ Settled("audit") = live.audit /\ Settled("audit")' = live'.audit
        /\ Settled("records")' = Settled("records")
        /\ Settled("events")' = Settled("events")
        /\ Owed' = Owed
    BY <1>1, <1>2, <1>4 DEF Settled, NoNext, Owed
  <1>6. EffectiveAudit' = EffectiveAudit
    <2>1. EffectiveAudit = LinesWith(live.audit, e) /\ EffectiveAudit' = LinesWith(live'.audit, e)
      BY <1>2, <1>5 DEF EffectiveAudit
    <2> QED
      BY <2>1, <1>2, <1>3, <1>4, ExtendedShows
  <1>7. UNCHANGED <<EffectiveRecords, EffectiveLogs, ListedBackups, CountersDue>>
    BY <1>1, <1>5 DEF EffectiveRecords, EffectiveLogs, ListedBackups, CountersDue
  <1>8. WorkFits'
    BY <1>1, <1>4 DEF WorkFits, RestoreFits, EntryFits, BackupFits
  <1> QED
    BY <1>1, <1>6, <1>7, <1>8 DEF Shown

LEMMA ApplyCountersShown ==
  ASSUME IInv, WorkFits, ApplyCounters
  PROVE  UNCHANGED <<Shown, nextOp>> /\ WorkFits'
  <1>1. pending # None
    BY ApplyPlace DEF ApplyCounters
  <1>2. UNCHANGED <<EffectiveRecords, EffectiveLogs, EffectiveAudit, ListedBackups, CountersDue>>
    BY <1>1 DEF ApplyCounters, EffectiveRecords, EffectiveLogs, EffectiveAudit, ListedBackups, CountersDue,
                Settled, Owed
  <1>3. WorkFits'
    BY DEF ApplyCounters, Goto, WorkFits, RestoreFits, EntryFits, BackupFits
  <1> QED
    BY <1>2, <1>3 DEF Shown, ApplyCounters

\* What the entry owed is on disk when it is removed.
LEMMA ClearPendingShown ==
  ASSUME IInv, WorkFits, ClearPending
  PROVE  UNCHANGED <<Shown, nextOp>> /\ WorkFits'
  <1>1. /\ pc = "clear" /\ pc' = then /\ pending' = None
        /\ UNCHANGED <<live, next, previous, staged, leftovers, marker, counters, backups, then, serving, area, boot, nextOp, acked, lapses, stops>>
    BY DEF ClearPending, Goto
  <1> DEFINE e == pending.event
  <1>2. /\ pending \in Entries /\ live \in Dirs /\ live.audit \in Log /\ live.events \in EventsDir
        /\ live.records \in RecordsDir
        /\ e \in Events /\ e.log \in Logs /\ Owed = e /\ Owed # None
        /\ pending # None /\ (marker = None \/ NoNext)
    BY <1>1, ApplyPlace
  <1>3. EndsWith(live.events[e.log], e) /\ EndsWith(live.audit, e)
    BY <1>1 DEF IInv, PlaceFits
  <1>4. marker # None =>
          /\ pending.event = marker.event /\ marker.event.log = System
          /\ pending.record = Keep /\ pending.counters = marker.counters
    BY <1>2 DEF WorkFits, RestoreFits
  <1>5. /\ then \in {"recovering", "reply", "leftover", "unstage"}
        /\ then = "unstage" => marker # None
    BY <1>1 DEF IInv, TypeOK, PlaceFits
  <1>6. Owed' \in {None, e}
    BY <1>1, <1>4 DEF Owed
  <1>7. /\ Settled("records") = live.records /\ Settled("events") = live.events /\ Settled("audit") = live.audit
        /\ Settled("records")' = live.records /\ Settled("events")' = live.events /\ Settled("audit")' = live.audit
    BY <1>1, <1>2 DEF Settled, NoNext
  <1>8. EffectiveRecords' = EffectiveRecords
    <2>1. pending.record # Keep => live.records[e.log] = pending.record /\ e.log \in Ids
      BY <1>1, <1>2 DEF WorkFits, EntryFits
    <2>2. EffectiveRecords' = live.records
      BY <1>1, <1>7 DEF EffectiveRecords
    <2> QED
      BY <2>1, <2>2, <1>2, <1>7 DEF EffectiveRecords, RecordsDir
  <1>9. EffectiveAudit' = EffectiveAudit
    <2>1. EffectiveAudit = LinesWith(live.audit, e) /\ EffectiveAudit' = LinesWith(live.audit, Owed')
      BY <1>2, <1>7 DEF EffectiveAudit
    <2> QED
      BY <2>1, <1>3, <1>6 DEF LinesWith
  <1>10. EffectiveLogs' = EffectiveLogs
    <2>1. SUFFICES ASSUME NEW l \in Logs PROVE EffectiveLogs'[l] = EffectiveLogs[l]
      BY DEF EffectiveLogs
    <2>2. EffectiveLogs[l] = LinesWith(live.events[l], IF e.log = l THEN e ELSE None)
      BY <1>2, <1>7 DEF EffectiveLogs
    <2>3. EffectiveLogs'[l] = LinesWith(live.events[l], IF Owed' # None /\ Owed'.log = l THEN Owed' ELSE None)
      BY <1>7 DEF EffectiveLogs
    <2> QED
      BY <2>2, <2>3, <1>3, <1>6 DEF LinesWith
  <1>11. UNCHANGED <<ListedBackups, CountersDue>>
    <2>1. counters = pending.counters
      BY <1>1 DEF WorkFits, EntryFits
    <2> QED
      BY <2>1, <1>1, <1>2, <1>4 DEF ListedBackups, CountersDue
  <1>12. WorkFits'
    <2>1. counters = pending.counters
      BY <1>1 DEF WorkFits, EntryFits
    <2>2. RestoreFits'
      BY <2>1, <1>1, <1>3, <1>4, <1>5 DEF WorkFits, RestoreFits
    <2>3. EntryFits' /\ BackupFits'
      BY <1>1, <1>5 DEF WorkFits, EntryFits, BackupFits
    <2> QED
      BY <2>2, <2>3 DEF WorkFits
  <1> QED
    BY <1>1, <1>8, <1>9, <1>10, <1>11, <1>12 DEF Shown

-----------------------------------------------------------------------------
(* The swap of a restore and the end of it *)

\* Moving an area out or in shows nothing new: the stage was shown with its marker.
LEMMA SwapShown ==
  ASSUME IInv, WorkFits, MoveOut \/ MoveIn
  PROVE  UNCHANGED <<Shown, nextOp>> /\ WorkFits'
  <1>1. /\ pc = "install" /\ pc' = pc /\ marker # None /\ pending = None
        /\ UNCHANGED <<staged, leftovers, pending, marker, counters, backups, nextOp>>
    BY DirsFields DEF MoveOut, MoveIn, IInv, TypeOK, PlaceFits, SwapFits, LiveFits, AllLive, NoNext, Areas
  <1>2. area \in {1, 2, 3} /\ Areas[area] \in AreaNames
    BY DEF MoveOut, MoveIn, IInv, TypeOK, Areas, AreaNames
  <1>3. live \in Dirs /\ next \in Dirs
    BY DEF IInv, TypeOK
  <1>4. /\ Settled("records")' = Settled("records")
        /\ Settled("events")' = Settled("events")
        /\ Settled("audit")' = Settled("audit")
    <2>1. CASE MoveOut
      BY <1>1, <1>2, <1>3, <2>1 DEF MoveOut, Settled, Dirs, AreaNames
    <2>2. CASE MoveIn
      BY <1>1, <1>2, <1>3, <2>2 DEF MoveIn, Settled, Dirs, AreaNames
    <2> QED
      BY <2>1, <2>2
  <1>5. UNCHANGED Shown
    BY <1>1, <1>4 DEF Shown, EffectiveRecords, EffectiveLogs, EffectiveAudit, ListedBackups, CountersDue, Owed
  <1>6. WorkFits'
    BY <1>1 DEF WorkFits, RestoreFits, EntryFits, BackupFits
  <1> QED
    BY <1>1, <1>5, <1>6

\* Journalling the event of the restore changes nothing: the marker owed it.
LEMMA CommitRestoreShown ==
  ASSUME IInv, WorkFits, CommitRestore
  PROVE  UNCHANGED <<Shown, nextOp>> /\ WorkFits'
  <1>1. /\ pc = "leftover" /\ pc' = "record" /\ marker # None
        /\ UNCHANGED <<live, next, previous, staged, leftovers, marker, counters, backups, serving, area, boot, nextOp, acked, lapses, stops>>
    BY DEF CommitRestore, Goto, IInv, PlaceFits
  <1>2. \/ pending' = pending /\ pending # None
        \/ pending = None /\ pending' = Intent(marker.event, Keep, marker.counters)
    BY DEF CommitRestore
  <1>3. pending' # None
    <2>1. pending' \in Entries \/ pending' # None
      BY CommitRestoreStep, <1>2 DEF IInv, TypeOK, PlaceFits, CommitRestore, Goto
    <2> QED
      BY <2>1, SentinelsDiffer
  <1>4. /\ pending'.event = marker.event /\ pending'.record = Keep /\ pending'.counters = marker.counters
        /\ marker.event.log = System
    BY <1>1, <1>2 DEF Intent, WorkFits, RestoreFits
  <1>5. pending # None =>
          pending.event = marker.event /\ pending.record = Keep /\ pending.counters = marker.counters
    BY <1>1 DEF WorkFits, RestoreFits
  <1>6. /\ Settled("records")' = Settled("records")
        /\ Settled("events")' = Settled("events")
        /\ Settled("audit")' = Settled("audit")
        /\ Owed' = Owed
    BY <1>1, <1>3, <1>4, <1>5 DEF Settled, Owed
  <1>7. UNCHANGED Shown
    BY <1>1, <1>3, <1>4, <1>5, <1>6 DEF Shown, EffectiveRecords, EffectiveLogs, EffectiveAudit, ListedBackups,
       CountersDue
  <1>8. WorkFits'
    BY <1>1, <1>4 DEF WorkFits, RestoreFits, EntryFits, BackupFits
  <1> QED
    BY <1>1, <1>7, <1>8

\* The marker goes when its event is in both logs.
LEMMA RemoveMarkerShown ==
  ASSUME IInv, WorkFits, RemoveMarker
  PROVE  UNCHANGED <<Shown, nextOp>> /\ WorkFits'
  <1>1. /\ pc = "unmark" /\ pc' \in {"recovering", "reply"} /\ marker' = None /\ marker # None /\ pending = None
        /\ NoNext
        /\ UNCHANGED <<live, next, previous, staged, leftovers, pending, counters, backups, then, serving, area, boot, nextOp, acked, lapses, stops>>
    BY DEF RemoveMarker, Goto, IInv, PlaceFits, SwapFits
  <1>2. /\ Settled("records") = live.records /\ Settled("events") = live.events /\ Settled("audit") = live.audit
        /\ Settled("records")' = live.records /\ Settled("events")' = live.events /\ Settled("audit")' = live.audit
        /\ Owed = marker.event /\ Owed' = None
    BY <1>1 DEF Settled, NoNext, Owed
  <1>3. /\ EndsWith(live.audit, marker.event) /\ EndsWith(live.events[System], marker.event)
        /\ counters = marker.counters /\ marker.event.log = System
    BY <1>1 DEF WorkFits, RestoreFits
  <1>4. EffectiveAudit' = EffectiveAudit
    BY <1>2, <1>3 DEF EffectiveAudit, LinesWith
  <1>5. EffectiveLogs' = EffectiveLogs
    <2>1. SUFFICES ASSUME NEW l \in Logs PROVE EffectiveLogs'[l] = EffectiveLogs[l]
      BY DEF EffectiveLogs
    <2>2. EffectiveLogs'[l] = LinesWith(live.events[l], None)
      BY <1>2 DEF EffectiveLogs
    <2>3. EffectiveLogs[l] = LinesWith(live.events[l], IF Owed # None /\ marker.event.log = l THEN marker.event ELSE None)
      BY <1>2 DEF EffectiveLogs
    <2> QED
      BY <2>2, <2>3, <1>3 DEF LinesWith
  <1>6. UNCHANGED <<EffectiveRecords, ListedBackups, CountersDue>>
    BY <1>1, <1>2, <1>3 DEF EffectiveRecords, ListedBackups, CountersDue
  <1>7. WorkFits'
    BY <1>1 DEF WorkFits, RestoreFits, EntryFits, BackupFits
  <1> QED
    BY <1>1, <1>4, <1>5, <1>6, <1>7 DEF Shown

-----------------------------------------------------------------------------
(* Backups *)

CopyMove == (\E b \in BackupIds : CopyRecords(b)) \/ CopyEvents \/ CopyAudit

\* A backup without a manifest is not listed, whatever was copied.
LEMMA CopyShown ==
  ASSUME IInv, WorkFits, CopyMove
  PROVE  UNCHANGED <<Shown, nextOp>> /\ WorkFits'
  <1>1. /\ pc \in {"ready", "copyEvents", "copyAudit"} /\ pending = None /\ marker = None
        /\ UNCHANGED <<live, next, previous, staged, leftovers, pending, marker, counters, nextOp>>
    BY DEF CopyMove, CopyRecords, CopyEvents, CopyAudit, IInv, PlaceFits
  <1>2. backups \in [BackupIds -> Copies] /\ live \in Dirs /\ AllLive
    BY <1>1 DEF IInv, TypeOK, SwapFits
  <1>3. PICK b \in BackupIds :
          /\ serving' = b /\ backups[b].manifest = None
          /\ \/ pc = "ready" /\ pc' = "copyEvents" /\ backups' = [backups EXCEPT ![b].records = live.records]
             \/ pc = "copyEvents" /\ pc' = "copyAudit" /\ serving = b
                /\ backups' = [backups EXCEPT ![b].events = live.events]
             \/ pc = "copyAudit" /\ pc' = "manifest" /\ serving = b
                /\ backups' = [backups EXCEPT ![b].audit = live.audit]
    <2>1. CASE \E b \in BackupIds : CopyRecords(b)
      <3>1. PICK b \in BackupIds : CopyRecords(b)
        BY <2>1
      <3>2. backups[b].manifest = None
        BY <3>1 DEF CopyRecords, NoBackup
      <3>3. /\ pc = "ready" /\ pc' = "copyEvents" /\ serving' = b
            /\ backups' = [backups EXCEPT ![b].records = live.records]
        BY <3>1 DEF CopyRecords, Goto
      <3> QED
        BY <3>2, <3>3
    <2>2. CASE CopyEvents \/ CopyAudit
      <3>1. serving \in BackupIds /\ backups[serving].manifest = None
        BY <2>2 DEF CopyEvents, CopyAudit, IInv, TypeOK, WorkFits, BackupFits
      <3> QED
        BY <2>2, <3>1 DEF CopyEvents, CopyAudit, Goto
    <2> QED
      BY <2>1, <2>2 DEF CopyMove
  <1>4. /\ backups'[b].manifest = None
        /\ \A c \in BackupIds \ {b} : backups'[c] = backups[c]
        /\ pc' = "copyEvents" => backups'[b].records = live.records
        /\ pc' = "copyAudit" => backups'[b].records = backups[b].records /\ backups'[b].events = live.events
        /\ pc' = "manifest" => /\ backups'[b].records = backups[b].records
                               /\ backups'[b].events = backups[b].events
                               /\ backups'[b].audit = live.audit
    BY <1>2, <1>3 DEF Copies
  <1>5. ListedBackups' = ListedBackups
    BY <1>3, <1>4 DEF ListedBackups
  <1>6. UNCHANGED <<EffectiveRecords, EffectiveLogs, EffectiveAudit, CountersDue>>
    BY <1>1 DEF EffectiveRecords, EffectiveLogs, EffectiveAudit, CountersDue, Settled, Owed
  <1>7. RestoreFits' /\ EntryFits'
    BY <1>1, <1>3 DEF WorkFits, RestoreFits, EntryFits
  <1>8. BackupFits'
    BY <1>1, <1>3, <1>4 DEF WorkFits, BackupFits
  <1> QED
    BY <1>1, <1>5, <1>6, <1>7, <1>8 DEF Shown, WorkFits

\* The picture of an instant that a backup is.
Picture == [recs |-> EffectiveRecords, logs |-> EffectiveLogs, audit |-> EffectiveAudit, none |-> FALSE]

\* The manifest lists the backup as a picture of this instant.
LEMMA ManifestShown ==
  ASSUME IInv, WorkFits, WriteManifest
  PROVE  /\ UNCHANGED <<EffectiveRecords, EffectiveLogs, EffectiveAudit, CountersDue, nextOp>>
         /\ \E b \in BackupIds : /\ ListedBackups[b] = Promise!NoBackup
                                 /\ ListedBackups' = [ListedBackups EXCEPT ![b] = Picture]
         /\ WorkFits'
  <1>1. /\ pc = "manifest" /\ pc' = "noteBackup" /\ pending = None /\ marker = None /\ serving' = serving
        /\ UNCHANGED <<live, next, previous, staged, leftovers, pending, marker, counters, nextOp>>
    BY DEF WriteManifest, Goto, IInv, PlaceFits
  <1>2. /\ backups \in [BackupIds -> Copies] /\ live \in Dirs /\ AllLive /\ serving \in BackupIds
        /\ live.events \in EventsDir
    BY <1>1, DirsFields DEF IInv, TypeOK, SwapFits, AllLive
  <1>3. backups' = [backups EXCEPT ![serving].manifest = Present(live.records)]
    BY DEF WriteManifest
  <1>4. /\ backups[serving].manifest = None
        /\ backups[serving].records = live.records
        /\ backups[serving].events = live.events
        /\ backups[serving].audit = live.audit
    BY <1>1 DEF WorkFits, BackupFits
  <1>5. /\ backups'[serving].manifest = Present(live.records)
        /\ backups'[serving].records = live.records
        /\ backups'[serving].events = live.events
        /\ backups'[serving].audit = live.audit
        /\ \A c \in BackupIds \ {serving} : backups'[c] = backups[c]
    BY <1>2, <1>3, <1>4 DEF Copies
  <1>6. Present(live.records) # None
    BY SentinelsDiffer DEF Present
  <1>7. /\ EffectiveRecords = live.records
        /\ EffectiveAudit = live.audit.lines
        /\ EffectiveLogs = [l \in Logs |-> live.events[l].lines]
    BY <1>1 DEF EffectiveRecords, EffectiveAudit, EffectiveLogs, Settled, Owed, LinesWith
  <1>8. UNCHANGED <<EffectiveRecords, EffectiveLogs, EffectiveAudit, CountersDue>>
    BY <1>1 DEF EffectiveRecords, EffectiveLogs, EffectiveAudit, CountersDue, Settled, Owed
  <1>9. ListedBackups[serving] = Promise!NoBackup
    BY <1>2, <1>4 DEF ListedBackups, Promise!NoBackup
  <1>10. ListedBackups' = [ListedBackups EXCEPT ![serving] = Picture]
    <2>1. ListedBackups'[serving] = Picture
      BY <1>2, <1>5, <1>6, <1>7 DEF ListedBackups, Picture
    <2>2. \A c \in BackupIds \ {serving} : ListedBackups'[c] = ListedBackups[c]
      BY <1>5 DEF ListedBackups
    <2>3. /\ ListedBackups = [c \in BackupIds |-> ListedBackups[c]]
          /\ ListedBackups' = [c \in BackupIds |-> ListedBackups'[c]]
      BY DEF ListedBackups
    <2> QED
      BY <1>2, <2>1, <2>2, <2>3
  <1>11. WorkFits'
    BY <1>1, <1>5 DEF WorkFits, RestoreFits, EntryFits, BackupFits
  <1> QED
    BY <1>1, <1>2, <1>8, <1>9, <1>10, <1>11

-----------------------------------------------------------------------------
(* A restore is staged and marked *)

\* A stage without a marker is not shown.
LEMMA StageShown ==
  ASSUME IInv, WorkFits, FillStage
  PROVE  UNCHANGED <<Shown, nextOp>> /\ WorkFits'
  <1>1. /\ pc = "stage" /\ pc' = "mark" /\ pending = None /\ marker = None /\ serving' = serving
        /\ backups[serving].manifest # None
        /\ next'.records = backups[serving].records /\ next'.events = backups[serving].events
        /\ next'.audit = backups[serving].audit
        /\ UNCHANGED <<live, pending, marker, counters, backups, nextOp>>
    BY DEF FillStage, Goto, IInv, PlaceFits
  <1>2. UNCHANGED Shown
    BY <1>1 DEF Shown, EffectiveRecords, EffectiveLogs, EffectiveAudit, ListedBackups, CountersDue, Settled, Owed
  <1>3. WorkFits'
    BY <1>1 DEF WorkFits, RestoreFits, EntryFits, BackupFits
  <1> QED
    BY <1>1, <1>2, <1>3

\* An event that no line of a log carries is appended to it.
LEMMA NewLine ==
  ASSUME NEW log \in Log, NEW e \in Events, NEW n \in Nat, Within(log.lines, n), e.n > n
  PROVE  LinesWith(log, e) = Append(log.lines, e)
  <1>1. e # None
    BY SentinelsDiffer
  <1>2. ~EndsWith(log, e)
    <2> SUFFICES ASSUME EndsWith(log, e) PROVE FALSE
      OBVIOUS
    <2>1. log.lines \in Seq(Events) /\ log.lines # <<>>
      BY DEF EndsWith, Log
    <2>2. Len(log.lines) \in 1..Len(log.lines)
      BY <2>1
    <2>3. e.n <= n
      BY <2>2 DEF EndsWith, Within
    <2> QED
      BY <2>3 DEF Events
  <1> QED
    BY <1>1, <1>2 DEF LinesWith

\* The marker replaces everything shown by the staged backup and the restore's event.
LEMMA MarkerShown ==
  ASSUME IInv, WorkFits, OldFits, WriteMarker
  PROVE  \E b \in BackupIds, e \in Events :
           /\ e.n = nextOp + 1 /\ e.log = System /\ nextOp' = nextOp + 1 /\ serving' = e
           /\ ~ListedBackups[b].none
           /\ EffectiveRecords' = ListedBackups[b].recs
           /\ EffectiveLogs' = [ListedBackups[b].logs EXCEPT ![System] = Append(@, e)]
           /\ EffectiveAudit' = Append(ListedBackups[b].audit, e)
           /\ ListedBackups' = ListedBackups
           /\ CountersDue' = [records |-> Cardinality(Present(ListedBackups[b].recs)),
                              events  |-> Len(ListedBackups[b].audit) + 1]
           /\ acked' = {a \in acked : Holds(ListedBackups[b].audit, a)}
           /\ WorkFits'
  <1> DEFINE e == [n |-> nextOp + 1, log |-> System]
  <1>1. /\ pc = "mark" /\ pc' = "install" /\ pending = None /\ marker = None
        /\ next.records # Gone /\ next.events # Gone /\ next.audit # Gone
        /\ nextOp \in Nat /\ nextOp < MaxOps /\ serving \in BackupIds /\ next \in Dirs
    BY BoundsAreNaturals DEF WriteMarker, Goto, IInv, PlaceFits, TypeOK
  <1>2. /\ nextOp' = nextOp + 1 /\ serving' = e
        /\ marker' = [event |-> e, counters |-> [records |-> Cardinality(Present(next.records)),
                                                 events |-> Len(next.audit.lines) + 1]]
        /\ acked' = {a \in acked : Holds(next.audit.lines, a)}
        /\ UNCHANGED <<live, next, previous, staged, leftovers, pending, counters, backups>>
    BY DEF WriteMarker, Holds
  <1>3. /\ backups[serving].manifest # None
        /\ next.records = backups[serving].records
        /\ next.events = backups[serving].events
        /\ next.audit = backups[serving].audit
    BY <1>1 DEF WorkFits, BackupFits
  <1>4. e \in Events /\ e # None /\ e.n = nextOp + 1 /\ e.log = System /\ System \in Logs
    BY <1>1, BoundsAreNaturals, SentinelsDiffer DEF Events, Logs
  <1>5. marker' # None /\ marker'.event = e /\ marker'.event.log = System
    <2>1. marker' \in Markers
      BY <1>1, <1>2, <1>4, WriteMarkerStep DEF IInv, TypeOK, WriteMarker, PlaceFits, Goto
    <2> QED
      BY <2>1, <1>2, SentinelsDiffer
  <1>6. next.events \in EventsDir /\ next.audit \in Log
    BY <1>1, DirsFields
  <1>7. /\ Settled("records")' = next.records /\ Settled("events")' = next.events
        /\ Settled("audit")' = next.audit /\ Owed' = e
    BY <1>1, <1>2, <1>5 DEF Settled, Owed
  <1> DEFINE shot == ListedBackups[serving]
  <1>8. shot = [recs |-> next.records, logs |-> [l \in Logs |-> next.events[l].lines],
                audit |-> next.audit.lines, none |-> FALSE]
    BY <1>1, <1>3 DEF ListedBackups
  <1> HIDE DEF e, shot
  <1>9. /\ Within(next.audit.lines, nextOp)
        /\ \A l \in Logs : Within(next.events[l].lines, nextOp)
    <2>1. LinesOld(shot.logs, shot.audit, nextOp)
      BY <1>1, <1>8 DEF OldFits, shot
    <2> QED
      BY <2>1, <1>8 DEF LinesOld
  <1>10. EffectiveAudit' = Append(shot.audit, e)
    <2>1. EffectiveAudit' = LinesWith(next.audit, e)
      BY <1>7 DEF EffectiveAudit
    <2>2. LinesWith(next.audit, e) = Append(next.audit.lines, e)
      <3>1. Within(next.audit.lines, nextOp) /\ e.n > nextOp /\ nextOp \in Nat
        BY <1>1, <1>4, <1>9
      <3> QED
        BY <3>1, <1>4, <1>6, NewLine
    <2> QED
      BY <2>1, <2>2, <1>8
  <1>11. EffectiveLogs' = [shot.logs EXCEPT ![System] = Append(@, e)]
    <2>1. EffectiveLogs' = [l \in Logs |-> LinesWith(next.events[l], IF l = System THEN e ELSE None)]
      BY <1>4, <1>7 DEF EffectiveLogs
    <2>2. LinesWith(next.events[System], e) = Append(next.events[System].lines, e)
      BY <1>1, <1>4, <1>6, <1>9, NewLine DEF EventsDir
    <2>3. \A l \in Logs \ {System} : LinesWith(next.events[l], None) = next.events[l].lines
      BY DEF LinesWith
    <2> QED
      BY <2>1, <2>2, <2>3, <1>4, <1>8
  <1>12. EffectiveRecords' = shot.recs
    BY <1>1, <1>2, <1>7, <1>8 DEF EffectiveRecords
  <1>13. ListedBackups' = ListedBackups
    BY <1>2 DEF ListedBackups
  <1>14. CountersDue' = [records |-> Cardinality(Present(shot.recs)), events |-> Len(shot.audit) + 1]
    BY <1>1, <1>2, <1>5, <1>8 DEF CountersDue
  <1>15. WorkFits'
    BY <1>1, <1>2, <1>5 DEF WorkFits, RestoreFits, EntryFits, BackupFits
  <1>16. acked' = {a \in acked : Holds(shot.audit, a)} /\ ~shot.none
    BY <1>2, <1>8
  <1> QED
    BY <1>1, <1>2, <1>4, <1>10, <1>11, <1>12, <1>13, <1>14, <1>15, <1>16 DEF shot

-----------------------------------------------------------------------------
(* Requests that journal an entry *)

\* Putting a record, and removing one, moves the number of records by one at most.
LEMMA PresentFinite ==
  ASSUME NEW records
  PROVE  IsFiniteSet(Present(records)) /\ Cardinality(Present(records)) \in Nat
  BY IdsFinite, FS_Subset, FS_CardinalityType DEF Present

LEMMA PresentPut ==
  ASSUME NEW records \in RecordsDir, NEW i \in Ids, NEW r \in Rec
  PROVE  Cardinality(Present([records EXCEPT ![i] = r]))
           = Cardinality(Present(records)) + (IF records[i] = NoRecord THEN 1 ELSE 0)
  <1>1. Present([records EXCEPT ![i] = r]) = Present(records) \cup {i}
    BY SentinelsDiffer DEF Present, RecordsDir
  <1>2. i \in Present(records) <=> records[i] # NoRecord
    BY DEF Present
  <1>3. IsFiniteSet(Present(records)) /\ Cardinality(Present(records)) \in Nat
    BY PresentFinite
  <1>4. Cardinality(Present(records) \cup {i})
          = IF i \in Present(records) THEN Cardinality(Present(records)) ELSE Cardinality(Present(records)) + 1
    BY <1>3, FS_AddElement
  <1>5. CASE records[i] = NoRecord
    BY <1>1, <1>2, <1>3, <1>4, <1>5
  <1>6. CASE records[i] # NoRecord
    <2>1. Cardinality(Present([records EXCEPT ![i] = r])) = Cardinality(Present(records) \cup {i})
      BY <1>1
    <2>2. Cardinality(Present(records) \cup {i}) = Cardinality(Present(records))
      BY <1>2, <1>4, <1>6
    <2> QED
      BY <1>3, <1>6, <2>1, <2>2
  <1> QED
    BY <1>5, <1>6

LEMMA PresentRemoved ==
  ASSUME NEW records \in RecordsDir, NEW i \in Ids
  PROVE  Cardinality(Present([records EXCEPT ![i] = NoRecord]))
           = Cardinality(Present(records)) - (IF records[i] = NoRecord THEN 0 ELSE 1)
  <1>1. Present([records EXCEPT ![i] = NoRecord]) = Present(records) \ {i}
    BY DEF Present, RecordsDir
  <1>2. i \in Present(records) <=> records[i] # NoRecord
    BY DEF Present
  <1>3. IsFiniteSet(Present(records)) /\ Cardinality(Present(records)) \in Nat
    BY PresentFinite
  <1>4. Cardinality(Present(records) \ {i})
          = IF i \in Present(records) THEN Cardinality(Present(records)) - 1 ELSE Cardinality(Present(records))
    BY <1>3, FS_RemoveElement
  <1>5. CASE records[i] = NoRecord
    <2>1. Cardinality(Present([records EXCEPT ![i] = NoRecord])) = Cardinality(Present(records) \ {i})
      BY <1>1
    <2>2. Cardinality(Present(records) \ {i}) = Cardinality(Present(records))
      BY <1>2, <1>4, <1>5
    <2> QED
      BY <1>3, <1>5, <2>1, <2>2
  <1>6. CASE records[i] # NoRecord
    BY <1>1, <1>2, <1>3, <1>4, <1>6
  <1> QED
    BY <1>5, <1>6

\* Where requests are served, what is shown is what is on disk.
LEMMA ReadyPlace ==
  ASSUME IInv, pc \in {"ready", "noteBackup"}
  PROVE  /\ pending = None /\ marker = None /\ AllLive /\ live \in Dirs
         /\ live.records \in RecordsDir /\ live.events \in EventsDir /\ live.audit \in Log
         /\ EffectiveRecords = live.records
         /\ EffectiveAudit = live.audit.lines
         /\ EffectiveLogs = [l \in Logs |-> live.events[l].lines]
         /\ CountersDue = counters /\ counters.records \in Int /\ counters.events \in Int
  <1>1. pending = None /\ marker = None /\ AllLive /\ live \in Dirs
    BY DEF IInv, PlaceFits, SwapFits, TypeOK
  <1>2. /\ EffectiveRecords = live.records
        /\ EffectiveAudit = live.audit.lines
        /\ EffectiveLogs = [l \in Logs |-> live.events[l].lines]
        /\ CountersDue = counters
    BY <1>1 DEF EffectiveRecords, EffectiveAudit, EffectiveLogs, Settled, Owed, LinesWith, CountersDue
  <1>3. counters.records \in Int /\ counters.events \in Int
    BY DEF IInv, TypeOK, Counts
  <1>4. live.records \in RecordsDir /\ live.events \in EventsDir /\ live.audit \in Log
    BY <1>1, DirsFields DEF AllLive
  <1> QED
    BY <1>1, <1>2, <1>3, <1>4

\* An event under the next operation id, and everything owed to the logs.
Noted(e) ==
  /\ e.n = nextOp + 1 /\ nextOp' = nextOp + 1 /\ serving' = e /\ acked' = acked
  /\ EffectiveLogs' = [EffectiveLogs EXCEPT ![e.log] = Append(@, e)]
  /\ EffectiveAudit' = Append(EffectiveAudit, e)
  /\ ListedBackups' = ListedBackups

\* Publishing an entry shows the record and the event it carries.
LEMMA CommitShown ==
  ASSUME IInv, WorkFits, OldFits, pc \in {"ready", "noteBackup"},
         NEW log \in Logs, NEW record \in Rec \cup {NoRecord, Keep}, NEW d \in Int,
         record # Keep => log \in Ids, Commit(log, record, d)
  PROVE  \E e \in Events :
           /\ e.log = log /\ Noted(e)
           /\ EffectiveRecords' = IF record = Keep THEN EffectiveRecords
                                  ELSE [EffectiveRecords EXCEPT ![log] = record]
           /\ CountersDue' = [records |-> d, events |-> CountersDue.events + 1]
           /\ WorkFits'
  <1> DEFINE e == [n |-> nextOp + 1, log |-> log]
  <1>1. /\ pending = None /\ marker = None /\ AllLive /\ live \in Dirs
        /\ live.records \in RecordsDir /\ live.events \in EventsDir /\ live.audit \in Log
        /\ EffectiveRecords = live.records
        /\ EffectiveAudit = live.audit.lines
        /\ EffectiveLogs = [l \in Logs |-> live.events[l].lines]
        /\ CountersDue = counters /\ counters.events \in Int
    BY ReadyPlace
  <1>2. /\ nextOp < MaxOps /\ nextOp' = nextOp + 1 /\ serving' = e /\ pc' = "record"
        /\ pending' = Intent(e, record, [records |-> d, events |-> counters.events + 1])
        /\ UNCHANGED <<live, next, previous, staged, leftovers, marker, counters, backups, acked>>
    BY DEF Commit, Goto
  <1>3. e \in Events /\ e # None /\ e.n = nextOp + 1 /\ e.log = log /\ nextOp \in Nat
    BY <1>2, BoundsAreNaturals, SentinelsDiffer DEF Events, IInv, TypeOK
  <1>4. /\ pending' # None /\ pending'.event = e /\ pending'.record = record
        /\ pending'.counters = [records |-> d, events |-> counters.events + 1]
    <2>1. live.events[e.log] \in Log
      BY <1>1, <1>3 DEF EventsDir
    <2>2. pending' \in Entries
      BY <1>1, <1>2, <1>3, <2>1, SizeNat DEF Intent, Entries, Counts
    <2> QED
      BY <1>2, <2>2, SentinelsDiffer DEF Intent
  <1>5. /\ Settled("records")' = live.records /\ Settled("events")' = live.events
        /\ Settled("audit")' = live.audit /\ Owed' = e
    BY <1>1, <1>2, <1>4 DEF Settled, Owed
  <1> HIDE DEF e
  <1>6. Within(live.audit.lines, nextOp) /\ \A l \in Logs : Within(live.events[l].lines, nextOp)
    BY <1>1 DEF OldFits, LinesOld
  <1>7. EffectiveAudit' = Append(EffectiveAudit, e)
    <2>1. EffectiveAudit' = LinesWith(live.audit, e)
      BY <1>5 DEF EffectiveAudit
    <2>2. LinesWith(live.audit, e) = Append(live.audit.lines, e)
      BY <1>1, <1>3, <1>6, NewLine
    <2> QED
      BY <2>1, <2>2, <1>1
  <1>8. EffectiveLogs' = [EffectiveLogs EXCEPT ![e.log] = Append(@, e)]
    <2>1. EffectiveLogs' = [l \in Logs |-> LinesWith(live.events[l], IF l = e.log THEN e ELSE None)]
      BY <1>3, <1>5 DEF EffectiveLogs
    <2>2. LinesWith(live.events[e.log], e) = Append(live.events[e.log].lines, e)
      BY <1>1, <1>3, <1>6, NewLine DEF EventsDir
    <2>3. \A l \in Logs \ {e.log} : LinesWith(live.events[l], None) = live.events[l].lines
      BY DEF LinesWith
    <2> QED
      BY <2>1, <2>2, <2>3, <1>1, <1>3
  <1>9. EffectiveRecords' = IF record = Keep THEN EffectiveRecords
                            ELSE [EffectiveRecords EXCEPT ![log] = record]
    BY <1>1, <1>3, <1>4, <1>5 DEF EffectiveRecords
  <1>10. ListedBackups' = ListedBackups
    BY <1>2 DEF ListedBackups
  <1>11. CountersDue' = [records |-> d, events |-> CountersDue.events + 1]
    BY <1>1, <1>4 DEF CountersDue
  <1>12. WorkFits'
    BY <1>1, <1>2, <1>3, <1>4 DEF WorkFits, RestoreFits, EntryFits, BackupFits
  <1> QED
    BY <1>2, <1>3, <1>7, <1>8, <1>9, <1>10, <1>11, <1>12 DEF Noted

\* The requests that publish an entry.
RequestMove ==
  \/ \E i \in Ids : Create(i) \/ Mutate(i) \/ Delete(i)
  \/ \E l \in Logs : AppendEvent(l)
  \/ NoteBackup

\* The step of RecordLog that a published entry is, and the counters it publishes.
LogStep(e) == Promise!Create(e) \/ Promise!Mutate(e) \/ Promise!Delete(e) \/ Promise!AppendEvent(e)
CountersFollow ==
  CountersDue' = [records |-> CountersDue.records + Cardinality(Present(EffectiveRecords'))
                                                  - Cardinality(Present(EffectiveRecords)),
                  events  |-> CountersDue.events + 1]

\* Each of them is a step of RecordLog and counts right.
LEMMA RequestShown ==
  ASSUME IInv, WorkFits, OldFits, RequestMove
  PROVE  \E e \in Events : Noted(e) /\ LogStep(e) /\ CountersFollow /\ WorkFits'
  <1>1. ASSUME NEW i \in Ids, Create(i)
        PROVE  \E e \in Events : Noted(e) /\ LogStep(e) /\ CountersFollow /\ WorkFits'
    <2>1. pc = "ready" /\ live.records[i] = NoRecord /\ i \in Logs
          /\ Commit(i, [rev |-> 0, by |-> nextOp + 1], counters.records + 1)
      BY <1>1 DEF Create, Logs
    <2>2. EffectiveRecords = live.records /\ live.records \in RecordsDir /\ CountersDue = counters
          /\ counters.records \in Int
      BY <2>1, ReadyPlace
    <2>3. [rev |-> 0, by |-> nextOp + 1] \in Rec /\ nextOp \in Nat
      BY BoundsAreNaturals DEF Rec, IInv, TypeOK
    <2>4. PICK e \in Events :
            /\ e.log = i /\ Noted(e)
            /\ EffectiveRecords' = [EffectiveRecords EXCEPT ![i] = [rev |-> 0, by |-> nextOp + 1]]
            /\ CountersDue' = [records |-> counters.records + 1, events |-> CountersDue.events + 1]
            /\ WorkFits'
      BY <2>1, <2>2, <2>3, CommitShown, SentinelsDiffer
    <2>5. Promise!Create(e)
      BY <2>1, <2>2, <2>4 DEF Promise!Create, Promise!Note, Noted
    <2>6. CountersFollow
      BY <2>1, <2>2, <2>3, <2>4, PresentPut, PresentFinite DEF CountersFollow
    <2> QED
      BY <2>4, <2>5, <2>6 DEF LogStep
  <1>2. ASSUME NEW i \in Ids, Mutate(i)
        PROVE  \E e \in Events : Noted(e) /\ LogStep(e) /\ CountersFollow /\ WorkFits'
    <2>1. pc = "ready" /\ live.records[i] # NoRecord /\ i \in Logs
          /\ Commit(i, [rev |-> live.records[i].rev + 1, by |-> nextOp + 1], counters.records)
      BY <1>2 DEF Mutate, Logs
    <2>2. EffectiveRecords = live.records /\ live.records \in RecordsDir /\ CountersDue = counters
          /\ counters.records \in Int
      BY <2>1, ReadyPlace
    <2>3. [rev |-> live.records[i].rev + 1, by |-> nextOp + 1] \in Rec /\ nextOp \in Nat
      BY <2>1, <2>2, BoundsAreNaturals DEF Rec, IInv, TypeOK, RecordsDir
    <2>4. PICK e \in Events :
            /\ e.log = i /\ Noted(e)
            /\ EffectiveRecords' = [EffectiveRecords EXCEPT ![i] = [rev |-> live.records[i].rev + 1, by |-> nextOp + 1]]
            /\ CountersDue' = [records |-> counters.records, events |-> CountersDue.events + 1]
            /\ WorkFits'
      BY <2>1, <2>2, <2>3, CommitShown, SentinelsDiffer
    <2>5. Promise!Mutate(e)
      BY <2>1, <2>2, <2>4 DEF Promise!Mutate, Promise!Note, Noted
    <2>6. CountersFollow
      BY <2>1, <2>2, <2>3, <2>4, PresentPut, PresentFinite DEF CountersFollow
    <2> QED
      BY <2>4, <2>5, <2>6 DEF LogStep
  <1>3. ASSUME NEW i \in Ids, Delete(i)
        PROVE  \E e \in Events : Noted(e) /\ LogStep(e) /\ CountersFollow /\ WorkFits'
    <2> DEFINE d == IF live.records[i] = NoRecord THEN counters.records ELSE counters.records - 1
    <2>1. pc = "ready" /\ i \in Logs /\ Commit(i, NoRecord, d)
      BY <1>3 DEF Delete, Logs
    <2>2. EffectiveRecords = live.records /\ live.records \in RecordsDir /\ CountersDue = counters
          /\ counters.records \in Int /\ d \in Int
      BY <2>1, ReadyPlace
    <2> HIDE DEF d
    <2>3. PICK e \in Events :
            /\ e.log = i /\ Noted(e)
            /\ EffectiveRecords' = [EffectiveRecords EXCEPT ![i] = NoRecord]
            /\ CountersDue' = [records |-> d, events |-> CountersDue.events + 1]
            /\ WorkFits'
      BY <2>1, <2>2, CommitShown, SentinelsDiffer
    <2>4. Promise!Delete(e)
      BY <2>3 DEF Promise!Delete, Promise!Note, Noted
    <2>5. CountersFollow
      BY <2>2, <2>3, PresentRemoved, PresentFinite DEF CountersFollow, d
    <2> QED
      BY <2>3, <2>4, <2>5 DEF LogStep
  <1>4. ASSUME (\E l \in Logs : AppendEvent(l)) \/ NoteBackup
        PROVE  \E e \in Events : Noted(e) /\ LogStep(e) /\ CountersFollow /\ WorkFits'
    <2>1. PICK l \in Logs : pc \in {"ready", "noteBackup"} /\ Commit(l, Keep, counters.records)
      BY <1>4 DEF AppendEvent, NoteBackup, Logs
    <2>2. CountersDue = counters /\ counters.records \in Int
      BY <2>1, ReadyPlace
    <2>3. PICK e \in Events :
            /\ e.log = l /\ Noted(e)
            /\ EffectiveRecords' = EffectiveRecords
            /\ CountersDue' = [records |-> counters.records, events |-> CountersDue.events + 1]
            /\ WorkFits'
      BY <2>1, <2>2, CommitShown
    <2>4. Promise!AppendEvent(e)
      BY <2>3 DEF Promise!AppendEvent, Promise!Note, Noted
    <2>5. CountersFollow
      BY <2>2, <2>3, PresentFinite DEF CountersFollow
    <2> QED
      BY <2>3, <2>4, <2>5 DEF LogStep
  <1> QED
    BY <1>1, <1>2, <1>3, <1>4 DEF RequestMove

-----------------------------------------------------------------------------
(* Lines of a log, counted, dated and found *)

LEMMA TimesIsNat == ASSUME NEW s \in Seq(Events), NEW e PROVE Times(s, e) \in Nat
  <1>1. IsFiniteSet(1..Len(s))
    BY FS_Interval
  <1>2. IsFiniteSet({k \in 1..Len(s) : s[k] = e})
    BY <1>1, FS_Subset
  <1> QED
    BY <1>2, FS_CardinalityType DEF Times

LEMMA TimesOther ==
  ASSUME NEW s \in Seq(Events), NEW x \in Events, NEW e, x # e
  PROVE  Times(Append(s, x), e) = Times(s, e)
  <1>1. {k \in 1..Len(Append(s, x)) : Append(s, x)[k] = e} = {k \in 1..Len(s) : s[k] = e}
    OBVIOUS
  <1> QED
    BY <1>1 DEF Times

LEMMA TimesSame ==
  ASSUME NEW s \in Seq(Events), NEW x \in Events
  PROVE  Times(Append(s, x), x) = Times(s, x) + 1
  <1> DEFINE old == {k \in 1..Len(s) : s[k] = x}
  <1>1. {k \in 1..Len(Append(s, x)) : Append(s, x)[k] = x} = old \cup {Len(s) + 1}
    OBVIOUS
  <1>2. IsFiniteSet(1..Len(s)) /\ old \in SUBSET (1..Len(s)) /\ Len(s) + 1 \notin old
    BY FS_Interval
  <1> HIDE DEF old
  <1>3. IsFiniteSet(old)
    BY <1>2, FS_Subset
  <1>4. Cardinality(old \cup {Len(s) + 1}) = Cardinality(old) + 1
    BY <1>2, <1>3, FS_AddElement
  <1> QED
    BY <1>1, <1>4 DEF Times, old

LEMMA AgreeNoted ==
  ASSUME NEW logs \in [Logs -> Seq(Events)], NEW audit \in Seq(Events), NEW e \in Events,
         LinesAgree(logs, audit)
  PROVE  LinesAgree([logs EXCEPT ![e.log] = Append(@, e)], Append(audit, e))
  <1> DEFINE after == [logs EXCEPT ![e.log] = Append(@, e)]
  <1> SUFFICES ASSUME NEW a \in Events PROVE Times(after[a.log], a) = Times(Append(audit, e), a)
    BY DEF LinesAgree
  <1>1. a.log \in Logs /\ e.log \in Logs
    BY DEF Events
  <1>2. Times(logs[a.log], a) = Times(audit, a)
    BY DEF LinesAgree
  <1>3. CASE a = e
    <2>1. after[a.log] = Append(logs[a.log], e) /\ logs[a.log] \in Seq(Events)
      BY <1>1, <1>3
    <2>2. Times(after[a.log], a) = Times(logs[a.log], a) + 1
      BY <1>3, <2>1, TimesSame
    <2>3. Times(Append(audit, e), a) = Times(audit, a) + 1
      BY <1>3, TimesSame
    <2> QED
      BY <2>2, <2>3, <1>2
  <1>4. CASE a # e
    <2>1. logs[a.log] \in Seq(Events) /\ (after[a.log] = logs[a.log] \/ after[a.log] = Append(logs[a.log], e))
      BY <1>1
    <2>2. Times(after[a.log], a) = Times(logs[a.log], a)
      BY <1>4, <2>1, TimesOther
    <2>3. Times(Append(audit, e), a) = Times(audit, a)
      BY <1>4, TimesOther
    <2> QED
      BY <2>2, <2>3, <1>2
  <1> QED
    BY <1>3, <1>4

LEMMA WithinAppended ==
  ASSUME NEW s \in Seq(Events), NEW e \in Events, NEW n \in Nat, Within(s, n), e.n <= n + 1
  PROVE  Within(Append(s, e), n + 1)
  <1> SUFFICES ASSUME NEW k \in 1..Len(Append(s, e)) PROVE Append(s, e)[k].n <= n + 1
    BY DEF Within
  <1>1. CASE k \in 1..Len(s)
    <2>1. Append(s, e)[k] = s[k] /\ s[k] \in Events /\ s[k].n <= n
      BY <1>1 DEF Within
    <2> QED
      BY <2>1 DEF Events
  <1>2. CASE k = Len(s) + 1
    BY <1>2
  <1> QED
    BY <1>1, <1>2

LEMMA WithinLater ==
  ASSUME NEW s \in Seq(Events), NEW n \in Nat, Within(s, n)
  PROVE  Within(s, n + 1)
  <1> SUFFICES ASSUME NEW k \in 1..Len(s) PROVE s[k].n <= n + 1
    BY DEF Within
  <1>1. s[k] \in Events /\ s[k].n <= n
    BY DEF Within
  <1> QED
    BY <1>1 DEF Events

LEMMA OldNoted ==
  ASSUME NEW logs \in [Logs -> Seq(Events)], NEW audit \in Seq(Events), NEW e \in Events, NEW n \in Nat,
         LinesOld(logs, audit, n), e.n <= n + 1
  PROVE  LinesOld([logs EXCEPT ![e.log] = Append(@, e)], Append(audit, e), n + 1)
  <1>1. Within(Append(audit, e), n + 1)
    BY WithinAppended DEF LinesOld
  <1>2. ASSUME NEW l \in Logs PROVE Within([logs EXCEPT ![e.log] = Append(@, e)][l], n + 1)
    <2>1. logs[l] \in Seq(Events) /\ Within(logs[l], n)
      BY DEF LinesOld
    <2>2. CASE l = e.log
      BY <2>1, <2>2, WithinAppended
    <2>3. CASE l # e.log
      BY <2>1, <2>3, WithinLater
    <2> QED
      BY <2>2, <2>3
  <1> QED
    BY <1>1, <1>2 DEF LinesOld

LEMMA OldLater ==
  ASSUME NEW logs \in [Logs -> Seq(Events)], NEW audit \in Seq(Events), NEW n \in Nat, LinesOld(logs, audit, n)
  PROVE  LinesOld(logs, audit, n + 1)
  BY WithinLater DEF LinesOld

LEMMA HoldsAppended ==
  ASSUME NEW s \in Seq(Events), NEW e \in Events
  PROVE  Holds(Append(s, e), e) /\ \A a : Holds(s, a) => Holds(Append(s, e), a)
  <1>1. Append(s, e)[Len(s) + 1] = e /\ Len(s) + 1 \in 1..Len(Append(s, e))
    OBVIOUS
  <1>2. \A k \in 1..Len(s) : k \in 1..Len(Append(s, e)) /\ Append(s, e)[k] = s[k]
    OBVIOUS
  <1> QED
    BY <1>1, <1>2 DEF Holds

LEMMA ListedTypes ==
  ASSUME IInv, NEW b \in BackupIds, ~ListedBackups[b].none
  PROVE  /\ ListedBackups[b].logs \in [Logs -> Seq(Events)]
         /\ ListedBackups[b].audit \in Seq(Events)
         /\ backups[b].manifest # None
         /\ backups[b].events \in EventsDir /\ backups[b].audit \in Log /\ backups[b].records \in RecordsDir
         /\ ListedBackups[b] = [recs |-> backups[b].records, logs |-> [l \in Logs |-> backups[b].events[l].lines],
                                audit |-> backups[b].audit.lines, none |-> FALSE]
  <1>1. backups[b].manifest # None
    BY DEF ListedBackups
  <1>2. backups[b] \in Copies
    BY DEF IInv, TypeOK
  <1>3. backups[b].events \in EventsDir /\ backups[b].audit \in Log /\ backups[b].records \in RecordsDir
    BY <1>1, <1>2 DEF IInv, CopiesQuiet, Copies
  <1>4. ListedBackups[b] = [recs |-> backups[b].records, logs |-> [l \in Logs |-> backups[b].events[l].lines],
                            audit |-> backups[b].audit.lines, none |-> FALSE]
    BY <1>1 DEF ListedBackups
  <1> QED
    BY <1>1, <1>3, <1>4 DEF EventsDir, Log

-----------------------------------------------------------------------------
(* The contents after each kind of step *)

\* Where a request that took effect is on its way to its answer.
Answering == {"reply", "install", "leftover", "unstage", "purge", "unmark"} \cup ApplyPlaces

\* The steps that show nothing new.
QuietMove ==
  \/ StillMove \/ SweepMove \/ Apply \/ MoveOut \/ MoveIn \/ CommitRestore \/ RemoveMarker
  \/ CopyMove \/ FillStage

LEMMA QuietShown == ASSUME IInv, WorkFits, QuietMove PROVE UNCHANGED <<Shown, nextOp>> /\ WorkFits'
  <1>1. CASE StillMove
    BY <1>1, StillDisk, SameDisk, StillWork
  <1>2. CASE SweepMove
    BY <1>2, SweepShown, SweepWork
  <1>3. CASE Apply
    BY <1>3, ApplyRecordShown, ApplyEventShown, ApplyAuditShown, ApplyCountersShown, ClearPendingShown DEF Apply
  <1>4. CASE MoveOut \/ MoveIn \/ CommitRestore \/ RemoveMarker
    BY <1>4, SwapShown, CommitRestoreShown, RemoveMarkerShown
  <1>5. CASE CopyMove \/ FillStage
    BY <1>5, CopyShown, StageShown
  <1> QED
    BY <1>1, <1>2, <1>3, <1>4, <1>5 DEF QuietMove

\* A quiet step answers at most the request in hand, and takes up no other.
LEMMA QuietAnswers ==
  ASSUME IInv, QuietMove
  PROVE  /\ \A e \in acked' : e \in acked \/ (e = serving /\ pc = "reply" /\ serving # None)
         /\ (pc' \in Answering /\ serving' # None) => (pc \in Answering /\ serving' = serving)
  <1> USE DEF Answering, Goto
  <1>1. CASE StillMove
    BY <1>1 DEF StillMove, EnsureReady, Start, RecoverRestore, RecoverPending, ReadOrRefuse, Reply,
                InstallNext, Crash, IInv, StageFits
  <1>2. CASE SweepMove
    BY <1>2 DEF IInv, PlaceFits, StageFits, SweepMove, CleanTemporaries, SetAside, Fault, RemoveStage, PurgeStage,
                AbandonStage, StageRestore
  <1>3. CASE Apply
    BY <1>3 DEF Apply, ApplyRecord, ApplyEvent, ApplyAudit, ApplyCounters, ClearPending
  <1>4. CASE MoveOut \/ MoveIn \/ CommitRestore \/ RemoveMarker
    BY <1>4 DEF MoveOut, MoveIn, CommitRestore, RemoveMarker
  <1>5. CASE CopyMove \/ FillStage
    BY <1>5 DEF CopyMove, CopyRecords, CopyEvents, CopyAudit, FillStage
  <1> QED
    BY <1>1, <1>2, <1>3, <1>4, <1>5 DEF QuietMove

LEMMA QuietContent ==
  ASSUME CInv, QuietMove
  PROVE  UNCHANGED <<Shown, nextOp>> /\ WorkFits' /\ ContentFits'
  <1>1. UNCHANGED <<Shown, nextOp>> /\ WorkFits'
    BY QuietShown DEF CInv
  <1>2. OldFits' /\ AgreeFits' /\ CountersFit'
    BY <1>1 DEF CInv, ContentFits, Shown, OldFits, AgreeFits, CountersFit
  <1>3. AnswersFit'
    BY <1>1, QuietAnswers DEF CInv, ContentFits, Shown, AnswersFit, Answering
  <1> QED
    BY <1>1, <1>2, <1>3 DEF ContentFits

\* The three steps with an effect keep the contents right.
LEMMA NotedContent ==
  ASSUME CInv, NEW e \in Events, Noted(e), CountersFollow
  PROVE  ContentFits'
  <1>1. IInv /\ OldFits /\ AgreeFits /\ CountersFit /\ AnswersFit
    BY DEF CInv, ContentFits
  <1>2. /\ EffectiveAudit \in Seq(Events) /\ EffectiveLogs \in [Logs -> Seq(Events)]
        /\ e.n <= nextOp + 1 /\ nextOp' = nextOp + 1 /\ nextOp \in Nat
    <2>1. EffectiveAudit \in Seq(Events) /\ EffectiveLogs \in [Logs -> Seq(Events)]
      BY <1>1, EffectiveTypes
    <2>2. nextOp \in Nat
      BY <1>1 DEF IInv, TypeOK
    <2> QED
      BY <2>1, <2>2 DEF Noted
  <1>3. PICK audit \in Seq(Events), logs \in [Logs -> Seq(Events)], n \in Nat :
          audit = EffectiveAudit /\ logs = EffectiveLogs /\ n = nextOp
    BY <1>2
  <1>4. /\ EffectiveLogs' = [logs EXCEPT ![e.log] = Append(@, e)]
        /\ EffectiveAudit' = Append(audit, e) /\ nextOp' = n + 1
        /\ ListedBackups' = ListedBackups
    BY <1>3 DEF Noted
  <1>5. OldFits'
    <2>1. LinesOld([logs EXCEPT ![e.log] = Append(@, e)], Append(audit, e), n + 1)
      BY <1>1, <1>2, <1>3, OldNoted DEF OldFits
    <2>2. \A b \in BackupIds : ~ListedBackups[b].none =>
            LinesOld(ListedBackups[b].logs, ListedBackups[b].audit, n + 1)
      <3> SUFFICES ASSUME NEW b \in BackupIds, ~ListedBackups[b].none
                   PROVE  LinesOld(ListedBackups[b].logs, ListedBackups[b].audit, n + 1)
        OBVIOUS
      <3>1. LinesOld(ListedBackups[b].logs, ListedBackups[b].audit, n)
        BY <1>1, <1>3 DEF OldFits
      <3> QED
        BY <1>1, <3>1, ListedTypes, OldLater
    <2> QED
      BY <2>1, <2>2, <1>4 DEF OldFits
  <1>6. AgreeFits'
    <2>1. LinesAgree([logs EXCEPT ![e.log] = Append(@, e)], Append(audit, e))
      BY <1>1, <1>3, AgreeNoted DEF AgreeFits
    <2> QED
      BY <2>1, <1>1, <1>4 DEF AgreeFits
  <1>7. CountersFit'
    <2>1. /\ CountersDue.records = Cardinality(Present(EffectiveRecords))
          /\ CountersDue.events = Len(EffectiveAudit)
      BY <1>1 DEF CountersFit
    <2>2. Cardinality(Present(EffectiveRecords)) \in Nat /\ Cardinality(Present(EffectiveRecords')) \in Nat
      BY PresentFinite
    <2>3. Len(EffectiveAudit') = Len(EffectiveAudit) + 1
      BY <1>3, <1>4
    <2>4. CountersDue' = [records |-> Cardinality(Present(EffectiveRecords')), events |-> Len(EffectiveAudit')]
      BY <2>1, <2>2, <2>3 DEF CountersFollow
    <2> QED
      BY <2>4 DEF CountersFit
  <1>8. AnswersFit'
    <2>1. acked' = acked /\ serving' = e
      BY DEF Noted
    <2>2. Holds(Append(audit, e), e) /\ \A a : Holds(audit, a) => Holds(Append(audit, e), a)
      BY <1>3, HoldsAppended
    <2> QED
      BY <2>1, <2>2, <1>1, <1>3, <1>4 DEF AnswersFit
  <1> QED
    BY <1>5, <1>6, <1>7, <1>8 DEF ContentFits

LEMMA ManifestContent ==
  ASSUME CInv, WriteManifest
  PROVE  ContentFits'
  <1>1. IInv /\ WorkFits /\ OldFits /\ AgreeFits /\ CountersFit /\ AnswersFit
    BY DEF CInv, ContentFits
  <1>2. PICK b \in BackupIds :
          /\ ListedBackups' = [ListedBackups EXCEPT ![b] = Picture]
          /\ UNCHANGED <<EffectiveRecords, EffectiveLogs, EffectiveAudit, CountersDue, nextOp>>
    BY <1>1, ManifestShown
  <1>3. /\ ListedBackups'[b] = Picture
        /\ \A c \in BackupIds \ {b} : ListedBackups'[c] = ListedBackups[c]
    BY <1>2 DEF ListedBackups
  <1>4. Picture.logs = EffectiveLogs /\ Picture.audit = EffectiveAudit
    BY DEF Picture
  <1>5. OldFits'
    BY <1>1, <1>2, <1>3, <1>4 DEF OldFits
  <1>6. AgreeFits'
    BY <1>1, <1>2, <1>3, <1>4 DEF AgreeFits
  <1>7. CountersFit'
    BY <1>1, <1>2 DEF CountersFit
  <1>8. acked' = acked /\ pc' = "noteBackup"
    BY DEF WriteManifest, Goto
  <1>9. AnswersFit'
    BY <1>1, <1>2, <1>8 DEF AnswersFit
  <1> QED
    BY <1>5, <1>6, <1>7, <1>9 DEF ContentFits

LEMMA MarkerContent ==
  ASSUME CInv, WriteMarker
  PROVE  ContentFits'
  <1>1. IInv /\ WorkFits /\ OldFits /\ AgreeFits
    BY DEF CInv, ContentFits
  <1>2. PICK b \in BackupIds, e \in Events :
           /\ e.n = nextOp + 1 /\ e.log = System /\ nextOp' = nextOp + 1 /\ serving' = e
           /\ ~ListedBackups[b].none
           /\ EffectiveRecords' = ListedBackups[b].recs
           /\ EffectiveLogs' = [ListedBackups[b].logs EXCEPT ![System] = Append(@, e)]
           /\ EffectiveAudit' = Append(ListedBackups[b].audit, e)
           /\ ListedBackups' = ListedBackups
           /\ CountersDue' = [records |-> Cardinality(Present(ListedBackups[b].recs)),
                              events  |-> Len(ListedBackups[b].audit) + 1]
           /\ acked' = {a \in acked : Holds(ListedBackups[b].audit, a)}
    BY <1>1, MarkerShown
  <1>3. nextOp \in Nat
    BY <1>1 DEF IInv, TypeOK
  <1>4. PICK audit \in Seq(Events), logs \in [Logs -> Seq(Events)], n \in Nat :
          audit = ListedBackups[b].audit /\ logs = ListedBackups[b].logs /\ n = nextOp
    BY <1>1, <1>2, <1>3, ListedTypes
  <1>5. /\ EffectiveLogs' = [logs EXCEPT ![e.log] = Append(@, e)]
        /\ EffectiveAudit' = Append(audit, e) /\ nextOp' = n + 1
    BY <1>2, <1>4
  <1>6. OldFits'
    <2>1. LinesOld([logs EXCEPT ![e.log] = Append(@, e)], Append(audit, e), n + 1)
      <3>1. LinesOld(logs, audit, n)
        BY <1>1, <1>2, <1>4 DEF OldFits
      <3>2. e.n <= n + 1
        BY <1>2, <1>4
      <3> QED
        BY <3>1, <3>2, OldNoted
    <2>2. \A c \in BackupIds : ~ListedBackups[c].none =>
            LinesOld(ListedBackups[c].logs, ListedBackups[c].audit, n + 1)
      <3> SUFFICES ASSUME NEW c \in BackupIds, ~ListedBackups[c].none
                   PROVE  LinesOld(ListedBackups[c].logs, ListedBackups[c].audit, n + 1)
        OBVIOUS
      <3>1. LinesOld(ListedBackups[c].logs, ListedBackups[c].audit, n)
        BY <1>1, <1>4 DEF OldFits
      <3> QED
        BY <1>1, <3>1, ListedTypes, OldLater
    <2> QED
      BY <2>1, <2>2, <1>2, <1>5 DEF OldFits
  <1>7. AgreeFits'
    <2>1. LinesAgree([logs EXCEPT ![e.log] = Append(@, e)], Append(audit, e))
      BY <1>1, <1>2, <1>4, AgreeNoted DEF AgreeFits
    <2> QED
      BY <2>1, <1>1, <1>2, <1>5 DEF AgreeFits
  <1>8. CountersFit'
    <2>1. Len(EffectiveAudit') = Len(audit) + 1
      BY <1>5
    <2> QED
      BY <2>1, <1>2, <1>4 DEF CountersFit
  <1>9. AnswersFit'
    <2>1. Holds(Append(audit, e), e) /\ \A a : Holds(audit, a) => Holds(Append(audit, e), a)
      BY HoldsAppended
    <2> QED
      BY <2>1, <1>2, <1>4, <1>5 DEF AnswersFit
  <1> QED
    BY <1>6, <1>7, <1>8, <1>9 DEF ContentFits

-----------------------------------------------------------------------------
(* The invariant, and the step of RecordLog that each step is *)

LEMMA InitContent == Init => CInv
  <1> SUFFICES ASSUME Init PROVE CInv
    OBVIOUS
  <1>1. IInv
    BY InitInv
  <1>2. /\ pending = None /\ marker = None /\ pc = "idle" /\ acked = {} /\ nextOp = 0
        /\ live.records = [i \in Ids |-> NoRecord] /\ live.audit = EmptyLog
        /\ live.events = [l \in Logs |-> EmptyLog]
        /\ backups = [b \in BackupIds |-> NoBackup] /\ counters = [records |-> 0, events |-> 0]
    BY DEF Init
  <1>3. WorkFits
    BY <1>2 DEF WorkFits, RestoreFits, EntryFits, BackupFits, NoBackup
  <1>4. /\ EffectiveRecords = [i \in Ids |-> NoRecord] /\ EffectiveAudit = <<>>
        /\ EffectiveLogs = [l \in Logs |-> <<>>]
        /\ CountersDue = [records |-> 0, events |-> 0]
    BY <1>2 DEF EffectiveRecords, EffectiveAudit, EffectiveLogs, Settled, Owed, LinesWith, CountersDue, EmptyLog
  <1>5. \A b \in BackupIds : ListedBackups[b].none
    BY <1>2 DEF ListedBackups, NoBackup
  <1>6. OldFits
    BY <1>4, <1>5 DEF OldFits, LinesOld, Within
  <1>7. AgreeFits
    <2>1. \A e \in Events : EffectiveLogs[e.log] = EffectiveAudit
      BY <1>4 DEF Events
    <2> QED
      BY <1>5, <2>1 DEF AgreeFits, LinesAgree
  <1>8. CountersFit
    <2>1. Present([i \in Ids |-> NoRecord]) = {}
      BY DEF Present
    <2>2. Cardinality(Present([i \in Ids |-> NoRecord])) = 0
      BY <2>1, FS_EmptySet
    <2> QED
      BY <1>4, <2>2 DEF CountersFit
  <1>9. AnswersFit
    BY <1>2 DEF AnswersFit
  <1> QED
    BY <1>1, <1>3, <1>6, <1>7, <1>8, <1>9 DEF CInv, ContentFits

\* Every step is quiet, or one of the three that have an effect.
LEMMA StepKinds ==
  Next => QuietMove \/ RequestMove \/ WriteManifest \/ WriteMarker
  BY DEF Next, Recover, Request, BackupStep, RestoreStep, QuietMove, StillMove, SweepMove, CopyMove, RequestMove

LEMMA NextContent == CInv /\ [Next]_vars => CInv'
  <1> SUFFICES ASSUME CInv, [Next]_vars PROVE CInv'
    OBVIOUS
  <1>1. IInv'
    BY NextInv DEF CInv
  <1>2. IInv /\ WorkFits /\ OldFits
    BY DEF CInv, ContentFits
  <1>3. CASE QuietMove
    BY <1>1, <1>3, QuietContent DEF CInv
  <1>4. CASE RequestMove
    <2>1. PICK e \in Events : Noted(e) /\ CountersFollow /\ WorkFits'
      BY <1>2, <1>4, RequestShown
    <2> QED
      BY <1>1, <2>1, NotedContent DEF CInv
  <1>5. CASE WriteManifest
    BY <1>1, <1>2, <1>5, ManifestShown, ManifestContent DEF CInv
  <1>6. CASE WriteMarker
    BY <1>1, <1>2, <1>6, MarkerShown, MarkerContent DEF CInv
  <1>7. CASE UNCHANGED vars
    <2>1. UNCHANGED <<Shown, nextOp, acked, serving, pc>>
      BY <1>7, SameDisk DEF vars, disk
    <2>2. ContentFits'
      BY <2>1 DEF CInv, ContentFits, Shown, OldFits, AgreeFits, CountersFit, AnswersFit
    <2>3. WorkFits'
      BY <1>7 DEF vars, CInv, WorkFits, RestoreFits, EntryFits, BackupFits
    <2> QED
      BY <1>1, <2>2, <2>3 DEF CInv
  <1> QED
    BY <1>3, <1>4, <1>5, <1>6, <1>7, StepKinds

\* The inductive invariant holds in every reachable state.
THEOREM ContentInvariance == Spec => []CInv
  BY InitContent, NextContent, PTL DEF Spec

\* The next operation id is on no line shown.
LEMMA FreshId ==
  ASSUME CInv, NEW e \in Events, e.n = nextOp + 1
  PROVE  Promise!Fresh(e)
  <1>1. Within(EffectiveAudit, nextOp) /\ nextOp \in Nat /\ EffectiveAudit \in Seq(Events)
    BY EffectiveTypes DEF CInv, ContentFits, OldFits, LinesOld, IInv, TypeOK
  <1>2. \A k \in 1..Len(EffectiveAudit) : EffectiveAudit[k].n <= nextOp /\ EffectiveAudit[k] \in Events
    BY <1>1 DEF Within
  <1> QED
    BY <1>1, <1>2 DEF Promise!Fresh, Events

\* Every step of the store is a step of RecordLog or leaves what is shown alone.
LEMMA StepRefines == CInv /\ [Next]_vars => [Promise!Next]_(Promise!vars)
  <1> SUFFICES ASSUME CInv, [Next]_vars PROVE [Promise!Next]_(Promise!vars)
    OBVIOUS
  <1> USE DEF Promise!vars
  <1>1. IInv /\ WorkFits /\ OldFits /\ Promise!Events = Events
    BY DEF CInv, ContentFits, Promise!Events, Promise!Logs, Events, Logs
  <1>2. CASE QuietMove
    BY <1>2, QuietContent DEF Shown
  <1>3. CASE RequestMove
    <2>1. PICK e \in Events : Noted(e) /\ LogStep(e)
      BY <1>1, <1>3, RequestShown
    <2>2. Promise!Fresh(e)
      BY <2>1, FreshId DEF Noted
    <2> QED
      BY <1>1, <2>1, <2>2 DEF LogStep, Promise!Next
  <1>4. CASE WriteManifest
    <2>1. PICK b \in BackupIds :
            /\ UNCHANGED <<EffectiveRecords, EffectiveLogs, EffectiveAudit>>
            /\ ListedBackups[b] = Promise!NoBackup
            /\ ListedBackups' = [ListedBackups EXCEPT ![b] = Picture]
      BY <1>1, <1>4, ManifestShown
    <2>2. Promise!Backup(b)
      BY <2>1 DEF Promise!Backup, Picture
    <2> QED
      BY <2>2 DEF Promise!Next
  <1>5. CASE WriteMarker
    <2>1. PICK b \in BackupIds, e \in Events :
           /\ e.n = nextOp + 1 /\ e.log = System
           /\ ~ListedBackups[b].none
           /\ EffectiveRecords' = ListedBackups[b].recs
           /\ EffectiveLogs' = [ListedBackups[b].logs EXCEPT ![System] = Append(@, e)]
           /\ EffectiveAudit' = Append(ListedBackups[b].audit, e)
           /\ ListedBackups' = ListedBackups
      BY <1>1, <1>5, MarkerShown
    <2>2. Promise!Restore(b, e)
      BY <2>1 DEF Promise!Restore
    <2>3. Promise!Fresh(e)
      BY <2>1, FreshId
    <2> QED
      BY <1>1, <2>2, <2>3 DEF Promise!Next
  <1>6. CASE UNCHANGED vars
    BY <1>6, SameDisk DEF vars, disk, Shown
  <1> QED
    BY <1>2, <1>3, <1>4, <1>5, <1>6, StepKinds

\* Every operation of the durable store takes effect as a whole, once, or not at
\* all: read as what is on disk plus what the journal and the restore marker still
\* owe, it behaves like RecordLog through every stop, fault and recovery.
THEOREM JsonStoreIsARecordLog == Spec => ImplementsRecordLog
  <1>1. Init => Promise!Init
    <2> SUFFICES ASSUME Init PROVE Promise!Init
      OBVIOUS
    <2>1. /\ EffectiveRecords = [i \in Ids |-> NoRecord] /\ EffectiveAudit = <<>>
          /\ EffectiveLogs = [l \in Logs |-> <<>>]
      BY DEF Init, EffectiveRecords, EffectiveAudit, EffectiveLogs, Settled, Owed, LinesWith, EmptyLog
    <2>2. ListedBackups = [b \in BackupIds |-> Promise!NoBackup]
      BY DEF Init, ListedBackups, NoBackup, Promise!NoBackup
    <2> QED
      BY <2>1, <2>2 DEF Promise!Init, Promise!Logs, Logs
  <1> QED
    BY <1>1, StepRefines, ContentInvariance, PTL DEF Spec, ImplementsRecordLog, Promise!Spec

\* An event answered with success stays in the audit stream, until a restore to a
\* backup that does not hold it.
THEOREM AcknowledgedStays == Spec => []AcknowledgedSurvives
  <1>1. CInv => AcknowledgedSurvives
    BY DEF CInv, ContentFits, AnswersFit, AcknowledgedSurvives, Holds
  <1> QED
    BY <1>1, ContentInvariance, PTL

LEMMA OccurrencesAreTimes == ASSUME NEW log, NEW e PROVE Occurrences(log, e) = Times(log.lines, e)
  BY DEF Occurrences, Times

\* Wherever a request is served, counters.json counts the records and the events, and
\* the record logs and the audit stream hold the same events equally often.
THEOREM CountsStayTrue == Spec => []ServesTrueCounts
  <1>1. CInv => ServesTrueCounts
    <2> SUFFICES ASSUME CInv, pc \in ServePlaces
                 PROVE  /\ counters = [records |-> Cardinality(Present(live.records)), events |-> Len(live.audit.lines)]
                        /\ EventsAgree(live.events, live.audit)
      BY DEF ServesTrueCounts
    <2>1. pending = None /\ marker = None /\ IInv
      BY DEF CInv, IInv, PlaceFits
    <2>2. /\ EffectiveRecords = live.records /\ EffectiveAudit = live.audit.lines
          /\ EffectiveLogs = [l \in Logs |-> live.events[l].lines] /\ CountersDue = counters
      BY <2>1 DEF EffectiveRecords, EffectiveAudit, EffectiveLogs, Settled, Owed, LinesWith, CountersDue
    <2>3. counters = [records |-> Cardinality(Present(live.records)), events |-> Len(live.audit.lines)]
      BY <2>2 DEF CInv, ContentFits, CountersFit
    <2>4. \A e \in Events : Times(live.events[e.log].lines, e) = Times(live.audit.lines, e)
      BY <2>2 DEF CInv, ContentFits, AgreeFits, LinesAgree, Events
    <2> QED
      BY <2>3, <2>4, OccurrencesAreTimes DEF EventsAgree
  <1> QED
    BY <1>1, ContentInvariance, PTL

\* A backup with a manifest is complete and passes every check of restore, whenever
\* the process stopped while it was copied, and whatever happened since.
THEOREM BackupsStayRestorable == Spec => []ListedBackupsRestore
  <1>1. CInv => ListedBackupsRestore
    <2> SUFFICES ASSUME CInv, NEW b \in BackupIds, backups[b].manifest # None
                 PROVE  /\ backups[b].records # Gone /\ backups[b].events # Gone /\ Whole(backups[b].audit)
                        /\ \A l \in Logs : Whole(backups[b].events[l])
                        /\ Restorable(b)
      BY DEF ListedBackupsRestore
    <2>1. IInv /\ ~ListedBackups[b].none
      BY DEF CInv, ListedBackups
    <2>2. /\ backups[b].events \in EventsDir /\ backups[b].audit \in Log /\ backups[b].records \in RecordsDir
          /\ ListedBackups[b].logs = [l \in Logs |-> backups[b].events[l].lines]
          /\ ListedBackups[b].audit = backups[b].audit.lines
      <3>1. backups[b].events \in EventsDir /\ backups[b].audit \in Log /\ backups[b].records \in RecordsDir
        BY <2>1, ListedTypes
      <3>2. /\ ListedBackups[b].logs = [l \in Logs |-> backups[b].events[l].lines]
            /\ ListedBackups[b].audit = backups[b].audit.lines
        BY DEF ListedBackups
      <3> QED
        BY <3>1, <3>2
    <2>3. /\ backups[b].records # Gone /\ backups[b].events # Gone /\ Whole(backups[b].audit)
          /\ \A l \in Logs : Whole(backups[b].events[l])
      BY <2>1, <2>2, SentinelsDiffer DEF IInv, CopiesQuiet, QuietEvents, Whole, EventsDir
    <2>4. \A e \in Events : Times(backups[b].events[e.log].lines, e) = Times(backups[b].audit.lines, e)
      BY <2>1, <2>2 DEF CInv, ContentFits, AgreeFits, LinesAgree, Events
    <2>5. Present(backups[b].records) = backups[b].manifest
      BY DEF CInv, WorkFits, BackupFits
    <2> QED
      BY <2>3, <2>4, <2>5, OccurrencesAreTimes DEF Restorable, EventsAgree
  <1> QED
    BY <1>1, ContentInvariance, PTL
=============================================================================
