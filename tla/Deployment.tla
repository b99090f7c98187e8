------------------------------ MODULE Deployment ------------------------------
(***************************************************************************)
(* How a PostgreSQL deployment comes to be: operators run the schema       *)
(* command, the import of a JSON tenant and API processes, several at      *)
(* once, and any of them may die between two steps.  A component's         *)
(* migrations are one transaction under an advisory lock; an import reads  *)
(* files that a JSON process may have left half written and puts all of it *)
(* into empty tables in one transaction; a process serves only on a        *)
(* migrated schema.                                                        *)
(***************************************************************************)
EXTENDS Naturals, Sequences, FiniteSets, SequencesExt

CONSTANTS Commands,     \* the runs of commands and processes
          Asks,         \* what they may be asked: "schema", "dry", "apply", "serve"
          Components,   \* the components in the order in which they are migrated
          Releases,     \* [release -> [component -> its migrations, in order]]
          Ids,          \* record ids of the tenant
          Objects,      \* [storage key -> [id, whole]]: the media of the destination
          Unset,        \* no record, no key
          MaxWrites     \* bound on the writes of the JSON process

VARIABLES tables,       \* committed tables: "ledger" and one per migration
          ledger,       \* committed rows of the ledger
          cmd,          \* [Commands -> one run of a command]
          source,       \* the JSON tenant: [records, events, audit, pending]
          writing,      \* the operation its process is in, or Unset
          writes,
          stopped,      \* whether the operator stopped that process
          target,       \* the destination: [rows, log, media]
          served        \* whether an API process has changed the destination

vars == <<tables, ledger, cmd, source, writing, writes, stopped, target, served>>
schemaVars == <<tables, ledger>>
sourceVars == <<source, writing, writes, stopped>>

Fresh == [does |-> "none", release |-> 0, step |-> "new", left |-> <<>>, made |-> {}, next |-> Unset,
          records |-> <<>>, audit |-> <<>>, media |-> <<>>]
Run(p) == cmd[p]
Goes(p, run) == cmd' = [cmd EXCEPT ![p] = run]
Ends(p, step) == Goes(p, [Fresh EXCEPT !.does = Run(p).does, !.step = step])
At(p, does, step) == Run(p).does \in does /\ Run(p).step = step
Others(p) == Commands \ {p}
Imports == {"dry", "apply"}
Ended == {"done", "refused", "raced", "collided", "dead"}

-----------------------------------------------------------------------------
(* The schema command.                                                     *)

AskSchema(p) ==
  /\ Run(p) = Fresh /\ "schema" \in Asks
  /\ \E v \in DOMAIN Releases :
       Goes(p, [Fresh EXCEPT !.does = "schema", !.release = v, !.step = "look", !.left = Components])
  /\ UNCHANGED <<schemaVars, sourceVars, target, served>>

\* CREATE TABLE IF NOT EXISTS looks for the ledger ...
LookForLedger(p) ==
  /\ At(p, {"schema"}, "look")
  /\ Goes(p, [Run(p) EXCEPT !.step = IF "ledger" \in tables THEN "lock" ELSE "make"])
  /\ UNCHANGED <<schemaVars, sourceVars, target, served>>

\* ... and makes it: if somebody else is making it, it waits, and fails if that one commits.
MakeLedger(p) ==
  /\ At(p, {"schema"}, "make")
  /\ \A o \in Others(p) : "ledger" \notin Run(o).made
  /\ IF "ledger" \in tables THEN Goes(p, [Run(p) EXCEPT !.step = "raced"])
     ELSE Goes(p, [Run(p) EXCEPT !.step = "lock", !.made = {"ledger"}])
  /\ UNCHANGED <<schemaVars, sourceVars, target, served>>

\* Mutant: the lock is not taken, every command goes on.
LockComponent_Free(p) ==
  /\ At(p, {"schema"}, "lock")
  /\ Goes(p, [Run(p) EXCEPT !.step = "apply"])
  /\ UNCHANGED <<schemaVars, sourceVars, target, served>>

\* The advisory lock of the component, held to the end of the transaction.
LockComponent(p) ==
  /\ At(p, {"schema"}, "lock")
  /\ \A o \in Others(p) : Run(o).step \in {"apply", "create"} => Head(Run(o).left) # Head(Run(p).left)
  /\ Goes(p, [Run(p) EXCEPT !.step = "apply"])
  /\ UNCHANGED <<schemaVars, sourceVars, target, served>>

\* The migrations of the component that this transaction still has to look at.
Missing(p) == LET all == Releases[Run(p).release][Head(Run(p).left)]
              IN SelectSeq(all, LAMBDA m : m \notin ledger \cup Run(p).made)

\* The ledger is asked for a migration ...
CheckMigration(p) ==
  /\ At(p, {"schema"}, "apply") /\ Missing(p) # <<>>
  /\ Goes(p, [Run(p) EXCEPT !.step = "create", !.next = Head(Missing(p))])
  /\ UNCHANGED <<schemaVars, sourceVars, target, served>>

\* ... and if it names none, the migration is run: its CREATE TABLE waits for whoever makes
\* the same table, and fails if that one commits.
RunMigration(p) ==
  /\ At(p, {"schema"}, "create")
  /\ \A o \in Others(p) : Run(p).next \notin Run(o).made
  /\ IF Run(p).next \in tables THEN Ends(p, "collided")
     ELSE Goes(p, [Run(p) EXCEPT !.step = "apply", !.made = @ \cup {Run(p).next}, !.next = Unset])
  /\ UNCHANGED <<schemaVars, sourceVars, target, served>>

\* Mutant: every migration commits on its own.
CommitComponent_Each(p) ==
  /\ At(p, {"schema"}, "apply")
  /\ tables' = tables \cup Run(p).made /\ ledger' = ledger \cup (Run(p).made \ {"ledger"})
  /\ LET whole == Missing(p) = <<>>
         rest == IF whole THEN Tail(Run(p).left) ELSE Run(p).left
     IN Goes(p, [Run(p) EXCEPT !.made = {}, !.left = rest,
          !.step = IF ~whole THEN "apply" ELSE IF rest = <<>> THEN "done" ELSE "look"])
  /\ UNCHANGED <<sourceVars, target, served>>

CommitComponent(p) ==
  /\ At(p, {"schema"}, "apply") /\ Missing(p) = <<>>
  /\ tables' = tables \cup Run(p).made /\ ledger' = ledger \cup (Run(p).made \ {"ledger"})
  /\ LET rest == Tail(Run(p).left)
     IN Goes(p, [Run(p) EXCEPT !.made = {}, !.left = rest,
                               !.step = IF rest = <<>> THEN "done" ELSE "look"])
  /\ UNCHANGED <<sourceVars, target, served>>

-----------------------------------------------------------------------------
(* The JSON process that owns the source: one journalled operation at a    *)
(* time on a record, its event and the audit; killed at any step, it       *)
(* leaves the journal behind.                                              *)

Operations == [id : Ids, kind : {"create", "mutate", "delete"}]
Lawful(op, records) ==   \* a delete of nothing is still noted
  op.kind \in IF records[op.id] = Unset THEN {"create", "delete"} ELSE {"mutate", "delete"}
Changed(op, record) ==
  CASE op.kind = "create" -> [rev |-> 0, take |-> Unset]
    [] op.kind = "mutate" -> [rev |-> record.rev + 1, take |-> record.take]
    [] op.kind = "delete" -> Unset
Event(op) == [id |-> op.id, kind |-> op.kind]

WriterStarts ==
  /\ ~stopped /\ writing = Unset /\ writes < MaxWrites /\ Asks \cap Imports # {}
  /\ \E op \in Operations :
       /\ Lawful(op, source.records)
       /\ writing' = [op |-> op, step |-> "record"]
  /\ source' = [source EXCEPT !.pending = TRUE] /\ writes' = writes + 1
  /\ UNCHANGED <<schemaVars, cmd, stopped, target, served>>

WriterSteps ==
  /\ ~stopped /\ writing # Unset
  /\ LET op == writing.op
         Then(step) == writing' = [writing EXCEPT !.step = step]
     IN \/ /\ writing.step = "record" /\ Then("event")
           /\ source' = [source EXCEPT !.records[op.id] = Changed(op, @)]
        \/ /\ writing.step = "event" /\ Then("audit")
           /\ source' = [source EXCEPT !.events[op.id] = Append(@, Event(op))]
        \/ /\ writing.step = "audit" /\ Then("clear")
           /\ source' = [source EXCEPT !.audit = Append(@, Event(op))]
        \/ /\ writing.step = "clear" /\ writing' = Unset
           /\ source' = [source EXCEPT !.pending = FALSE]
  /\ UNCHANGED <<schemaVars, cmd, writes, stopped, target, served>>

\* The operator stops it, or it dies, wherever it is.
StopWriter ==
  /\ ~stopped /\ Asks \cap Imports # {} /\ stopped' = TRUE
  /\ UNCHANGED <<schemaVars, cmd, source, writing, writes, target, served>>

\* Started again, it first ends the operation that the journal holds.
StartWriter ==
  /\ stopped /\ target.log = <<>> /\ \A p \in Commands : Run(p).does # "apply"
  /\ stopped' = FALSE
  /\ UNCHANGED <<schemaVars, cmd, source, writing, writes, target, served>>

-----------------------------------------------------------------------------
(* The import.  A dry run may be asked for at any time; --apply needs the  *)
(* operator's word that the writers of both sides are stopped.             *)

Serving == {p \in Commands : At(p, {"serve"}, "serving")}

AskImport(p) ==
  /\ Run(p) = Fresh
  /\ \E does \in Imports \cap Asks :
       /\ does = "apply" => stopped /\ Serving = {}
       /\ Goes(p, [Fresh EXCEPT !.does = does, !.step = "read"])
  /\ UNCHANGED <<schemaVars, sourceVars, target, served>>

Refuses(p) == Ends(p, "refused")

Times(seq, e) == Len(SelectSeq(seq, LAMBDA f : f = e))
Agree(files, audit) ==
  \A op \in Operations : Times(files[op.id], Event(op)) = Times(audit, Event(op))

\* Mutant: an unfinished operation of the JSON store is not looked for.
Readable_Pending(store) == Agree(store.events, store.audit)

\* Nothing unfinished in the journal, and the event files say what the audit says.
Readable(store) == ~store.pending /\ Agree(store.events, store.audit)

\* Journal, records, audit and events are read one after another; nobody writes meanwhile
\* when it is for an --apply, and a dry run keeps nothing of what it reads.
ReadSnapshot(p) ==
  /\ At(p, Imports, "read")
  /\ IF Readable(source)
     THEN Goes(p, [Run(p) EXCEPT !.step = "inventory", !.records = source.records,
                                 !.audit = source.audit])
     ELSE Refuses(p)
  /\ UNCHANGED <<schemaVars, sourceVars, target, served>>

\* The inventory that the operator hands over: a take's object is listed as attached, an
\* attached object is some take's, every listed object is there with all its bytes, and a
\* filesystem holds no object that is not listed.
Takes(records) == {<<records[i].take, i>> : i \in {j \in DOMAIN records :
                                            records[j] # Unset /\ records[j].take # Unset}}
Accepted(inventory, records, filesystem) ==
  /\ Takes(records) = {<<k, Objects[k].id>> : k \in {j \in DOMAIN inventory : inventory[j] = "attached"}}
  /\ \A k \in DOMAIN inventory : Objects[k].whole
  /\ filesystem => DOMAIN Objects = DOMAIN inventory

ReadInventory(p) ==
  /\ At(p, Imports, "inventory")
  /\ \E K \in SUBSET DOMAIN Objects, filesystem \in BOOLEAN :
       \E inventory \in [K -> {"attached", "cleanup_pending"}] :
         IF Accepted(inventory, Run(p).records, filesystem)
         THEN Goes(p, [Run(p) EXCEPT !.step = "import", !.media = inventory])
         ELSE Refuses(p)
  /\ UNCHANGED <<schemaVars, sourceVars, target, served>>

NoRows == [i \in Ids |-> Unset]
Migrated(component) == \E v \in DOMAIN Releases : ToSet(Releases[v][component]) \subseteq ledger

\* Mutant: only the rows have to be absent, whatever the log says happened.
ImportRecords_RowsOnly(p) ==
  /\ At(p, Imports, "import")
  /\ \A o \in Others(p) : Run(o).step # "media"
  /\ IF Migrated("record-store") /\ target.rows = NoRows
     THEN Goes(p, [Run(p) EXCEPT !.step = "media"]) ELSE Refuses(p)
  /\ UNCHANGED <<schemaVars, sourceVars, target, served>>

\* The transaction opens under the import lock and finds no row, no event, no count.
ImportRecords(p) ==
  /\ At(p, Imports, "import")
  /\ \A o \in Others(p) : Run(o).step # "media"
  /\ IF Migrated("record-store") /\ target.rows = NoRows /\ target.log = <<>>
     THEN Goes(p, [Run(p) EXCEPT !.step = "media"]) ELSE Refuses(p)
  /\ UNCHANGED <<schemaVars, sourceVars, target, served>>

\* Then the media, in the same transaction: nothing of it stays if their tables are in use.
ImportMedia(p) ==
  /\ At(p, Imports, "media")
  /\ IF ~Migrated("media-store") \/ target.media # <<>>
     THEN Refuses(p) /\ UNCHANGED target
     ELSE IF Run(p).does = "dry" THEN Ends(p, "done") /\ UNCHANGED target
     ELSE /\ Goes(p, [Fresh EXCEPT !.does = "apply", !.step = "done", !.audit = Run(p).audit])
          /\ target' = [rows |-> Run(p).records, log |-> Run(p).audit, media |-> Run(p).media]
  /\ UNCHANGED <<schemaVars, sourceVars, served>>

-----------------------------------------------------------------------------
(* API processes, and the end of a run.                                    *)

\* Mutant: a process asks for the migrations of its records only.
Required_Records(release) == ToSet(Releases[release]["record-store"])
Required(release) == UNION {ToSet(Releases[release][c]) : c \in ToSet(Components)}

Serve(p) ==
  /\ Run(p) = Fresh /\ "serve" \in Asks
  /\ \A o \in Commands : Run(o).does = "apply" => Run(o).step \in Ended
  /\ \E v \in DOMAIN Releases :
       Goes(p, [Fresh EXCEPT !.does = "serve", !.release = v,
                             !.step = IF Required(v) \subseteq ledger THEN "serving" ELSE "refused"])
  /\ UNCHANGED <<schemaVars, sourceVars, target, served>>

\* What a process that serves does to the tables: one committed operation.
ServeWrite(p) ==
  /\ p \in Serving /\ writes < MaxWrites
  /\ \E op \in Operations :
       /\ Lawful(op, target.rows)
       /\ target' = [target EXCEPT !.rows[op.id] = Changed(op, @), !.log = Append(@, Event(op))]
  /\ served' = TRUE /\ writes' = writes + 1
  /\ UNCHANGED <<schemaVars, cmd, source, writing, stopped>>

\* Killed, or an error of the connection: what was not committed is rolled back.
Dies(p) ==
  /\ Run(p).step \notin Ended \cup {"new"}
  /\ Ends(p, "dead")
  /\ UNCHANGED <<schemaVars, sourceVars, target, served>>

\* Where the schema command is asked for, nothing is there; elsewhere some components are.
Init ==
  /\ \E C \in SUBSET ToSet(Components) :
       /\ "schema" \in Asks => C = {}
       /\ ledger = UNION {ToSet(Releases[1][c]) : c \in C}
       /\ tables = ledger \cup (IF C = {} THEN {} ELSE {"ledger"})
  /\ cmd = [p \in Commands |-> Fresh]
  /\ writing = Unset /\ writes = 0 /\ stopped = FALSE /\ served = FALSE
  /\ target = [rows |-> NoRows, log |-> <<>>, media |-> <<>>]
  /\ \E i \in Ids, k \in DOMAIN Objects \cup {Unset} :
       LET made == [id |-> i, kind |-> "create"]
       IN source = [records |-> [NoRows EXCEPT ![i] = [rev |-> 0, take |-> k]],
                    events  |-> [j \in Ids |-> IF j = i THEN <<made>> ELSE <<>>],
                    audit   |-> <<made>>, pending |-> FALSE]

Next ==
  \/ WriterStarts \/ WriterSteps \/ StopWriter \/ StartWriter
  \/ \E p \in Commands :
       \/ AskSchema(p) \/ LookForLedger(p) \/ MakeLedger(p) \/ LockComponent(p)
       \/ CheckMigration(p) \/ RunMigration(p) \/ CommitComponent(p)
       \/ AskImport(p) \/ ReadSnapshot(p) \/ ReadInventory(p) \/ ImportRecords(p) \/ ImportMedia(p)
       \/ Serve(p) \/ ServeWrite(p) \/ Dies(p)

Spec == Init /\ [][Next]_vars

-----------------------------------------------------------------------------
(* What an operator may rely on.                                           *)

\* The ledger says what the schema is: a component is at some release or absent, never in
\* between, however the commands interleave and die; nobody who serves lacks a migration;
\* and no command runs a migration that another one ran.
SchemaIsWhole ==
  /\ tables \ {"ledger"} = ledger
  /\ \A c \in ToSet(Components) :
       LET of(v) == ToSet(Releases[v][c])
       IN ledger \cap UNION {of(v) : v \in DOMAIN Releases}
            \in {{}} \cup {of(v) : v \in DOMAIN Releases}
  /\ \A p \in Commands : Run(p).step # "collided"
  /\ \A p \in Serving, c \in ToSet(Components) : ToSet(Releases[Run(p).release][c]) \subseteq ledger

\* The state that a sequence of events leaves an id in.
Told(log, i) ==
  LET own == SelectSeq(log, LAMBDA e : e.id = i)
      births == {k \in DOMAIN own : own[k].kind = "create"}
  IN IF own = <<>> \/ Last(own).kind = "delete" THEN Unset
     ELSE Cardinality({k \in DOMAIN own : own[k].kind = "mutate" /\ \A b \in births : b < k})

\* An import brings the whole tenant or nothing, once: records at the revisions that the
\* imported log tells, the log of the source, every take with its object.
ImportIsFaithful ==
  /\ Cardinality({p \in Commands : At(p, {"apply"}, "done") /\ Run(p).audit # <<>>}) <= 1
  /\ \A i \in Ids : Told(target.log, i) = IF target.rows[i] = Unset THEN Unset ELSE target.rows[i].rev
  /\ ~served /\ target.log # <<>> =>
       /\ target.rows = source.records /\ target.log = source.audit
       /\ \A t \in Takes(target.rows) : t[1] \in DOMAIN target.media /\ Objects[t[1]].whole
       /\ \E p \in Commands : At(p, {"apply"}, "done")

DeploymentIsSound == SchemaIsWhole /\ ImportIsFaithful
=============================================================================
