---------------------------- MODULE RecordCommands ----------------------------
(***************************************************************************)
(* What the record API promises of one record: it is created once, and     *)
(* then changed by whole commands, each of an actor whom the roles of the  *)
(* record, as it is at that instant, permit the command.                   *)
(***************************************************************************)
EXTENDS WorkRecord

CONSTANTS Users,        \* the configured accounts
          AccountRole,  \* their default role, from the auth configuration
          Commands,     \* the commands that clients send
          MaxChanges    \* bound on the changes of the record

VARIABLES record,       \* the stored document, or NoRecord
          changes       \* how many changes were committed, each with its event

vars == <<record, changes>>

\* The permissions a command needs of the record it changes.
RequiredPermissions(c) ==
  CASE c.type = "patch" ->
         {IF f = "title" THEN "edit_record" ELSE "edit_members" : f \in c.fields}
    [] c.type = "add-member" -> {}
    [] c.type \in {"import-eaf", "import-otio"} -> {"import"}
    [] OTHER -> {CommandPermissions[c.type]}

\* Who may not edit members may invite, as faculty, a faculty account.
MayInvite(rec, user, c) ==
  \/ CanMutate(rec, user, "edit_members")
  \/ /\ CanMutate(rec, user, "invite_faculty")
     /\ c.role = "faculty"
     /\ AccountRole[c.user] = "faculty"

Permitted(rec, user, c) ==
  /\ user \in DOMAIN rec.members
  /\ \A mutation \in RequiredPermissions(c) : CanMutate(rec, user, mutation)
  /\ c.type = "add-member" => MayInvite(rec, user, c)

\* Only an account with the role admin makes somebody admin, and a list of
\* members that replaces another names somebody who can edit it.
GivesRole(c, role) ==
  \/ c.type = "add-member" /\ c.role = role
  \/ /\ c.type = "patch" /\ "members" \in c.fields
     /\ \E u \in DOMAIN c.members : c.members[u] = role

Lawful(user, c) ==
  /\ GivesRole(c, "admin") => AccountRole[user] = "admin"
  /\ c.type = "patch" /\ "members" \in c.fields =>
       GivesRole(c, "faculty") \/ GivesRole(c, "admin")

Written(rec, previous) == [rec EXCEPT !.revision = previous.revision + 1]

-----------------------------------------------------------------------------
Init == record = NoRecord /\ changes = 0

Create(user) ==
  /\ record = NoRecord
  /\ AccountRole[user] \in {"student", "faculty", "admin"}
  /\ record' = addMember(createEmptyRecord("Untitled"), user, AccountRole[user])
  /\ changes' = changes + 1

Change(user, c) ==
  /\ record # NoRecord
  /\ changes <= MaxChanges
  /\ Permitted(record, user, c)
  /\ Lawful(user, c)
  /\ LET next == transitionWorkRecord(record, c, user)
     IN /\ next.error = "none"
        /\ AggregateInvariants(next.record)
        /\ record' = Written(next.record, record)
  /\ changes' = changes + 1

Next == \E user \in Users : Create(user) \/ \E c \in Commands : Change(user, c)

Spec == Init /\ [][Next]_vars
-----------------------------------------------------------------------------
(* Every change that the transitions accept yields a document that can be  *)
(* parsed again, so that no command fails after it was found legal: the    *)
(* checks of record-mutations.ts and evidence.ts are as strong as those of *)
(* aggregate-invariants.ts.                                                *)
TransitionsParse ==
  record # NoRecord =>
    \A user \in DOMAIN record.members, c \in Commands :
      LET next == transitionWorkRecord(record, c, user)
      IN next.error = "none" => AggregateInvariants(next.record)

(* A submitted version and the snapshot it names are never changed or      *)
(* removed by a later change (submitVersion, addSnapshot).                 *)
Snapshot(rec, ref) ==
  {rec.snapshots[i].artifacts : i \in
     {j \in DOMAIN rec.snapshots : rec.snapshots[j].id = ref}}

VersionsStand ==
  [][ record # NoRecord =>
        \A i \in DOMAIN record.versions :
          /\ i \in DOMAIN record'.versions
          /\ record'.versions[i] = record.versions[i]
          /\ Snapshot(record', record.versions[i].ref) =
               Snapshot(record, record.versions[i].ref) ]_vars

(* Once a subject denied or withdrew a use, no later state of the record   *)
(* lets evidence that shows the subject leave for that use                 *)
(* (evaluateExplicitRequest).                                              *)
Refused(rec, subject, use) ==
  \E p \in DOMAIN rec.policies :
    /\ rec.policies[p].subject = subject
    /\ rec.policies[p].use = use
    /\ rec.policies[p].state \in {"denied", "withdrawn"}

Shows(rec, subject) ==
  \E a \in DOMAIN rec.artifacts : subject \in rec.artifacts[a].subjects

RefusalStands ==
  [][ record # NoRecord =>
        \A s \in record.subjects, use \in {"assessment", "archive"} :
          Refused(record, s, use) /\ Shows(record', s) =>
            ~evaluateExportPolicy(record', "explicit", use) ]_vars

(* The versions that the commands submit, and that no snapshot of a command *)
(* has an id like one that submitVersion generates (snapshot-<name>-<n>):   *)
(* nothing in the code sees to it.                                          *)
VersionNames == {c.name : c \in {b \in Commands : b.type = "submit-version"}}

OwnSnapshotIds ==
  \A c \in Commands : c.type = "add-snapshot" => c.id \notin VersionNames \X Nat

(* A submit of a new name creates its version and the snapshot of it        *)
(* (record-mutations.ts:75): the document it yields can be stored.          *)
SubmitCreatesVersion ==
  record # NoRecord =>
    \A c \in {d \in Commands : d.type = "submit-version"} :
      LET next == submitVersion(record, c).record
      IN /\ AggregateInvariants(next)
         /\ \E i \in DOMAIN next.versions : next.versions[i].name = c.name

(* What was recorded stands: versions, snapshots and refusals, through any *)
(* later command of anybody.                                               *)
HistoryStands == VersionsStand /\ RefusalStands
=============================================================================
