------------------------------- MODULE RecordApi -------------------------------
(***************************************************************************)
(* Concurrent requests of the relay API to one record of the PostgreSQL    *)
(* record store.  A request is authorised on a record it reads first, then *)
(* waits for its body, and then changes the record, or decides an export,  *)
(* in a later transaction, between which other requests commit.            *)
(*                                                                         *)
(* The record of PostgreSQL is `store`, its rows of the event table are    *)
(* counted by `events`.  `unseen` is history: a change with If-Match was   *)
(* applied to another document than its client had seen.                   *)
(***************************************************************************)
EXTENDS WorkRecord

CONSTANTS Users, AccountRole,
          Commands,     \* bodies of commands and of exports
          Requests,     \* requests that are served at the same time
          MaxChanges,   \* bound on committed changes
          NoRevision

Exports == {"share", "evidence-export", "interop-export"}
Imports == {"import-eaf", "import-otio"}

\* A body that its route parses: the members it names are configured accounts
\* (configuredMembersProblem).
IsBody(c) ==
  /\ c.type \in Exports \union {"create"} \/ IsCommand(c)
  /\ c.type = "add-member" => c.user \in Users
  /\ c.type = "patch" => DOMAIN c.members \subseteq Users

ASSUME RecordApiAssumption ==
  /\ NoRevision \notin Nat
  /\ AccountRole \in [Users -> Roles]
  /\ \A c \in Commands : IsBody(c)

VARIABLES store,        \* the row: a document, or NoRecord
          events,       \* how many rows the event table has
          auditCount,   \* audit_event_count of the counters' row
          request,      \* where each request is
          unseen

vars == <<store, events, auditCount, request, unseen>>

Idle == [pc |-> "idle"]

Abstract == INSTANCE RecordCommands WITH
  Commands <- {c \in Commands : c.type \notin Exports \union {"create"}},
  record   <- store,
  changes  <- events

-----------------------------------------------------------------------------
(* What the handlers ask before the body and of the body.                  *)

\* Any one of these is enough to have the body read.
AccessMutations(c) ==
  CASE c.type = "patch" -> {"edit_record", "edit_members"}
    [] c.type = "add-member" -> {"edit_members", "invite_faculty"}
    [] c.type = "share" -> {"share"}
    [] c.type = "evidence-export" -> {"export"}
    [] c.type \in Imports \union {"interop-export"} -> {"import", "export"}
    [] OTHER -> {CommandPermissions[c.type]}

CanAny(record, user, mutations) ==
  \E mutation \in mutations : CanMutate(record, user, mutation)

\* requireAnyMutationAccess: 0 stands for "go on".
Access(record, user, c) ==
  IF record = NoRecord THEN 404
  ELSE IF user \notin DOMAIN record.members THEN 403
  ELSE IF ~CanAny(record, user, AccessMutations(c)) THEN 403 ELSE 0

AdminAssignmentProblem(user, c) ==
  AccountRole[user] # "admin"
    /\ \/ c.type = "add-member" /\ c.role = "admin"
       \/ /\ c.type = "patch" /\ "members" \in c.fields
          /\ \E u \in DOMAIN c.members : c.members[u] = "admin"

\* applyTitlePatch, applyMembersPatch and replaceMembers, on the record that
\* was read before the body.
PatchProblem(read, user, c) ==
  IF "title" \in c.fields /\ ~CanMutate(read, user, "edit_record") THEN 403
  ELSE IF "title" \in c.fields /\ c.title = "" THEN 400
  ELSE IF "members" \notin c.fields THEN 0
  ELSE IF ~CanMutate(read, user, "edit_members") THEN 403
  ELSE IF AdminAssignmentProblem(user, c) THEN 403
  ELSE IF ~\E u \in DOMAIN c.members : c.members[u] \in {"faculty", "admin"}
       THEN 400 ELSE 0

MemberProblem(read, user, c) ==
  IF /\ ~CanMutate(read, user, "edit_members")
     /\ c.role # "faculty" \/ AccountRole[c.user] # "faculty"
  THEN 403
  ELSE IF AdminAssignmentProblem(user, c) THEN 403 ELSE 0

BodyProblem(read, user, c) ==
  CASE c.type = "patch" -> PatchProblem(read, user, c)
    [] c.type = "add-member" -> MemberProblem(read, user, c)
    [] OTHER -> 0

-----------------------------------------------------------------------------
(* mutateRecord: the transaction.                                          *)

\* The permissions asked of the locked record.
Mutations(c) ==
  CASE c.type = "patch" ->
         (IF "title" \in c.fields THEN {"edit_record"} ELSE {})
           \union (IF "members" \in c.fields THEN {"edit_members"} ELSE {})
    [] c.type = "add-member" -> {}
    [] c.type \in Imports -> {"import"}
    [] OTHER -> {CommandPermissions[c.type]}

InvitationProblem(latest, user, c) ==
  /\ c.type = "add-member"
  /\ ~CanMutate(latest, user, "edit_members")
  /\ \/ ~CanMutate(latest, user, "invite_faculty")
     \/ c.role # "faculty"
     \/ AccountRole[c.user] # "faculty"

\* Mutant: the roles are asked before the body only.
Refusal_RolesAsked(latest, user, c, expected) ==
  IF expected # NoRevision /\ latest.revision # expected THEN 409
  ELSE CASE transitionWorkRecord(latest, c, user).error = "duplicate" -> 409
         [] transitionWorkRecord(latest, c, user).error = "invalid" -> 400
         [] OTHER -> 0

\* Mutant: If-Match is held against a record that fell behind only.
Refusal_OlderOnly(latest, user, c, expected) ==
  IF expected # NoRevision /\ latest.revision < expected THEN 409
  ELSE IF user \notin DOMAIN latest.members THEN 403
  ELSE IF \E mutation \in Mutations(c) : ~CanMutate(latest, user, mutation)
       THEN 403
  ELSE IF InvitationProblem(latest, user, c) THEN 403
  ELSE CASE transitionWorkRecord(latest, c, user).error = "duplicate" -> 409
         [] transitionWorkRecord(latest, c, user).error = "invalid" -> 400
         [] OTHER -> 0

\* The status of a refused transaction, or 0.
Refusal(latest, user, c, expected) ==
  IF expected # NoRevision /\ latest.revision # expected THEN 409
  ELSE IF user \notin DOMAIN latest.members THEN 403
  ELSE IF \E mutation \in Mutations(c) : ~CanMutate(latest, user, mutation)
       THEN 403
  ELSE IF InvitationProblem(latest, user, c) THEN 403
  ELSE CASE transitionWorkRecord(latest, c, user).error = "duplicate" -> 409
         [] transitionWorkRecord(latest, c, user).error = "invalid" -> 400
         [] OTHER -> 0

withNextRecordRevision(previous, requested) ==
  IF requested.revision # previous.revision
  THEN Throws("conflict", previous)
  ELSE Done([requested EXCEPT !.revision = previous.revision + 1])

\* Parsed before and after it gets its revision.
parseNextRecord(previous, requested) ==
  LET next == withNextRecordRevision(previous, requested)
  IN IF ~AggregateInvariants(requested) THEN Throws("invalid", previous)
     ELSE next

\* The slot is free again: nothing of an answer but an export's stays.
Answer(r, status) ==
  /\ status \in 200 .. 599
  /\ request' = [request EXCEPT ![r] = Idle]

Repeat(r) ==
  request' = [request EXCEPT ![r] =
    [pc |-> "sent", actor |-> request[r].actor, command |-> request[r].command,
     expected |-> request[r].expected, seen |-> request[r].seen]]

\* Mutant: a creation writes its event without counting it.
Commit_NotCounted(r, next) ==
  /\ events <= MaxChanges
  /\ store' = next
  /\ events' = events + 1
  /\ auditCount' = IF store = NoRecord THEN auditCount ELSE auditCount + 1
  /\ unseen' = (unseen \/ /\ request[r].expected # NoRevision
                          /\ request[r].seen # store)
  /\ Answer(r, 200) \/ Repeat(r)

\* UPDATE and the event in one transaction: the client gets the new document,
\* or, when the answer to COMMIT is lost, a failure, after which it may send
\* the same request again.
Commit(r, next) ==
  /\ events <= MaxChanges
  /\ store' = next
  /\ events' = events + 1
  /\ auditCount' = auditCount + 1
  /\ unseen' = (unseen \/ /\ request[r].expected # NoRevision
                          /\ request[r].seen # store)
  /\ Answer(r, 200) \/ Repeat(r)

Refuse(r, status) ==
  Answer(r, status) /\ UNCHANGED <<store, events, auditCount, unseen>>

Mutate(r) ==
  LET user == request[r].actor
      c == request[r].command
      refused == Refusal(store, user, c, request[r].expected)
      parsed == parseNextRecord(store, transitionWorkRecord(store, c, user).record)
  IN IF refused # 0 THEN Refuse(r, refused)
     ELSE IF parsed.error # "none" THEN Refuse(r, 400)
     ELSE Commit(r, parsed.record)

-----------------------------------------------------------------------------
Init ==
  /\ store = NoRecord
  /\ events = 0
  /\ auditCount = 0
  /\ request = [r \in Requests |-> Idle]
  /\ unseen = FALSE

\* A client sends a command; with If-Match it names the revision of the
\* document it got just before.
Send(r, user, c) ==
  /\ request[r] = Idle
  /\ \E conditional \in {FALSE} \union
         {store # NoRecord /\ user \in DOMAIN store.members} :
       request' = [request EXCEPT ![r] =
         [pc |-> "sent", actor |-> user, command |-> c,
          expected |-> IF conditional THEN store.revision ELSE NoRevision,
          seen     |-> IF conditional THEN store ELSE NoRecord]]
  /\ UNCHANGED <<store, events, auditCount, unseen>>

\* POST /work-records looks for the id, then inserts; the row's key decides.
LookForRecord(r) ==
  /\ request[r].pc = "sent"
  /\ request[r].command.type = "create"
  /\ IF store # NoRecord THEN Answer(r, 409)
     ELSE IF AccountRole[request[r].actor] = "guest" THEN Answer(r, 403)
     ELSE request' = [request EXCEPT ![r].pc = "insert"]
  /\ UNCHANGED <<store, events, auditCount, unseen>>

Insert(r) ==
  /\ request[r].pc = "insert"
  /\ IF store # NoRecord THEN Refuse(r, 409)
     ELSE Commit(r, addMember(createEmptyRecord("Untitled"), request[r].actor,
                              AccountRole[request[r].actor]))

\* Authorised before the body is read; what the handler has of this read, and
\* could use after the body, is kept.
Authorise(r) ==
  /\ request[r].pc = "sent"
  /\ request[r].command.type # "create"
  /\ LET problem == Access(store, request[r].actor, request[r].command)
     IN IF problem # 0 THEN Answer(r, problem)
        ELSE request' = [request EXCEPT ![r] =
               [pc |-> "body", actor |-> @.actor, command |-> @.command,
                expected |-> @.expected, seen |-> @.seen, since |-> 0,
                read |-> CASE @.command.type \in {"patch", "add-member"} ->
                                [members |-> store.members]
                           [] @.command.type \in Exports -> store
                           [] OTHER -> NoRecord]]
  /\ UNCHANGED <<store, events, auditCount, unseen>>

\* The body of a command: its checks, and the transaction.
Execute(r) ==
  /\ request[r].pc = "body"
  /\ request[r].command.type \notin Exports \union Imports
  /\ LET problem == BodyProblem(request[r].read, request[r].actor,
                                request[r].command)
     IN IF problem # 0 THEN Refuse(r, problem) ELSE Mutate(r)

\* The body of an export or import: the record is read again.
AskAgain(r) ==
  /\ request[r].pc = "body"
  /\ request[r].command.type \in Exports \union Imports
  /\ request' = [request EXCEPT ![r].pc = "again", ![r].since = store.revision]
  /\ UNCHANGED <<store, events, auditCount, unseen>>

\* The mutation of the mode that the body chose.
ModeMutation(c) ==
  CASE c.type = "share" -> "share"
    [] c.type \in Imports -> "import"
    [] OTHER -> "export"

Decision(record, c) ==
  evaluateExportPolicy(record,
    IF c.type = "evidence-export" THEN "explicit" ELSE "record-release", c.use)

\* Mutant: the copy that the first check read.
ExportCopy_FirstRead(r) == request[r].read

\* The copy an export decides on: the one read after the body.
ExportCopy(r) == store

Export(r) ==
  LET c == request[r].command
      copy == ExportCopy(r)
      problem == Access(copy, request[r].actor, c)
  IN /\ request[r].pc = "again"
     /\ c.type \in Exports
     /\ request' = [request EXCEPT ![r] =
          IF /\ problem = 0
             /\ CanMutate(copy, request[r].actor, ModeMutation(c))
             /\ Decision(copy, c)
          THEN [pc |-> "exported", since |-> request[r].since,
                used |-> copy.revision]
          ELSE Idle]
     /\ UNCHANGED <<store, events, auditCount, unseen>>

\* The bytes are out.
Exported(r) ==
  /\ request[r].pc = "exported"
  /\ Answer(r, 200)
  /\ UNCHANGED <<store, events, auditCount, unseen>>

\* An import is asked again, and then runs in a transaction of its own.
AuthoriseImport(r) ==
  /\ request[r].pc = "again"
  /\ request[r].command.type \in Imports
  /\ IF CanMutate(store, request[r].actor, "import")
     THEN request' = [request EXCEPT ![r].pc = "import"]
     ELSE Answer(r, 403)
  /\ UNCHANGED <<store, events, auditCount, unseen>>

Import(r) == request[r].pc = "import" /\ Mutate(r)

\* A token runs out, or a store does not answer, before anything is written.
Fail(r) ==
  /\ request[r].pc \in {"sent", "body", "again", "insert", "import"}
  /\ \E status \in {401, 500} : Answer(r, status)
  /\ UNCHANGED <<store, events, auditCount, unseen>>

Next ==
  \/ \E r \in Requests :
       \/ \E user \in Users, c \in Commands : Send(r, user, c)
       \/ LookForRecord(r) \/ Insert(r) \/ Authorise(r) \/ Execute(r)
       \/ AskAgain(r) \/ Export(r) \/ Exported(r)
       \/ AuthoriseImport(r) \/ Import(r) \/ Fail(r)

Spec == Init /\ [][Next]_vars
-----------------------------------------------------------------------------
TypeOK ==
  /\ store # NoRecord =>
       /\ store.revision = events - 1
       /\ DOMAIN store.members \subseteq Users
       /\ AggregateInvariants(store)
  /\ auditCount = events
  /\ \A r \in Requests :
       request[r].pc \in {"idle", "sent", "insert", "body", "again", "import",
                          "exported"}

(* A change with If-Match is applied to the very document that its client  *)
(* had seen under that revision, also when the client repeats it after a   *)
(* lost answer (assertExpectedRevision, withNextRecordRevision).           *)
IfMatchHolds == ~unseen

(* A change is made once and for what its client saw, and is counted with  *)
(* its event: no request that is repeated or refused leaves a count, a     *)
(* revision or an event behind.                                            *)
ChangesAreExact == TypeOK /\ IfMatchHolds

(* Whatever the requests read before their bodies, the record only takes   *)
(* the steps of RecordCommands: whole commands, once, of actors whom the   *)
(* record permits them when it is changed, each with its event.            *)
ImplementsCommands == Abstract!Spec

(* An export is decided on a record no older than the arrival of its body, *)
(* so that a decision withdrawn while the body was on its way counts       *)
(* (serveShare, serveInterop, exportRecord read the record again).         *)
ExportIsFresh ==
  \A r \in Requests :
    request[r].pc = "exported" => request[r].used >= request[r].since
=============================================================================
