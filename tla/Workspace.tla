------------------------------ MODULE Workspace ------------------------------
(***************************************************************************)
(* The state of one browser tab (apps/relay-web): a session, the records   *)
(* it lists, the one that is selected, and the operations that change it   *)
(* through the API.  Requests are answered in any order, late or never; a  *)
(* user signs out, signs in as somebody else and selects other records     *)
(* while they are under way, and other clients change the records.         *)
(*                                                                         *)
(* A record that was answered is [id, rev, user, parts]: the revision, the *)
(* user whose token asked for it, and the parts of the movement document   *)
(* that it has (its take, its artifact and its track), each under the file *)
(* name it was stored with.  The tab shows it without its parts, which     *)
(* only the operation reads that asked for it.                             *)
(***************************************************************************)
EXTENDS Integers, FiniteSets

CONSTANTS Users, Records, Names,
          MaxOpen,     \* bound on the requests under way
          MaxClears,   \* bound on the sessions that end,
          MaxReads,    \* on the pages and records that are asked for, and
          MaxSelections, \* on selections
          MaxChanges,  \* on policies and changes of other clients
          None

VARIABLES session,     \* the user who is signed in, "demo", or None
          generation,  \* counts the sessions that ended
          selection,   \* selectionGeneration
          selected, summaries, cache,
          calls,       \* the requests under way
          reads,       \* how many pages and records were asked for
          work,        \* the operation under way, and how it ended
          stored,      \* the records of the server: [rev, parts]
          changes,     \* of other clients
          asked,       \* the record that the user asked for last
          named        \* per record: names its document was attached under

tab == <<session, generation, selection, selected, summaries, cache>>
server == <<stored, changes>>
history == <<reads, named>>
vars == <<tab, calls, work, server, asked, history>>

Idle == [op |-> "none", at |-> "idle"]

\* The parts of a document, in the order they are attached.
Parts == {"take", "artifact", "track"}

Init ==
  /\ session = None /\ generation = 0 /\ selection = 0
  /\ selected = None /\ summaries = {} /\ cache = {}
  /\ calls = {} /\ reads = 0
  /\ work = Idle
  /\ stored = [r \in Records |-> [rev |-> 0, parts |-> {}]]
  /\ changes = 0
  /\ asked = None
  /\ named = [r \in Records |-> {}]

-----------------------------------------------------------------------------
(* Requests: a lane, and what the tab counted when it was opened.          *)

Call(lane, kind, id, user, rev, part) ==
  [lane |-> lane, kind |-> kind, id |-> id, user |-> user, rev |-> rev,
   part |-> part, generation |-> generation, selection |-> selection,
   n |-> CHOOSE k \in 1 .. MaxOpen + 1 : \A c \in calls : c.n # k,
   aborted |-> FALSE, status |-> "open", body |-> {}]

\* abort: the answers of these lanes are ignored, those that are there too.
Abort(in, lanes) ==
  {IF c.lane \in lanes THEN [c EXCEPT !.aborted = TRUE] ELSE c : c \in in}

AllLanes == {c.lane : c \in calls}

CanCall == Cardinality(calls) < MaxOpen
Reads == reads < MaxReads /\ reads' = reads + 1

\* Mutant: an answer that came is used, whatever was asked since.
Superseded_Never(call) == FALSE

Superseded(call) == call.aborted \/ call.generation # generation

\* clear: the session ends, and nothing of it stays.
Clear ==
  /\ generation < MaxClears
  /\ generation' = generation + 1
  /\ selection' = selection + 1
  /\ selected' = None /\ summaries' = {} /\ cache' = {}
  /\ asked' = None

\* logout, and the timer of the session.
Logout ==
  /\ session # None
  /\ Clear
  /\ session' = None
  /\ calls' = Abort(calls, AllLanes)
  /\ UNCHANGED <<work, server, history>>

Login(user) ==
  /\ Clear
  /\ session' = None
  /\ LET c == [Call("login", "login", None, user, 0, None)
                 EXCEPT !.generation = generation + 1]
     IN CanCall /\ calls' = Abort(calls, AllLanes) \union {c}
  /\ UNCHANGED <<work, server, history>>

OpenDemo ==
  /\ session = None
  /\ Clear
  /\ session' = "demo"
  /\ calls' = Abort(calls, AllLanes)
  /\ UNCHANGED <<work, server, history>>

List(append) ==
  /\ session \in Users
  /\ LET c == Call("list", IF append THEN "append" ELSE "list", None, session, 0, None)
     IN CanCall /\ calls' = Abort(calls, {"detail", "list"}) \union {c}
  /\ summaries' = IF append THEN summaries ELSE {}
  /\ Reads
  /\ UNCHANGED <<session, generation, selection, selected, cache, work, server,
                 asked, named>>

\* Mutant: a record that is cached is looked up before anything is abandoned.
Abandons_OnMiss(hit) ==
  IF hit THEN [selection |-> selection, calls |-> calls]
  ELSE [selection |-> selection + 1, calls |-> Abort(calls, {"detail"})]

\* What was asked for before is abandoned.
Abandons(hit) ==
  [selection |-> selection + 1, calls |-> Abort(calls, {"detail"})]

Select(id, rev) ==
  /\ session \in Users /\ selection < MaxSelections
  /\ \E s \in summaries : s.id = id /\ s.rev = rev
  /\ LET found == {x \in cache : x.user = session /\ x.id = id /\ x.rev = rev}
         after == Abandons(found # {})
         c == [Call("detail", "detail", id, session, 0, None)
                 EXCEPT !.selection = after.selection]
     IN /\ selection' = after.selection
        /\ IF found # {}
           THEN /\ selected' \in found
                /\ calls' = after.calls
                /\ UNCHANGED reads
           ELSE /\ CanCall /\ Reads
                /\ calls' = after.calls \union {c}
                /\ UNCHANGED selected
  /\ asked' = id
  /\ UNCHANGED <<session, generation, summaries, cache, work, server, named>>

-----------------------------------------------------------------------------
(* Operations: a fresh copy of the record, then one change after another,  *)
(* each against the revision that the one before returned.                 *)

\* attachMovement keeps the record's id while it hashes; addPolicy does not
\* wait before it refreshes.
StartAttach(name) ==
  /\ work.at = "idle" /\ selected # None /\ session \in Users
  /\ work' = [op |-> "attach", at |-> "hash", id |-> selected.id, name |-> name]
  /\ named' = [named EXCEPT ![selected.id] = @ \union {name}]
  /\ UNCHANGED <<tab, calls, server, asked, reads>>

Refresh(op, id, name) ==
  LET c == Call("refresh", "refresh", selected.id, session, 0, None)
  IN /\ CanCall
     /\ calls' = calls \union {c}
     /\ work' = [op |-> op, at |-> "refresh", id |-> id, name |-> name, n |-> c.n]

AddPolicy ==
  /\ work.at = "idle" /\ selected # None /\ session \in Users
  /\ stored[selected.id].rev < MaxChanges
  /\ Refresh("policy", selected.id, None)
  /\ UNCHANGED <<tab, server, asked, history>>

Hashed ==
  /\ work.at = "hash"
  /\ IF session \in Users /\ selected # None
     THEN Refresh("attach", work.id, work.name)
     ELSE work' = Idle /\ UNCHANGED calls
  /\ UNCHANGED <<tab, server, asked, history>>

\* Mutant: the operation goes on with the record that is selected by then.
SameRecord_Any(id) == TRUE

SameRecord(id) == work.id = id

Has(parts, kind) == \E p \in parts : p.kind = kind

\* Mutant: the track is attached before the artifact is registered.
Missing_TrackFirst(parts) ==
  IF ~Has(parts, "take") THEN "take"
  ELSE IF ~Has(parts, "track") THEN "track"
  ELSE IF ~Has(parts, "artifact") THEN "artifact" ELSE "nothing"

Missing(parts) ==
  IF ~Has(parts, "take") THEN "take"
  ELSE IF ~Has(parts, "artifact") THEN "artifact"
  ELSE IF ~Has(parts, "track") THEN "track" ELSE "nothing"

\* An artifact or a track of another name conflicts with the document; its
\* take has the hash of the document and no name.
Conflicts(parts) ==
  \E p \in parts :
    /\ p.name # work.name
    /\ \/ p.kind = "artifact"
       \/ p.kind = "track" /\ Has(parts, "artifact")

\* The next change against record, or the end of the operation.
GoOn(record, others) ==
  LET next == IF work.op = "policy"
              THEN IF work.at = "refresh" THEN "policy" ELSE "nothing"
              ELSE Missing(record.parts)
      c == Call("command", "change", record.id, session, record.rev,
                [kind |-> next, name |-> work.name])
  IN CASE ~SameRecord(record.id) ->
            work' = Idle /\ calls' = others
       [] OTHER ->
            IF work.op = "attach" /\ Conflicts(record.parts)
            THEN work' = [work EXCEPT !.at = "conflict"] /\ calls' = others
            ELSE IF next = "nothing"
            THEN work' = [work EXCEPT !.at = "complete"] /\ calls' = others
            ELSE /\ calls' = others \union {c}
                 /\ work' = [work EXCEPT !.at = next, !.n = c.n]

\* The user closes the message of an operation that ended.
Acknowledge ==
  /\ work.at \in {"complete", "conflict"}
  /\ work' = Idle
  /\ UNCHANGED <<tab, calls, server, asked, history>>

-----------------------------------------------------------------------------
(* The server, and other clients.                                          *)

Answer(c, status, body) ==
  calls' = (calls \ {c}) \union {[c EXCEPT !.status = status, !.body = body]}

View(id, user) ==
  [id |-> id, rev |-> stored[id].rev, user |-> user, parts |-> stored[id].parts]

Shown(record) == [id |-> record.id, rev |-> record.rev, user |-> record.user]

\* What is answered to a read that nobody waits for makes no difference.
Read(c) ==
  /\ c.status = "open" /\ c.kind # "change" /\ ~c.aborted
  /\ CASE c.kind = "login" -> Answer(c, "ok", {})
       [] c.kind \in {"list", "append"} ->
            \E page \in SUBSET Records \ {{}} : Answer(c, "ok", {Shown(View(id, c.user)) : id \in page})
       [] c.kind = "detail" -> Answer(c, "ok", {Shown(View(c.id, c.user))})
       [] OTHER -> Answer(c, "ok", {View(c.id, c.user)})
  /\ UNCHANGED <<tab, work, server, asked, history>>

\* If-Match holds the change to the revision it was made against.
Change(c) ==
  /\ c.status = "open" /\ c.kind = "change"
  /\ IF stored[c.id].rev # c.rev
     THEN Answer(c, "failed", {}) /\ UNCHANGED stored
     ELSE LET next == [rev |-> c.rev + 1,
                       parts |-> IF c.part.kind = "policy" THEN stored[c.id].parts
                                 ELSE stored[c.id].parts \union {c.part}]
          IN /\ stored' = [stored EXCEPT ![c.id] = next]
             /\ Answer(c, "ok", {[id |-> c.id, rev |-> next.rev, user |-> c.user,
                                  parts |-> next.parts]})
  /\ UNCHANGED <<tab, work, changes, asked, history>>

\* 401, or 403 for a read: the server does not know the session any more.
Refuse(c) ==
  /\ c.status = "open" /\ c.kind # "login" /\ ~c.aborted
  /\ generation < MaxClears
  /\ Answer(c, "ended", {})
  /\ UNCHANGED <<tab, work, server, asked, history>>

ChangeElsewhere(id) ==
  /\ changes < MaxChanges
  /\ changes' = changes + 1
  /\ stored' = [stored EXCEPT ![id].rev = @ + 1]
  /\ UNCHANGED <<tab, calls, work, asked, history>>

-----------------------------------------------------------------------------
(* Answers.                                                                *)

Awaits(c) == work.at \in Parts \union {"refresh", "policy"} /\ work.n = c.n

\* The operation that waits for this answer throws.
WorkThrows(c) == work' = IF Awaits(c) THEN Idle ELSE work

\* An answer nobody waits for any more, or that says no.
Ignored(c) ==
  /\ c.status = "failed" \/ Superseded(c)
  /\ calls' = calls \ {c}
  /\ WorkThrows(c)
  /\ UNCHANGED <<tab, server, asked, history>>

\* After ten seconds nobody waits any more; the request may still arrive.
TimesOut(c) ==
  /\ ~c.aborted
  /\ calls' = (calls \ {c}) \union {[c EXCEPT !.aborted = TRUE]}
  /\ WorkThrows(c)
  /\ UNCHANGED <<tab, server, asked, history>>

Expires(c) ==
  /\ c.status = "ended" /\ ~Superseded(c)
  /\ Clear
  /\ session' = None
  /\ calls' = Abort(calls \ {c}, AllLanes)
  /\ WorkThrows(c)
  /\ UNCHANGED <<server, history>>

Arrived(c, kinds) == c.kind \in kinds /\ c.status = "ok"

LoggedIn(c) ==
  /\ Arrived(c, {"login"}) /\ ~Superseded(c)
  /\ session' = c.user
  /\ calls' = calls \ {c}
  /\ UNCHANGED <<generation, selection, selected, summaries, cache, work,
                 server, asked, history>>

Listed(c) ==
  /\ Arrived(c, {"list", "append"}) /\ ~Superseded(c)
  /\ summaries' = (IF c.kind = "append" THEN summaries ELSE {}) \union c.body
  /\ calls' = calls \ {c}
  /\ UNCHANGED <<session, generation, selection, selected, cache, work,
                 server, asked, history>>

Detailed(c) ==
  /\ Arrived(c, {"detail"}) /\ ~Superseded(c)
  /\ IF c.selection = selection
     THEN /\ selected' \in c.body
          /\ cache' = cache \union c.body
     ELSE UNCHANGED <<selected, cache>>
  /\ calls' = calls \ {c}
  /\ UNCHANGED <<session, generation, selection, summaries, work, server,
                 asked, history>>

\* accept: the record replaces what the tab has of it.  A page that was
\* appended may list it twice, and the first is replaced.
Accept(record) ==
  /\ cache' = {x \in cache : x.id # record.id} \union {Shown(record)}
  /\ LET same == {s \in summaries : s.id = record.id}
     IN \/ same = {} /\ summaries' = summaries \union {Shown(record)}
        \/ \E s \in same : summaries' = (summaries \ {s}) \union {Shown(record)}
  /\ selected' = IF selected # None /\ selected.id = record.id THEN Shown(record)
                 ELSE selected

\* A copy that was asked for before another record was selected is dropped.
StillSelected(c) ==
  c.kind = "refresh" =>
    c.selection = selection /\ selected # None /\ selected.id = c.id

Continues(c) ==
  /\ Arrived(c, {"refresh", "change"}) /\ ~Superseded(c)
  /\ \E record \in c.body :
       IF Awaits(c) /\ StillSelected(c)
       THEN Accept(record) /\ GoOn(record, calls \ {c})
       ELSE /\ calls' = calls \ {c}
            /\ WorkThrows(c)
            /\ UNCHANGED <<selected, summaries, cache>>
  /\ UNCHANGED <<session, generation, selection, server, asked, history>>

Next ==
  \/ \E user \in Users : Login(user)
  \/ Logout \/ OpenDemo \/ AddPolicy \/ Hashed \/ Acknowledge
  \/ \E append \in BOOLEAN : List(append)
  \/ \E s \in summaries : Select(s.id, s.rev)
  \/ \E name \in Names : StartAttach(name)
  \/ \E id \in Records : ChangeElsewhere(id)
  \/ \E c \in calls :
       \/ Read(c) \/ Change(c) \/ Refuse(c)
       \/ Ignored(c) \/ TimesOut(c) \/ Expires(c)
       \/ LoggedIn(c) \/ Listed(c) \/ Detailed(c) \/ Continues(c)

Spec == Init /\ [][Next]_vars
-----------------------------------------------------------------------------
TypeOK ==
  /\ session \in Users \union {"demo", None}
  /\ \A c \in calls : c.n \in 1 .. MaxOpen + 1 /\ c.generation <= generation
  /\ selected # None => selected.id \in Records

(* Nothing that was answered to one user is shown to another, or to nobody: *)
(* what the tab lists, keeps and shows was asked for with the token of the  *)
(* session that is open, whatever answers were under way when the last one  *)
(* ended (clear, run).                                                      *)
SessionsApart ==
  /\ TypeOK
  /\ \A x \in summaries \union cache \union ({selected} \ {None}) : x.user = session

(* The record that is shown changes to the one the user asked for last, to  *)
(* a newer copy of itself, or to nothing: no answer to an earlier click     *)
(* lands on a later one (select, accept).                                   *)
ShowsWhatWasAsked ==
  [][selected' # selected =>
       \/ selected' = None
       \/ selected'.id = asked'
       \/ selected # None /\ selected'.id = selected.id]_vars

(* A document is attached to the record it was attached from, its parts in  *)
(* order and once each, through answers that were lost, changes of others   *)
(* and selections in between; an attempt that is made again with the same   *)
(* name finds what the first one did and never conflicts with it           *)
(* (attachMovement).                                                        *)
AttachResumes ==
  /\ \A r \in Records :
       /\ Has(stored[r].parts, "artifact") => Has(stored[r].parts, "take")
       /\ Has(stored[r].parts, "track") => Has(stored[r].parts, "artifact")
       /\ \A p, q \in stored[r].parts : p.kind = q.kind => p = q
       /\ {p.name : p \in stored[r].parts} \subseteq named[r]
  /\ work.at = "conflict" => Cardinality(named[work.id]) > 1
  /\ work.at = "complete" /\ work.op = "attach" =>
       \A part \in Parts : Has(stored[work.id].parts, part)
=============================================================================
