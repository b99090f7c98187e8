---------------------------- MODULE RecordApiProofs ----------------------------
(***************************************************************************)
(* Proofs about the concurrent requests of RecordApi, for any users and    *)
(* roles, any commands that a route parses, any number of requests and of  *)
(* changes.                                                                *)
(*                                                                         *)
(* The invariant IInv says of the stored document what its next transaction*)
(* relies on, and of every request what it still holds from an earlier     *)
(* read: which revision its client saw, and which document under it        *)
(* (SeenFits).  A change with If-Match is safe because a revision names    *)
(* one document only: every commit gives a greater one, so that a revision *)
(* that is still the stored one belongs to the document that was seen.     *)
(* Steps of a request that write nothing (QuietStep) and commits           *)
(* (CommitStep) keep it; each handler is one of the two.                   *)
(*                                                                         *)
(* With the same invariant a step that changes the record is a step of     *)
(* RecordCommands: what Refusal lets through is permitted by the roles of  *)
(* that instant, and what the checks of the body let through is lawful     *)
(* whatever record they read.                                              *)
(*                                                                         *)
(* The second part is about the tables themselves, statement by statement  *)
(* (PgRecords).  PgInv says of the tables that the events of every id tell *)
(* its life and that the counters count them, and of every transaction     *)
(* under way what it has done, which locks it holds and what those locks   *)
(* keep of the tables (TxnFits).  No statement before a commit touches the *)
(* tables (TablesStand); a commit changes what its own locks protect, so   *)
(* that the others still fit (TablesChange).  Transactions lock a record   *)
(* before the counters, and hold no lock but that of imports when they wait*)
(* for a record, so that nobody waits in a circle (NoCircle).              *)
(***************************************************************************)
EXTENDS MCRecordApi, FiniteSums, TLAPS

-----------------------------------------------------------------------------
(* Transitions keep the shape of a document                                 *)

Fields == {"revision", "title", "members", "tracks", "takeIds", "takes", "preferred",
           "regions", "comments", "versions", "snapshots", "releases", "subjects",
           "artifacts", "policies", "annotations", "capability"}

\* A document of the store's accounts
IsDocument(d) == DOMAIN d = Fields /\ DOMAIN d.members \subseteq Users

Errors == {"none", "duplicate", "invalid"}

\* What a transition gives: a document, and whether it was refused.
IsOutcome(t) == t.error \in Errors /\ IsDocument(t.record)

\* One step of AddAll.
Added(kind, done, part) ==
  IF done.error # "none" THEN done ELSE AddPart(kind, done.record, part)

\* A key is added to the domain.
LEMMA PutDomain ==
  ASSUME NEW f, NEW key, NEW value
  PROVE  DOMAIN Put(f, key, value) = DOMAIN f \cup {key}
BY DEF Put

\* The recursive function of AddAll exists: its values, part after part.
LEMMA AddedInOrder ==
  ASSUME NEW kind, NEW start, NEW parts, Len(parts) \in Nat
  PROVE  \E f : /\ f[0] = start
                /\ \A n \in 1 .. Len(parts) : f[n] = Added(kind, f[n - 1], parts[n])
                /\ AddAll(kind, start, parts) = f[Len(parts)]
<1> DEFINE Up(f, m) == f = [n \in 0 .. m |->
                              IF n = 0 THEN start
                              ELSE IF f[n - 1].error # "none" THEN f[n - 1]
                              ELSE AddPart(kind, f[n - 1].record, parts[n])]
           K == {m \in Nat : \E f : Up(f, m)}
<1>1. 0 \in K
  <2> DEFINE g == [n \in 0 .. 0 |-> start]
  <2>1. Up(g, 0)
    OBVIOUS
  <2> QED BY <2>1
<1>2. ASSUME NEW m \in Nat, m \in K PROVE m + 1 \in K
  <2>1. PICK f : Up(f, m)
    BY <1>2
  <2> DEFINE next == IF f[m].error # "none" THEN f[m] ELSE AddPart(kind, f[m].record, parts[m + 1])
             g == [n \in 0 .. m + 1 |-> IF n = m + 1 THEN next ELSE f[n]]
  <2>2. ASSUME NEW n \in 0 .. m PROVE g[n] = f[n]
    OBVIOUS
  <2>3. g[m + 1] = next
    OBVIOUS
  <2>4. ASSUME NEW n \in 0 .. m + 1
        PROVE  g[n] = IF n = 0 THEN start
                      ELSE IF g[n - 1].error # "none" THEN g[n - 1]
                      ELSE AddPart(kind, g[n - 1].record, parts[n])
    <3> HIDE DEF g
    <3>1. CASE n = m + 1
      BY <2>2, <2>3, <3>1
    <3>2. CASE n # m + 1
      <4>1. n \in 0 .. m
        BY <3>2
      <4>2. g[n] = f[n] /\ (n # 0 => g[n - 1] = f[n - 1])
        BY <2>2, <4>1
      <4>3. f[n] = IF n = 0 THEN start
                   ELSE IF f[n - 1].error # "none" THEN f[n - 1]
                   ELSE AddPart(kind, f[n - 1].record, parts[n])
        BY <2>1, <4>1
      <4> QED BY <4>2, <4>3
    <3> QED BY <3>1, <3>2
  <2>5. g = [n \in 0 .. m + 1 |-> g[n]]
    OBVIOUS
  <2>6. Up(g, m + 1)
    <3> HIDE DEF g
    <3> QED BY <2>4, <2>5
  <2>7. m + 1 \in Nat /\ \E h : Up(h, m + 1)
    <3> HIDE DEF g, Up
    <3> QED BY <2>6
  <2> QED BY <2>7
<1>3. Len(parts) \in K
  <2> HIDE DEF K
  <2> QED BY <1>1, <1>2, NumbersByInduction
<1>4. \E f : Up(f, Len(parts))
  BY <1>3
<1> DEFINE f == CHOOSE g : Up(g, Len(parts))
<1>5. Up(f, Len(parts))
  <2> HIDE DEF Up
  <2> QED BY <1>4
<1>6. AddAll(kind, start, parts) = f[Len(parts)]
  BY DEF AddAll
<1> HIDE DEF f
<1>7. /\ f[0] = start
      /\ \A n \in 1 .. Len(parts) : f[n] = Added(kind, f[n - 1], parts[n])
  BY <1>5 DEF Added
<1> QED BY <1>6, <1>7

\* A part of an import is added or refused, and leaves the members alone.
LEMMA AddPartKeeps ==
  ASSUME NEW d, IsDocument(d), NEW part, NEW kind \in {"region", "comment", "track", "take"}
  PROVE  IsOutcome(AddPart(kind, d, part)) /\ AddPart(kind, d, part).record.members = d.members
<1>1. kind = "region" => /\ IsOutcome(addRegion(d, part))
                         /\ addRegion(d, part).record.members = d.members
  BY DEF addRegion, IsOutcome, IsDocument, Done, Throws, Errors, Fields
<1>2. kind = "comment" => /\ IsOutcome(addComment(d, part, part.author))
                         /\ addComment(d, part, part.author).record.members = d.members
  <2>1. \A id : /\ DOMAIN [d EXCEPT !.comments = id] = Fields
                /\ [d EXCEPT !.comments = id].members = d.members
    BY DEF IsDocument, Fields
  <2> QED BY <2>1 DEF addComment, IsOutcome, IsDocument, Done, Throws, Errors
<1>3. kind = "track" => /\ IsOutcome(addTrack(d, part))
                         /\ addTrack(d, part).record.members = d.members
  BY DEF addTrack, IsOutcome, IsDocument, Done, Throws, Errors, Fields
<1>4. kind = "take" => /\ IsOutcome(addTake(d, part))
                         /\ addTake(d, part).record.members = d.members
  BY DEF addTake, IsOutcome, IsDocument, Done, Throws, Errors, Fields
<1>5. IsOutcome(Done(d)) /\ Done(d).record.members = d.members
  BY DEF IsOutcome, Done, Errors
<1> QED BY <1>1, <1>2, <1>3, <1>4, <1>5 DEF AddPart

\* So are all of them, by induction on their number.
LEMMA AddAllKeeps ==
  ASSUME NEW start, IsOutcome(start), NEW parts, Len(parts) \in Nat,
         NEW kind \in {"region", "comment", "track", "take"}
  PROVE  /\ IsOutcome(AddAll(kind, start, parts))
         /\ AddAll(kind, start, parts).record.members = start.record.members
<1>1. PICK f : /\ f[0] = start
               /\ \A n \in 1 .. Len(parts) : f[n] = Added(kind, f[n - 1], parts[n])
               /\ AddAll(kind, start, parts) = f[Len(parts)]
  BY AddedInOrder
<1> DEFINE Keeps(n) == IsOutcome(f[n]) /\ f[n].record.members = start.record.members
           K == {n \in Nat : n <= Len(parts) => Keeps(n)}
<1>2. 0 \in K
  BY <1>1
<1>3. ASSUME NEW n \in Nat, n \in K PROVE n + 1 \in K
  <2>1. SUFFICES ASSUME n + 1 <= Len(parts) PROVE Keeps(n + 1)
    OBVIOUS
  <2>2. Keeps(n) /\ n + 1 \in 1 .. Len(parts) /\ (n + 1) - 1 = n
    BY <1>3, <2>1
  <2>3. f[n + 1] = Added(kind, f[n], parts[n + 1])
    BY <1>1, <2>2
  <2>4. IsDocument(f[n].record)
    BY <2>2 DEF IsOutcome
  <2>5. /\ IsOutcome(AddPart(kind, f[n].record, parts[n + 1]))
        /\ AddPart(kind, f[n].record, parts[n + 1]).record.members = f[n].record.members
    BY <2>4, AddPartKeeps
  <2> QED BY <2>2, <2>3, <2>5 DEF Added
<1>4. Len(parts) \in K
  <2> HIDE DEF K
  <2> QED BY <1>2, <1>3, NumbersByInduction
<1> QED BY <1>1, <1>4

\* A list has a length.
LEMMA LengthOfList ==
  ASSUME NEW s, s \in Seq(Range(s))
  PROVE  Len(s) \in Nat
OBVIOUS

\* Every command yields a document of known accounts, or one of the errors that
\* the API answers.
LEMMA TransitionKeeps ==
  ASSUME NEW d, IsDocument(d), NEW c, IsBody(c), c.type \notin Exports \union {"create"},
         NEW actor
  PROVE  IsOutcome(transitionWorkRecord(d, c, actor))
<1>1. \A x : IsOutcome(Done([d EXCEPT !.title = x])) /\ IsOutcome(Done([d EXCEPT !.tracks = x]))
           /\ IsOutcome(Done([d EXCEPT !.takeIds = x])) /\ IsOutcome(Done([d EXCEPT !.takes = x]))
           /\ IsOutcome(Done([d EXCEPT !.regions = x])) /\ IsOutcome(Done([d EXCEPT !.preferred = x]))
           /\ IsOutcome(Done([d EXCEPT !.comments = x])) /\ IsOutcome(Done([d EXCEPT !.releases = x]))
           /\ IsOutcome(Done([d EXCEPT !.subjects = x])) /\ IsOutcome(Done([d EXCEPT !.artifacts = x]))
           /\ IsOutcome(Done([d EXCEPT !.policies = x])) /\ IsOutcome(Done([d EXCEPT !.annotations = x]))
           /\ IsOutcome(Done([d EXCEPT !.snapshots = x]))
  BY DEF IsOutcome, IsDocument, Done, Errors, Fields
<1>2. IsOutcome(Done(d)) /\ IsOutcome(Throws("invalid", d)) /\ IsOutcome(Throws("duplicate", d))
  BY DEF IsOutcome, Done, Throws, Errors
<1>3. \A x : DOMAIN x \subseteq Users => IsOutcome(Done([d EXCEPT !.members = x]))
  BY DEF IsOutcome, IsDocument, Done, Errors, Fields
<1>4. \A id, track : IsOutcome(PutTrack(d, id, track))
  BY <1>1, <1>2 DEF PutTrack
<1>5. \A x, y : /\ IsOutcome(Done([d EXCEPT !.takeIds = x, !.takes = y]))
              /\ DOMAIN y \subseteq Users => IsOutcome(Done([d EXCEPT !.title = x, !.members = y]))
  BY DEF IsOutcome, IsDocument, Done, Errors, Fields
<1>6. CASE c.type = "add-track"
  BY <1>1, <1>2, <1>6 DEF transitionWorkRecord, addTrack
<1>7. CASE c.type = "set-preferred-take"
  BY <1>1, <1>2, <1>7 DEF transitionWorkRecord, setPreferredTake
<1>8. CASE c.type = "add-region"
  BY <1>1, <1>2, <1>8 DEF transitionWorkRecord, addRegion
<1>9. CASE c.type = "attach-use-policy-snapshot"
  BY <1>1, <1>2, <1>9 DEF transitionWorkRecord, attachUsePolicySnapshot
<1>10. CASE c.type = "add-subject"
  BY <1>1, <1>2, <1>10 DEF transitionWorkRecord, addRepresentedSubject
<1>11. CASE c.type = "add-artifact"
  BY <1>1, <1>2, <1>11 DEF transitionWorkRecord, addArtifact
<1>12. CASE c.type = "add-annotation"
  BY <1>1, <1>2, <1>12 DEF transitionWorkRecord, addAnnotation
<1>13. CASE c.type = "add-use-policy"
  BY <1>1, <1>2, <1>13 DEF transitionWorkRecord, addUsePolicy
<1>14. CASE c.type = "add-snapshot"
  BY <1>1, <1>2, <1>14 DEF transitionWorkRecord, addSnapshot
<1>15. CASE c.type = "add-analysis-track"
  BY <1>2, <1>4, <1>15 DEF transitionWorkRecord, addAnalysisTrack
<1>16. CASE c.type = "attach-music-notation-track"
  BY <1>2, <1>4, <1>16 DEF transitionWorkRecord, attachMusicNotationTrack
<1>17. CASE c.type = "attach-mvei-motif-track"
  <2>1. IsOutcome(PutTrack(d, c.id, "movement_notation"))
    BY <1>4
  <2> QED BY <1>17, <2>1 DEF transitionWorkRecord, attachMveiMotifTrack, IsOutcome,
                             IsDocument, Done, Errors, Fields
<1>18. CASE c.type = "add-take"
  BY <1>18 DEF transitionWorkRecord, addTake, IsOutcome, IsDocument, Done, Errors, Fields
<1>19. CASE c.type = "add-comment"
  BY <1>1, <1>2, <1>19 DEF transitionWorkRecord, addComment
<1>20. CASE c.type = "resolve-comment"
  BY <1>1, <1>2, <1>20 DEF transitionWorkRecord, resolveComment
<1>21. CASE c.type = "submit-version"
  BY <1>21 DEF transitionWorkRecord, submitVersion, IsOutcome, IsDocument, Done, Errors, Fields
<1>22. CASE c.type = "add-member"
  <2>1. c.user \in Users /\ DOMAIN d.members \subseteq Users
    BY <1>22 DEF IsBody, IsCommand, IsDocument
  <2>2. DOMAIN Put(d.members, c.user, c.role) \subseteq Users
    BY <2>1 DEF Put
  <2> QED BY <1>3, <1>22, <2>2 DEF transitionWorkRecord, addMember
<1>23. CASE c.type = "patch"
  <2>1. DOMAIN (IF "members" \in c.fields THEN c.members ELSE d.members) \subseteq Users
    BY <1>23 DEF IsBody, IsCommand, IsDocument
  <2> QED BY <1>23, <2>1 DEF transitionWorkRecord, patch, IsOutcome, IsDocument, Done, Errors, Fields
<1>24. CASE c.type = "import-eaf"
  <2>1. Len(c.regions) \in Nat /\ Len(c.comments) \in Nat
    BY <1>24, LengthOfList DEF IsBody, IsCommand
  <2>2. IsOutcome(AddAll("region", Done(d), c.regions))
    BY <1>2, <2>1, AddAllKeeps
  <2>3. IsOutcome(AddAll("comment", AddAll("region", Done(d), c.regions), c.comments))
    BY <2>1, <2>2, AddAllKeeps
  <2> QED BY <1>24, <2>3 DEF transitionWorkRecord, importEaf
<1>25. CASE c.type = "import-otio"
  <2>1. Len(c.tracks) \in Nat /\ Len(c.takes) \in Nat
    BY <1>25, LengthOfList DEF IsBody, IsCommand
  <2>2. IsOutcome(AddAll("track", Done(d), c.tracks))
    BY <1>2, <2>1, AddAllKeeps
  <2>3. IsOutcome(AddAll("take", AddAll("track", Done(d), c.tracks), c.takes))
    BY <2>1, <2>2, AddAllKeeps
  <2> QED BY <1>25, <2>3 DEF transitionWorkRecord, importOtio
<1>26. c.type \in CommandTypes \union Imports \union {"patch", "add-member"}
  BY DEF IsBody, IsCommand, Imports
<1> QED
  BY <1>6, <1>7, <1>8, <1>9, <1>10, <1>11, <1>12, <1>13, <1>14, <1>15, <1>16, <1>17, <1>18,
     <1>19, <1>20, <1>21, <1>22, <1>23, <1>24, <1>25, <1>26
  DEF CommandTypes, Imports

-----------------------------------------------------------------------------
(* The invariant                                                            *)

Busy == {"sent", "insert", "body", "again", "import"}

\* The row, its number of events and the counters.
StoreFits ==
  /\ events \in Nat /\ auditCount = events
  /\ store = NoRecord => events = 0
  /\ store # NoRecord => /\ IsDocument(store)
                         /\ events # 0 /\ store.revision = events - 1
                         /\ AggregateInvariants(store)

\* What a client names in If-Match is a revision of this record, and the
\* document it saw is the stored one while the revision is.
SeenFits(expected, seen) ==
  expected # NoRevision =>
    /\ store # NoRecord /\ expected \in Nat /\ expected <= store.revision
    /\ store.revision = expected => seen = store

\* What a request has kept of its earlier reads.
RequestFits(q) ==
  /\ q.pc \in Busy \union {"idle", "exported"}
  /\ q.pc \in Busy => /\ {"pc", "actor", "command", "expected", "seen"} \subseteq DOMAIN q
                      /\ q.actor \in Users /\ q.command \in Commands
                      /\ SeenFits(q.expected, q.seen)
  /\ q.pc = "insert" => q.command.type = "create" /\ AccountRole[q.actor] # "guest"
  /\ q.pc \in {"body", "again"} => "since" \in DOMAIN q
  /\ q.pc \in {"body", "again", "import"} => store # NoRecord
  /\ q.pc = "body" => q.command.type # "create"
  /\ q.pc = "again" => /\ q.command.type \in Exports \union Imports
                       /\ q.since \in Int /\ q.since <= store.revision
  /\ q.pc = "import" => q.command.type \in Imports
  /\ q.pc = "exported" => /\ q.used \in Int /\ q.since \in Int
                          /\ q.used >= q.since

IInv ==
  /\ StoreFits
  /\ DOMAIN request = Requests
  /\ \A r \in Requests : RequestFits(request[r])
  /\ unseen = FALSE

-----------------------------------------------------------------------------
(* Quiet steps and commits                                                  *)

\* A document stays parseable when it gets another revision.
LEMMA ParsedKeepsAggregate ==
  ASSUME NEW d, IsDocument(d), AggregateInvariants(d), NEW rev
  PROVE  AggregateInvariants([d EXCEPT !.revision = rev])
<1> DEFINE n == [d EXCEPT !.revision = rev]
<1>1. /\ n.regions = d.regions /\ n.takes = d.takes /\ n.takeIds = d.takeIds
      /\ n.preferred = d.preferred /\ n.comments = d.comments /\ n.tracks = d.tracks
      /\ n.versions = d.versions /\ n.releases = d.releases /\ n.snapshots = d.snapshots
      /\ n.artifacts = d.artifacts /\ n.subjects = d.subjects /\ n.policies = d.policies
  BY DEF IsDocument, Fields
<1> HIDE DEF n
<1>2. ValidRegions(n)
  BY <1>1 DEF ValidRegions, AggregateInvariants
<1>3. TakeCoherence(n)
  BY <1>1 DEF TakeCoherence, AggregateInvariants
<1>4. CommentAnchors(n)
  BY <1>1 DEF CommentAnchors, AggregateInvariants
<1>5. VersionNamesUnique(n)
  BY <1>1 DEF VersionNamesUnique, AggregateInvariants
<1>6. UniqueIds(n.releases) /\ UniqueIds(n.snapshots)
  BY <1>1 DEF AggregateInvariants
<1>7. SubjectReferences(n)
  BY <1>1 DEF SubjectReferences, AggregateInvariants
<1>8. ArtifactReferences(n)
  BY <1>1 DEF ArtifactReferences, AggregateInvariants
<1>9. VersionSnapshotReferences(n)
  BY <1>1 DEF VersionSnapshotReferences, AggregateInvariants
<1>10. AggregateInvariants(n)
  BY <1>2, <1>3, <1>4, <1>5, <1>6, <1>7, <1>8, <1>9 DEF AggregateInvariants
<1> QED BY <1>10 DEF n

\* A document is not what stands for its absence.
LEMMA DocumentIsARecord ==
  ASSUME NEW d, IsDocument(d)
  PROVE  d # NoRecord
<1>1. DOMAIN NoRecord = {"revision"}
  BY DEF NoRecord
<1>2. "members" \in DOMAIN d
  BY DEF IsDocument, Fields
<1> QED BY <1>1, <1>2

\* What parseNextRecord accepts is the requested document with the next revision.
LEMMA NextRecord ==
  ASSUME NEW previous, NEW requested, IsDocument(requested), previous.revision \in Nat,
         parseNextRecord(previous, requested).error = "none"
  PROVE  LET next == parseNextRecord(previous, requested).record
         IN  /\ next = [requested EXCEPT !.revision = previous.revision + 1]
             /\ IsDocument(next) /\ next.revision = previous.revision + 1
             /\ AggregateInvariants(requested) /\ AggregateInvariants(next)
<1> DEFINE next == [requested EXCEPT !.revision = previous.revision + 1]
<1>1. AggregateInvariants(requested)
  BY DEF parseNextRecord, Throws
<1>2. parseNextRecord(previous, requested).record = next
  BY <1>1 DEF parseNextRecord, withNextRecordRevision, Throws, Done
<1>3. AggregateInvariants(next)
  BY <1>1, ParsedKeepsAggregate
<1>4. IsDocument(next) /\ next.revision = previous.revision + 1
  BY DEF IsDocument, Fields
<1> QED BY <1>1, <1>2, <1>3, <1>4

\* A step of a request that writes nothing.
LEMMA QuietStep ==
  ASSUME IInv, NEW r \in Requests, NEW q, RequestFits(q),
         request' = [request EXCEPT ![r] = q],
         UNCHANGED <<store, events, auditCount, unseen>>
  PROVE  IInv'
<1>1. ASSUME NEW p PROVE RequestFits(p)' <=> RequestFits(p)
  BY DEF RequestFits, SeenFits
<1>2. DOMAIN request' = Requests
  BY DEF IInv
<1>3. ASSUME NEW s \in Requests PROVE RequestFits(request'[s])
  BY DEF IInv
<1>4. StoreFits'
  BY DEF IInv, StoreFits
<1>5. \A s \in Requests : RequestFits(request[s])'
  BY <1>3 DEF RequestFits, SeenFits
<1> QED BY <1>2, <1>4, <1>5 DEF IInv

\* An answered request holds nothing.
LEMMA IdleFits == RequestFits(Idle)
BY DEF RequestFits, Idle, Busy

\* A request whose actor and command are those of a busy one, with what it saw.
SentAgain(q) ==
  [pc |-> "sent", actor |-> q.actor, command |-> q.command,
   expected |-> q.expected, seen |-> q.seen]

\* A commit: a document of the next revision, and every request behind it.
LEMMA CommitStep ==
  ASSUME IInv, NEW r \in Requests, NEW n, Commit(r, n), request[r].pc \in Busy,
         IsDocument(n), AggregateInvariants(n), n.revision = events,
         request[r].expected # NoRevision => request[r].seen = store
  PROVE  IInv'
<1>1. /\ events \in Nat /\ auditCount = events /\ unseen = FALSE
      /\ store # NoRecord => store.revision \in Nat /\ store.revision = events - 1
  BY DEF IInv, StoreFits
<1>2. /\ store' = n /\ events' = events + 1 /\ auditCount' = events + 1 /\ unseen' = FALSE
  BY <1>1 DEF Commit
<1>3. store' # NoRecord
  BY <1>2, DocumentIsARecord
<1>4. StoreFits'
  <2>1. events' \in Nat /\ events' # 0 /\ auditCount' = events' /\ store'.revision = events' - 1
    BY <1>1, <1>2
  <2>2. IsDocument(store)' /\ AggregateInvariants(store)'
    BY <1>2 DEF IsDocument
  <2> QED BY <1>3, <2>1, <2>2 DEF StoreFits
<1>5. ASSUME NEW expected, NEW seen, SeenFits(expected, seen)
      PROVE  SeenFits(expected, seen)'
  BY <1>1, <1>2, <1>3, <1>5 DEF SeenFits
<1>6. ASSUME NEW q, RequestFits(q) PROVE RequestFits(q)'
  <2>1. q.pc \in Busy => SeenFits(q.expected, q.seen)'
    BY <1>5, <1>6 DEF RequestFits
  <2>2. q.pc = "again" => q.since \in Int /\ q.since <= store'.revision
    BY <1>1, <1>2, <1>6 DEF RequestFits
  <2> QED BY <1>3, <1>6, <2>1, <2>2 DEF RequestFits
<1>7. PICK q \in {Idle, SentAgain(request[r])} : request' = [request EXCEPT ![r] = q]
  BY DEF Commit, Answer, Repeat, SentAgain
<1>8. RequestFits(q)
  <2>1. RequestFits(SentAgain(request[r]))
    BY DEF IInv, RequestFits, SentAgain, Busy
  <2> QED BY <1>7, <2>1, IdleFits
<1>9. DOMAIN request' = Requests
  BY <1>7 DEF IInv
<1>10. ASSUME NEW s \in Requests PROVE RequestFits(request[s])'
  <2>1. request'[s] = IF s = r THEN q ELSE request[s]
    BY <1>7 DEF IInv
  <2>2. RequestFits(request'[s])
    BY <1>8, <2>1 DEF IInv
  <2>3. PICK p : p = request'[s]
    OBVIOUS
  <2>4. RequestFits(p)'
    BY <1>6, <2>2, <2>3
  <2> QED BY <2>3, <2>4 DEF RequestFits, SeenFits
<1> QED BY <1>2, <1>4, <1>9, <1>10 DEF IInv

\* The transaction of a command: refused, or committed with all that was asked of it.
LEMMA MutateSteps ==
  ASSUME IInv, NEW r \in Requests, Mutate(r), request[r].pc \in {"body", "import"},
         request[r].command.type \notin Exports \union {"create"}
  PROVE  LET user == request[r].actor
             c    == request[r].command
             next == transitionWorkRecord(store, c, user)
             n    == [next.record EXCEPT !.revision = store.revision + 1]
         IN  \/ \E status \in 200 .. 599 : Refuse(r, status)
             \/ /\ Commit(r, n) /\ Refusal(store, user, c, request[r].expected) = 0
                /\ next.error = "none" /\ AggregateInvariants(next.record)
                /\ IsDocument(n) /\ AggregateInvariants(n) /\ n.revision = events
                /\ request[r].expected # NoRevision => request[r].seen = store
<1> DEFINE user == request[r].actor
           c    == request[r].command
           next == transitionWorkRecord(store, c, user)
           n    == [next.record EXCEPT !.revision = store.revision + 1]
           refused == Refusal(store, user, c, request[r].expected)
           parsed  == parseNextRecord(store, next.record)
<1>1. /\ store # NoRecord /\ IsDocument(store) /\ events \in Nat
      /\ store.revision \in Nat /\ store.revision = events - 1
      /\ c \in Commands /\ SeenFits(request[r].expected, request[r].seen)
  BY DEF IInv, StoreFits, RequestFits, Busy
<1>2. IsOutcome(next)
  <2>1. IsBody(c)
    BY <1>1, RecordApiAssumption
  <2> QED BY <1>1, <2>1, TransitionKeeps, SMTT(20)
<1>3. CASE refused # 0
  <2>1. Refuse(r, refused)
    BY <1>3 DEF Mutate
  <2>2. refused \in 200 .. 599
    BY <2>1 DEF Refuse, Answer
  <2> QED BY <2>1, <2>2
<1>4. CASE refused = 0 /\ parsed.error # "none"
  <2>1. Refuse(r, 400)
    BY <1>4 DEF Mutate
  <2> QED BY <2>1
<1>5. CASE refused = 0 /\ parsed.error = "none"
  <2>1. Commit(r, parsed.record)
    BY <1>5 DEF Mutate
  <2>2. next.error = "none"
    <3>1. next.error # "duplicate" /\ next.error # "invalid"
      BY <1>5 DEF Refusal
    <3> QED BY <1>2, <3>1 DEF IsOutcome, Errors
  <2>3. /\ parsed.record = n /\ IsDocument(parsed.record)
        /\ parsed.record.revision = store.revision + 1
        /\ AggregateInvariants(next.record) /\ AggregateInvariants(parsed.record)
    <3>1. IsDocument(next.record)
      BY <1>2 DEF IsOutcome
    <3> QED BY <1>1, <1>5, <3>1, NextRecord
  <2>4. request[r].expected # NoRevision => request[r].seen = store
    <3>1. request[r].expected # NoRevision => store.revision = request[r].expected
      BY <1>5 DEF Refusal
    <3> QED BY <1>1, <3>1 DEF SeenFits
  <2> HIDE DEF n, next, parsed
  <2>5. n.revision = events
    BY <1>1, <2>3
  <2> QED BY <1>5, <2>1, <2>2, <2>3, <2>4, <2>5 DEF n, next
<1> QED BY <1>3, <1>4, <1>5

\* Refused or committed, the transaction keeps the invariant.
LEMMA MutateKeeps ==
  ASSUME IInv, NEW r \in Requests, Mutate(r), request[r].pc \in {"body", "import"},
         request[r].command.type \notin Exports \union {"create"}
  PROVE  IInv'
<1>1. CASE \E status \in 200 .. 599 : Refuse(r, status)
  BY <1>1, IdleFits, QuietStep DEF Refuse, Answer
<1>2. CASE ~ \E status \in 200 .. 599 : Refuse(r, status)
  <2>1. PICK n : /\ Commit(r, n) /\ IsDocument(n) /\ AggregateInvariants(n)
                 /\ n.revision = events
                 /\ request[r].expected # NoRevision => request[r].seen = store
    BY <1>2, MutateSteps
  <2> QED BY <2>1, CommitStep DEF Busy
<1> QED BY <1>1, <1>2

\* The first document, of the user who creates it.
First(user) == addMember(createEmptyRecord("Untitled"), user, AccountRole[user])

\* The first document has its creator as its only member and can be parsed.
LEMMA FirstDocument ==
  ASSUME NEW user \in Users
  PROVE  IsDocument(First(user)) /\ AggregateInvariants(First(user)) /\ First(user).revision = 0
<1> DEFINE d == First(user)
<1>1. /\ DOMAIN d = Fields /\ d.revision = 0 /\ d.members = Put(<<>>, user, AccountRole[user])
      /\ d.regions = <<>> /\ d.takes = <<>> /\ d.takeIds = {} /\ d.preferred = Unset
      /\ d.comments = <<>> /\ d.versions = <<>> /\ d.releases = <<>> /\ d.snapshots = <<>>
      /\ d.artifacts = <<>> /\ d.policies = <<>>
  BY DEF First, addMember, createEmptyRecord, Fields
<1> HIDE DEF d
<1>2. DOMAIN <<>> = {}
  OBVIOUS
<1>3. IsDocument(d)
  BY <1>1, <1>2 DEF IsDocument, Put
<1>4. ValidRegions(d) /\ CommentAnchors(d)
  BY <1>1, <1>2 DEF ValidRegions, CommentAnchors
<1>5. TakeCoherence(d)
  BY <1>1, <1>2 DEF TakeCoherence
<1>6. VersionNamesUnique(d) /\ VersionSnapshotReferences(d)
  BY <1>1, <1>2 DEF VersionNamesUnique, VersionSnapshotReferences
<1>7. UniqueIds(d.releases) /\ UniqueIds(d.snapshots)
  BY <1>1, <1>2 DEF UniqueIds
<1>8. SubjectReferences(d) /\ ArtifactReferences(d)
  BY <1>1, <1>2 DEF SubjectReferences, ArtifactReferences
<1>9. AggregateInvariants(d)
  BY <1>4, <1>5, <1>6, <1>7, <1>8 DEF AggregateInvariants
<1> QED BY <1>1, <1>3, <1>9 DEF d

\* An insert is refused, or commits the first document.
LEMMA InsertSteps ==
  ASSUME IInv, NEW r \in Requests, Insert(r)
  PROVE  \/ Refuse(r, 409)
         \/ /\ store = NoRecord /\ Commit(r, First(request[r].actor))
            /\ request[r].actor \in Users /\ AccountRole[request[r].actor] # "guest"
            /\ request[r].expected = NoRevision /\ events = 0
<1>1. /\ request[r].actor \in Users /\ AccountRole[request[r].actor] # "guest"
      /\ SeenFits(request[r].expected, request[r].seen)
  BY DEF Insert, IInv, RequestFits, Busy
<1>2. CASE store = NoRecord
  BY <1>1, <1>2 DEF Insert, First, SeenFits, IInv, StoreFits
<1>3. CASE store # NoRecord
  BY <1>3 DEF Insert
<1> QED BY <1>2, <1>3

\* An insert keeps the invariant.
LEMMA InsertKeeps ==
  ASSUME IInv, NEW r \in Requests, Insert(r)
  PROVE  IInv'
<1>1. CASE Refuse(r, 409)
  BY <1>1, IdleFits, QuietStep DEF Refuse, Answer
<1>2. CASE ~Refuse(r, 409)
  <2>1. /\ Commit(r, First(request[r].actor)) /\ request[r].actor \in Users
        /\ request[r].expected = NoRevision /\ events = 0
    BY <1>2, InsertSteps
  <2>2. /\ IsDocument(First(request[r].actor)) /\ AggregateInvariants(First(request[r].actor))
        /\ First(request[r].actor).revision = events
    BY <2>1, FirstDocument
  <2>3. request[r].pc \in Busy
    BY DEF Insert, Busy
  <2> QED BY <2>1, <2>2, <2>3, CommitStep
<1> QED BY <1>1, <1>2

\* A step that only ends the request, or moves it on.
LEMMA AnswerKeeps ==
  ASSUME IInv, NEW r \in Requests, request' = [request EXCEPT ![r] = Idle],
         UNCHANGED <<store, events, auditCount, unseen>>
  PROVE  IInv'
BY IdleFits, QuietStep

-----------------------------------------------------------------------------
(* The handlers                                                             *)

\* The handlers one by one: each ends its request, moves it on, or commits.
LEMMA SendKeeps ==
  ASSUME IInv, NEW r \in Requests, NEW user \in Users, NEW c \in Commands, Send(r, user, c)
  PROVE  IInv'
<1>1. PICK conditional \in {FALSE} \union {store # NoRecord /\ user \in DOMAIN store.members} :
        request' = [request EXCEPT ![r] =
          [pc |-> "sent", actor |-> user, command |-> c,
           expected |-> IF conditional THEN store.revision ELSE NoRevision,
           seen     |-> IF conditional THEN store ELSE NoRecord]]
  BY DEF Send
<1> DEFINE q == [pc |-> "sent", actor |-> user, command |-> c,
                 expected |-> IF conditional THEN store.revision ELSE NoRevision,
                 seen     |-> IF conditional THEN store ELSE NoRecord]
<1>2. SeenFits(q.expected, q.seen)
  <2>1. conditional => store # NoRecord
    <3>1. conditional = FALSE \/ conditional = (store # NoRecord /\ user \in DOMAIN store.members)
      BY <1>1
    <3> QED BY <3>1, Zenon
  <2>2. CASE conditional
    <3>1. q.expected = store.revision /\ q.seen = store
      BY <2>2
    <3>2. store # NoRecord /\ store.revision \in Nat
      BY <2>1, <2>2 DEF IInv, StoreFits
    <3> QED BY <3>1, <3>2 DEF SeenFits
  <2>3. CASE ~conditional
    BY <2>3 DEF SeenFits
  <2> QED BY <2>2, <2>3
<1>3. RequestFits(q)
  BY <1>2 DEF RequestFits, Busy
<1> HIDE DEF q
<1>4. request' = [request EXCEPT ![r] = q]
  BY <1>1 DEF q
<1> QED BY <1>3, <1>4, QuietStep DEF Send

\* The look for the id before an insert.
LEMMA LookForRecordKeeps ==
  ASSUME IInv, NEW r \in Requests, LookForRecord(r)
  PROVE  IInv'
<1>1. CASE request' = [request EXCEPT ![r] = Idle]
  BY <1>1, AnswerKeeps DEF LookForRecord
<1>2. CASE request' # [request EXCEPT ![r] = Idle]
  <2> DEFINE q == [request[r] EXCEPT !.pc = "insert"]
  <2>1. request' = [request EXCEPT ![r].pc = "insert"] /\ AccountRole[request[r].actor] # "guest"
    BY <1>2 DEF LookForRecord, Answer
  <2>2. RequestFits(q)
    <3>1. RequestFits(request[r]) /\ request[r].pc = "sent" /\ request[r].command.type = "create"
      BY DEF IInv, LookForRecord
    <3> QED BY <2>1, <3>1 DEF RequestFits, Busy
  <2> HIDE DEF q
  <2>3. request' = [request EXCEPT ![r] = q]
    BY <2>1 DEF q
  <2> QED BY <2>2, <2>3, QuietStep DEF LookForRecord
<1> QED BY <1>1, <1>2

\* The authorisation before the body.
LEMMA AuthoriseKeeps ==
  ASSUME IInv, NEW r \in Requests, Authorise(r)
  PROVE  IInv'
<1>1. CASE request' = [request EXCEPT ![r] = Idle]
  BY <1>1, AnswerKeeps DEF Authorise
<1>2. CASE request' # [request EXCEPT ![r] = Idle]
  <2>1. /\ Access(store, request[r].actor, request[r].command) = 0
        /\ \E read : request' = [request EXCEPT ![r] =
             [pc |-> "body", actor |-> @.actor, command |-> @.command,
              expected |-> @.expected, seen |-> @.seen, since |-> 0, read |-> read]]
    BY <1>2 DEF Authorise, Answer
  <2>2. store # NoRecord
    BY <2>1 DEF Access
  <2>3. PICK read : request' = [request EXCEPT ![r] =
             [pc |-> "body", actor |-> @.actor, command |-> @.command,
              expected |-> @.expected, seen |-> @.seen, since |-> 0, read |-> read]]
    BY <2>1
  <2> DEFINE q == [pc |-> "body", actor |-> request[r].actor, command |-> request[r].command,
                   expected |-> request[r].expected, seen |-> request[r].seen,
                   since |-> 0, read |-> read]
  <2>4. RequestFits(q)
    <3>1. RequestFits(request[r]) /\ request[r].pc = "sent" /\ request[r].command.type # "create"
      BY DEF IInv, Authorise
    <3> QED BY <2>2, <3>1 DEF RequestFits, Busy
  <2> HIDE DEF q
  <2>5. request' = [request EXCEPT ![r] = q]
    BY <2>3 DEF q
  <2> QED BY <2>4, <2>5, QuietStep DEF Authorise
<1> QED BY <1>1, <1>2

\* The checks of a body and its transaction.
LEMMA ExecuteKeeps ==
  ASSUME IInv, NEW r \in Requests, Execute(r)
  PROVE  IInv'
<1> DEFINE problem == BodyProblem(request[r].read, request[r].actor, request[r].command)
<1>1. CASE problem # 0
  BY <1>1, AnswerKeeps DEF Execute, Refuse, Answer
<1>2. CASE problem = 0
  <2>1. Mutate(r) /\ request[r].pc = "body"
    BY <1>2 DEF Execute
  <2>2. request[r].command.type \notin Exports \union {"create"}
    BY <2>1 DEF Execute, IInv, RequestFits
  <2> QED BY <2>1, <2>2, MutateKeeps
<1> QED BY <1>1, <1>2

\* The arrival of the body of an export or import.
LEMMA AskAgainKeeps ==
  ASSUME IInv, NEW r \in Requests, AskAgain(r)
  PROVE  IInv'
<1> DEFINE q == [request[r] EXCEPT !.pc = "again", !.since = store.revision]
<1>1. /\ RequestFits(request[r]) /\ request[r].pc = "body"
      /\ request[r].command.type \in Exports \union Imports
  BY DEF IInv, AskAgain
<1>2. store # NoRecord /\ store.revision \in Int
  BY <1>1 DEF RequestFits, IInv, StoreFits
<1>3. /\ q.pc = "again" /\ q.since = store.revision /\ q.actor = request[r].actor
      /\ q.command = request[r].command /\ q.expected = request[r].expected
      /\ q.seen = request[r].seen /\ DOMAIN q = DOMAIN request[r]
  BY <1>1 DEF RequestFits, Busy
<1> HIDE DEF q
<1>4. RequestFits(q)
  BY <1>1, <1>2, <1>3 DEF RequestFits, Busy
<1>5. request' = [request EXCEPT ![r] = q]
  BY DEF AskAgain, q
<1> QED BY <1>4, <1>5, QuietStep DEF AskAgain

\* The decision of an export.
LEMMA ExportKeeps ==
  ASSUME IInv, NEW r \in Requests, Export(r)
  PROVE  IInv'
<1> DEFINE x == [pc |-> "exported", since |-> request[r].since, used |-> store.revision]
<1>1. PICK q \in {x, Idle} : request' = [request EXCEPT ![r] = q]
  BY DEF Export, ExportCopy
<1>2. RequestFits(x)
  <2>1. /\ store # NoRecord /\ request[r].since \in Int /\ request[r].since <= store.revision
    BY DEF Export, IInv, RequestFits
  <2>2. store.revision \in Int
    BY <2>1 DEF IInv, StoreFits
  <2> QED BY <2>1, <2>2 DEF RequestFits, Busy
<1> HIDE DEF x
<1>3. RequestFits(q)
  BY <1>1, <1>2, IdleFits
<1> QED BY <1>1, <1>3, QuietStep DEF Export

\* The second authorisation of an import.
LEMMA AuthoriseImportKeeps ==
  ASSUME IInv, NEW r \in Requests, AuthoriseImport(r)
  PROVE  IInv'
<1>1. CASE request' = [request EXCEPT ![r] = Idle]
  BY <1>1, AnswerKeeps DEF AuthoriseImport
<1>2. CASE request' # [request EXCEPT ![r] = Idle]
  <2> DEFINE q == [request[r] EXCEPT !.pc = "import"]
  <2>1. request' = [request EXCEPT ![r].pc = "import"]
    BY <1>2 DEF AuthoriseImport, Answer
  <2>2. RequestFits(q)
    <3>1. RequestFits(request[r]) /\ request[r].pc = "again" /\ request[r].command.type \in Imports
      BY DEF IInv, AuthoriseImport
    <3>2. /\ q.pc = "import" /\ q.actor = request[r].actor
          /\ q.command = request[r].command /\ q.expected = request[r].expected
          /\ q.seen = request[r].seen /\ DOMAIN q = DOMAIN request[r]
      BY <3>1 DEF RequestFits, Busy
    <3> HIDE DEF q
    <3> QED BY <3>1, <3>2 DEF RequestFits, Busy
  <2> HIDE DEF q
  <2>3. request' = [request EXCEPT ![r] = q]
    BY <2>1 DEF q
  <2> QED BY <2>2, <2>3, QuietStep DEF AuthoriseImport
<1> QED BY <1>1, <1>2

\* The transaction of an import.
LEMMA ImportKeeps ==
  ASSUME IInv, NEW r \in Requests, Import(r)
  PROVE  IInv'
<1>1. Mutate(r) /\ request[r].pc = "import" /\ request[r].command.type \in Imports
  BY DEF Import, IInv, RequestFits
<1>2. request[r].command.type \notin Exports \union {"create"}
  BY <1>1 DEF Imports, Exports
<1> QED BY <1>1, <1>2, MutateKeeps

\* The invariant holds before the first request.
LEMMA InitFits == Init => IInv
<1> SUFFICES ASSUME Init PROVE IInv
  OBVIOUS
<1>1. StoreFits
  BY DEF Init, StoreFits
<1>2. \A r \in Requests : RequestFits(request[r])
  BY IdleFits DEF Init
<1> QED BY <1>1, <1>2 DEF Init, IInv

\* Every step keeps it.
LEMMA NextKeeps == IInv /\ [Next]_vars => IInv'
<1> SUFFICES ASSUME IInv, [Next]_vars PROVE IInv'
  OBVIOUS
<1>1. CASE UNCHANGED vars
  BY <1>1 DEF vars, IInv, StoreFits, RequestFits, SeenFits
<1>2. CASE Next
  <2>1. PICK r \in Requests :
          \/ \E user \in Users, c \in Commands : Send(r, user, c)
          \/ LookForRecord(r) \/ Insert(r) \/ Authorise(r) \/ Execute(r)
          \/ AskAgain(r) \/ Export(r) \/ Exported(r)
          \/ AuthoriseImport(r) \/ Import(r) \/ Fail(r)
    BY <1>2 DEF Next
  <2>2. CASE \E user \in Users, c \in Commands : Send(r, user, c)
    BY <2>2, SendKeeps
  <2>3. CASE LookForRecord(r)
    BY <2>3, LookForRecordKeeps
  <2>4. CASE Insert(r)
    BY <2>4, InsertKeeps
  <2>5. CASE Authorise(r)
    BY <2>5, AuthoriseKeeps
  <2>6. CASE Execute(r)
    BY <2>6, ExecuteKeeps
  <2>7. CASE AskAgain(r)
    BY <2>7, AskAgainKeeps
  <2>8. CASE Export(r)
    BY <2>8, ExportKeeps
  <2>9. CASE Exported(r)
    BY <2>9, AnswerKeeps DEF Exported, Answer
  <2>10. CASE AuthoriseImport(r)
    BY <2>10, AuthoriseImportKeeps
  <2>11. CASE Import(r)
    BY <2>11, ImportKeeps
  <2>12. CASE Fail(r)
    BY <2>12, AnswerKeeps DEF Fail, Answer
  <2> QED BY <2>1, <2>2, <2>3, <2>4, <2>5, <2>6, <2>7, <2>8, <2>9, <2>10, <2>11, <2>12
<1> QED BY <1>1, <1>2

(* The inductive invariant, in every state of every behaviour.             *)
THEOREM RequestsFit == Spec => []IInv
BY InitFits, NextKeeps, PTL DEF Spec

(* A change with If-Match is applied to the document its client saw, and   *)
(* every change is counted with its event and its revision, whatever is    *)
(* refused, repeated or lost between (assertExpectedRevision, mutate).     *)
THEOREM ChangesStayExact == Spec => []ChangesAreExact
<1>1. IInv => ChangesAreExact
  BY DEF IInv, StoreFits, IsDocument, RequestFits, Busy, ChangesAreExact, TypeOK, IfMatchHolds
<1> QED BY <1>1, RequestsFit, PTL

(* An export is decided on a record no older than its body (serveShare,    *)
(* serveInterop, exportRecord).                                            *)
THEOREM ExportsStayFresh == Spec => []ExportIsFresh
<1>1. IInv => ExportIsFresh
  BY DEF IInv, RequestFits, ExportIsFresh
<1> QED BY <1>1, RequestsFit, PTL

-----------------------------------------------------------------------------
(* The refinement of RecordCommands                                         *)

\* The abstract module's aggregate is this one.
LEMMA SameNumbers ==
  ASSUME NEW comments
  PROVE  Abstract!nextCommentId(comments) = nextCommentId(comments)
BY DEF nextCommentId, Cardinality, Abstract!nextCommentId, Abstract!Cardinality

\* Written out, the two are the same text, in the recursive function too.
LEMMA SameImports ==
  ASSUME NEW kind, NEW start, NEW parts
  PROVE  Abstract!AddAll(kind, start, parts) = AddAll(kind, start, parts)
BY DEF AddAll, AddPart, addRegion, addComment, addTrack, addTake, nextCommentId, Cardinality, Put,
       Done, Throws, Unset, Abstract!AddAll, Abstract!AddPart, Abstract!addRegion,
       Abstract!addComment, Abstract!addTrack, Abstract!addTake, Abstract!nextCommentId,
       Abstract!Cardinality, Abstract!Put, Abstract!Done, Abstract!Throws, Abstract!Unset

\* The transitions of the abstract module are these.
LEMMA SameTransitions ==
  ASSUME NEW d, NEW c, NEW actor
  PROVE  Abstract!transitionWorkRecord(d, c, actor) = transitionWorkRecord(d, c, actor)
<1>1. \A x : Abstract!Done(x) = Done(x)
  BY DEF Abstract!Done, Done
<1>2. \A x, y : Abstract!Throws(x, y) = Throws(x, y)
  BY DEF Abstract!Throws, Throws
<1>3. \A f, k, v : Abstract!Put(f, k, v) = Put(f, k, v)
  BY DEF Abstract!Put, Put
<1>4. Abstract!addTrack(d, c) = addTrack(d, c)
  BY <1>1, <1>2, <1>3 DEF Abstract!addTrack, addTrack
<1>5. \A id, track : Abstract!PutTrack(d, id, track) = PutTrack(d, id, track)
  BY <1>1, <1>2, <1>3 DEF Abstract!PutTrack, PutTrack
<1>6. Abstract!addAnalysisTrack(d, c) = addAnalysisTrack(d, c)
  BY <1>2, <1>5 DEF Abstract!addAnalysisTrack, addAnalysisTrack
<1>7. Abstract!attachMveiMotifTrack(d, c) = attachMveiMotifTrack(d, c)
  BY <1>1, <1>5 DEF Abstract!attachMveiMotifTrack, attachMveiMotifTrack
<1>8. Abstract!attachMusicNotationTrack(d, c) = attachMusicNotationTrack(d, c)
  BY <1>5 DEF Abstract!attachMusicNotationTrack, attachMusicNotationTrack
<1>9. Abstract!addTake(d, c) = addTake(d, c)
  BY DEF Abstract!addTake, addTake, Abstract!Done, Done, Abstract!Put, Put, Abstract!Unset, Unset
<1>10. Abstract!setPreferredTake(d, c) = setPreferredTake(d, c)
  BY <1>1, <1>2 DEF Abstract!setPreferredTake, setPreferredTake
<1>11. Abstract!addRegion(d, c) = addRegion(d, c)
  BY <1>1, <1>2, <1>3 DEF Abstract!addRegion, addRegion
<1>12. Abstract!addComment(d, c, actor) = addComment(d, c, actor)
  BY <1>1, <1>2, <1>3, SameNumbers DEF Abstract!addComment, addComment, Abstract!Unset, Unset
<1>13. Abstract!resolveComment(d, c) = resolveComment(d, c)
  BY <1>1, <1>2 DEF Abstract!resolveComment, resolveComment
<1>14. Abstract!attachUsePolicySnapshot(d, c, actor) = attachUsePolicySnapshot(d, c, actor)
  BY <1>1, <1>2 DEF Abstract!attachUsePolicySnapshot, attachUsePolicySnapshot
<1>15. Abstract!submitVersion(d, c) = submitVersion(d, c)
  BY <1>1 DEF Abstract!submitVersion, submitVersion
<1>16. Abstract!addRepresentedSubject(d, c) = addRepresentedSubject(d, c)
  BY <1>1, <1>2 DEF Abstract!addRepresentedSubject, addRepresentedSubject
<1>17. Abstract!addArtifact(d, c) = addArtifact(d, c)
  BY <1>1, <1>2, <1>3 DEF Abstract!addArtifact, addArtifact
<1>18. Abstract!addAnnotation(d) = addAnnotation(d)
  BY <1>1 DEF Abstract!addAnnotation, addAnnotation
<1>19. Abstract!addUsePolicy(d, c) = addUsePolicy(d, c)
  BY <1>1, <1>2, <1>3 DEF Abstract!addUsePolicy, addUsePolicy
<1>20. Abstract!addSnapshot(d, c) = addSnapshot(d, c)
  BY <1>1, <1>2 DEF Abstract!addSnapshot, addSnapshot
<1>21. Abstract!addMember(d, c.user, c.role) = addMember(d, c.user, c.role)
  BY <1>3 DEF Abstract!addMember, addMember
<1>22. Abstract!patch(d, c) = patch(d, c)
  BY <1>1 DEF Abstract!patch, patch
<1>23. Abstract!importEaf(d, c) = importEaf(d, c)
  BY <1>1, SameImports DEF Abstract!importEaf, importEaf
<1>24. Abstract!importOtio(d, c) = importOtio(d, c)
  BY <1>1, SameImports DEF Abstract!importOtio, importOtio
<1> QED
  BY <1>1, <1>4, <1>6, <1>7, <1>8, <1>9, <1>10, <1>11, <1>12, <1>13, <1>14, <1>15, <1>16, <1>17,
     <1>18, <1>19, <1>20, <1>21, <1>22, <1>23, <1>24
  DEF Abstract!transitionWorkRecord, transitionWorkRecord

\* So are the invariants of a document.
LEMMA SameAggregate ==
  ASSUME NEW d
  PROVE  Abstract!AggregateInvariants(d) <=> AggregateInvariants(d)
BY DEF AggregateInvariants, ValidRegions, TakeCoherence, CommentAnchors, VersionNamesUnique,
       UniqueIds, SubjectReferences, ArtifactReferences, VersionSnapshotReferences, Unset,
       Abstract!AggregateInvariants, Abstract!ValidRegions, Abstract!TakeCoherence,
       Abstract!CommentAnchors, Abstract!VersionNamesUnique, Abstract!UniqueIds,
       Abstract!SubjectReferences, Abstract!ArtifactReferences,
       Abstract!VersionSnapshotReferences, Abstract!Unset

\* And the permissions and the first document.
LEMMA SamePermissions ==
  /\ Abstract!CommandPermissions = CommandPermissions
  /\ \A d, user, mutation : Abstract!CanMutate(d, user, mutation) <=> CanMutate(d, user, mutation)
  /\ \A user : Abstract!addMember(Abstract!createEmptyRecord("Untitled"), user, AccountRole[user])
                 = First(user)
  /\ Abstract!NoRecord = NoRecord
<1>1. Abstract!CommandPermissions = CommandPermissions
  BY DEF Abstract!CommandPermissions, CommandPermissions, Abstract!CommandTypes, CommandTypes
<1>2. Abstract!RolePermissions = RolePermissions
  BY DEF Abstract!RolePermissions, RolePermissions, Abstract!AllMutations, AllMutations
<1>3. \A d, user, mutation : Abstract!CanMutate(d, user, mutation) <=> CanMutate(d, user, mutation)
  BY <1>2 DEF Abstract!CanMutate, CanMutate
<1>4. \A user : Abstract!addMember(Abstract!createEmptyRecord("Untitled"), user, AccountRole[user])
                  = First(user)
  BY DEF First, addMember, createEmptyRecord, Put, Unset, Abstract!addMember,
         Abstract!createEmptyRecord, Abstract!Put, Abstract!Unset
<1>5. Abstract!NoRecord = NoRecord
  BY DEF Abstract!NoRecord, NoRecord
<1> QED BY <1>1, <1>3, <1>4, <1>5

\* What is not refused is permitted, on the record as it is then.
LEMMA PermittedThen ==
  ASSUME NEW d, NEW user, NEW c, NEW expected, IsBody(c),
         c.type \notin Exports \union {"create"}, Refusal(d, user, c, expected) = 0
  PROVE  Abstract!Permitted(d, user, c)
<1>1. /\ user \in DOMAIN d.members /\ ~InvitationProblem(d, user, c)
      /\ \A mutation \in Mutations(c) : CanMutate(d, user, mutation)
  BY DEF Refusal
<1>2. Abstract!RequiredPermissions(c) \subseteq Mutations(c)
  <2>1. CASE c.type = "patch"
    <3>1. c.fields \subseteq {"title", "members"}
      BY <2>1 DEF IsBody, IsCommand
    <3>2. Abstract!RequiredPermissions(c)
            = {IF f = "title" THEN "edit_record" ELSE "edit_members" : f \in c.fields}
      BY <2>1 DEF Abstract!RequiredPermissions
    <3>3. Mutations(c) = (IF "title" \in c.fields THEN {"edit_record"} ELSE {})
                           \union (IF "members" \in c.fields THEN {"edit_members"} ELSE {})
      BY <2>1 DEF Mutations, Imports
    <3> QED BY <3>1, <3>2, <3>3
  <2>2. CASE c.type # "patch"
    BY <2>2, SamePermissions DEF Abstract!RequiredPermissions, Mutations, Imports
  <2> QED BY <2>1, <2>2
<1>3. c.type = "add-member" => Abstract!MayInvite(d, user, c)
  BY <1>1, SamePermissions DEF InvitationProblem, Abstract!MayInvite
<1> QED BY <1>1, <1>2, <1>3, SamePermissions DEF Abstract!Permitted

\* What the handler found nothing wrong with is lawful, whatever record it read.
LEMMA LawfulBody ==
  ASSUME NEW user, NEW c, c.type \notin Imports => \E read : BodyProblem(read, user, c) = 0
  PROVE  Abstract!Lawful(user, c)
<1>1. CASE c.type = "patch"
  <2>1. PICK read : PatchProblem(read, user, c) = 0
    BY <1>1 DEF BodyProblem, Imports
  <2>2. "members" \in c.fields =>
          /\ ~AdminAssignmentProblem(user, c)
          /\ \E u \in DOMAIN c.members : c.members[u] \in {"faculty", "admin"}
    \* The title is hidden: no prover here takes the empty string.
    <3> DEFINE Untitled == c.title = ""
               Names(role) == \E u \in DOMAIN c.members : c.members[u] \in role
    <3>1. PatchProblem(read, user, c)
            = IF "title" \in c.fields /\ ~CanMutate(read, user, "edit_record") THEN 403
              ELSE IF "title" \in c.fields /\ Untitled THEN 400
              ELSE IF "members" \notin c.fields THEN 0
              ELSE IF ~CanMutate(read, user, "edit_members") THEN 403
              ELSE IF AdminAssignmentProblem(user, c) THEN 403
              ELSE IF ~Names({"faculty", "admin"}) THEN 400 ELSE 0
      BY DEF PatchProblem
    <3> HIDE DEF Names, Untitled
    <3>2. "members" \in c.fields => ~AdminAssignmentProblem(user, c) /\ Names({"faculty", "admin"})
      BY <2>1, <3>1
    <3> QED BY <3>2 DEF Names
  <2> QED BY <1>1, <2>2 DEF Abstract!Lawful, Abstract!GivesRole, AdminAssignmentProblem
<1>2. CASE c.type = "add-member"
  <2>1. PICK read : MemberProblem(read, user, c) = 0
    BY <1>2 DEF BodyProblem, Imports
  <2>2. ~AdminAssignmentProblem(user, c)
    BY <2>1 DEF MemberProblem
  <2> QED BY <1>2, <2>2 DEF Abstract!Lawful, Abstract!GivesRole, AdminAssignmentProblem
<1>3. CASE c.type \notin {"patch", "add-member"}
  BY <1>3 DEF Abstract!Lawful, Abstract!GivesRole
<1> QED BY <1>1, <1>2, <1>3

\* A transaction is refused, or a change of RecordCommands.
LEMMA MutateIsAChange ==
  ASSUME IInv, NEW r \in Requests, Mutate(r), request[r].pc \in {"body", "import"},
         request[r].command.type \notin Exports \union {"create"},
         Abstract!Lawful(request[r].actor, request[r].command)
  PROVE  [Abstract!Next]_<<store, events>>
<1> DEFINE user == request[r].actor
           c    == request[r].command
           next == transitionWorkRecord(store, c, user)
           n    == [next.record EXCEPT !.revision = store.revision + 1]
<1>1. user \in Users /\ c \in Commands /\ store # NoRecord
  BY DEF IInv, RequestFits, Busy
<1>2. CASE \E status \in 200 .. 599 : Refuse(r, status)
  BY <1>2 DEF Refuse
<1>3. CASE ~ \E status \in 200 .. 599 : Refuse(r, status)
  <2>1. /\ Commit(r, n) /\ Refusal(store, user, c, request[r].expected) = 0
        /\ next.error = "none" /\ AggregateInvariants(next.record)
    BY <1>3, MutateSteps
  <2>2. IsBody(c)
    BY <1>1, RecordApiAssumption
  <2>3. Abstract!Permitted(store, user, c)
    BY <2>1, <2>2, PermittedThen
  <2>4. /\ events <= MaxChanges /\ store' = n /\ events' = events + 1
    BY <2>1 DEF Commit
  <2>5. Abstract!transitionWorkRecord(store, c, user) = next
    BY SameTransitions
  <2>6. Abstract!AggregateInvariants(next.record)
    BY <2>1, SameAggregate
  <2>7. n = Abstract!Written(next.record, store)
    BY DEF Abstract!Written
  <2> HIDE DEF n, next
  <2>8. Abstract!Change(user, c)
    BY <1>1, <2>1, <2>3, <2>4, <2>5, <2>6, <2>7, SamePermissions DEF Abstract!Change
  <2>9. c \in {d \in Commands : d.type \notin Exports \union {"create"}}
    BY <1>1
  <2> QED BY <1>1, <2>8, <2>9 DEF Abstract!Next
<1> QED BY <1>2, <1>3

\* An insert is refused, or the creation of RecordCommands.
LEMMA InsertIsACreation ==
  ASSUME IInv, NEW r \in Requests, Insert(r)
  PROVE  [Abstract!Next]_<<store, events>>
<1>1. CASE Refuse(r, 409)
  BY <1>1 DEF Refuse
<1>2. CASE ~Refuse(r, 409)
  <2>1. /\ store = NoRecord /\ Commit(r, First(request[r].actor))
        /\ request[r].actor \in Users /\ AccountRole[request[r].actor] # "guest"
    BY <1>2, InsertSteps
  <2>2. AccountRole[request[r].actor] \in {"student", "faculty", "admin"}
    BY <2>1, RecordApiAssumption DEF Roles
  <2>3. store' = First(request[r].actor) /\ events' = events + 1
    BY <2>1 DEF Commit
  <2>4. Abstract!Create(request[r].actor)
    BY <2>1, <2>2, <2>3, SamePermissions DEF Abstract!Create
  <2> QED BY <2>1, <2>4 DEF Abstract!Next
<1> QED BY <1>1, <1>2

\* Every step is a command of RecordCommands, or changes neither record nor log.
LEMMA StepsAreCommands ==
  ASSUME IInv, [Next]_vars
  PROVE  [Abstract!Next]_<<store, events>>
<1>1. CASE UNCHANGED <<store, events>>
  BY <1>1
<1>2. CASE ~UNCHANGED <<store, events>>
  <2>1. PICK r \in Requests : Insert(r) \/ Execute(r) \/ Import(r)
    BY <1>2 DEF vars, Next, Send, LookForRecord, Authorise, AskAgain, Export, Exported,
                AuthoriseImport, Fail
  <2>2. CASE Insert(r)
    BY <2>2, InsertIsACreation
  <2>3. CASE Execute(r)
    <3>1. BodyProblem(request[r].read, request[r].actor, request[r].command) = 0 /\ Mutate(r)
      BY <1>2, <2>3 DEF Execute, Refuse
    <3>2. Abstract!Lawful(request[r].actor, request[r].command)
      BY <3>1, LawfulBody
    <3>3. request[r].command.type \notin Exports \union {"create"} /\ request[r].pc = "body"
      BY <2>3 DEF Execute, IInv, RequestFits
    <3> QED BY <3>1, <3>2, <3>3, MutateIsAChange
  <2>4. CASE Import(r)
    <3>1. Mutate(r) /\ request[r].pc = "import" /\ request[r].command.type \in Imports
      BY <2>4 DEF Import, IInv, RequestFits
    <3>2. Abstract!Lawful(request[r].actor, request[r].command)
      BY <3>1, LawfulBody
    <3>3. request[r].command.type \notin Exports \union {"create"}
      BY <3>1 DEF Imports, Exports
    <3> QED BY <3>1, <3>2, <3>3, MutateIsAChange
  <2> QED BY <2>1, <2>2, <2>3, <2>4
<1> QED BY <1>1, <1>2

(* Whatever the requests read before their bodies, the record only takes   *)
(* the steps of RecordCommands: whole commands, once, of actors whom the   *)
(* record permits them when it is changed, each with its event.            *)
THEOREM RequestsAreCommands == Spec => ImplementsCommands
<1>1. Init => Abstract!Init
  BY SamePermissions DEF Init, Abstract!Init
<1>2. IInv /\ [Next]_vars => [Abstract!Next]_<<store, events>>
  BY StepsAreCommands
<1>3. Spec => Abstract!Spec
  BY <1>1, <1>2, RequestsFit, PTL DEF Spec, Abstract!Spec, Abstract!vars
<1> QED BY <1>3 DEF ImplementsCommands
-----------------------------------------------------------------------------
(* The tables of the record store                                          *)

\* The operators of the library are the same in the instance.
LEMMA SameLibrary ==
  /\ \A S : Pg!Cardinality(S) = Cardinality(S) /\ Pg!IsFiniteSet(S) = IsFiniteSet(S)
  /\ \A s : Pg!ToSet(s) = ToSet(s)
<1>1. ASSUME NEW S PROVE Pg!Cardinality(S) = Cardinality(S)
  BY DEF Pg!Cardinality, Cardinality
<1>2. ASSUME NEW S PROVE Pg!IsFiniteSet(S) = IsFiniteSet(S)
  BY DEF Pg!IsFiniteSet, IsFiniteSet
<1>3. ASSUME NEW s PROVE Pg!ToSet(s) = ToSet(s)
  BY DEF Pg!ToSet, ToSet
<1> QED BY <1>1, <1>2, <1>3

Live(R) == {i \in Ids : R[i] # NoRecord}
IsRow(row) == row = NoRecord \/ row \in [rev : Nat, by : Nat]
Counters(R, E) == [records |-> Cardinality(Live(R)), audit |-> Cardinality(E)]

\* What a transaction counted, when it changes the counters C by so much.
Counted(t, C, more, noted) == t.counted = [records |-> C.records + more, audit |-> C.audit + noted]

Inserts(t) == Pg!Lock(t.call.id, "insert")
Updates(t) == Pg!Lock(t.call.id, "update")
Deletes(t) == Pg!Lock(t.call.id, "delete")
Shares(t) == Pg!Lock(t.call.id, "share")
CountLock == Pg!Lock("counters", "update")
ImportLock == Pg!Lock("imports", "update")

\* The one event of an operation, with its number.
Noted(t) == t.noted = <<[n |-> t.noted[1].n, id |-> t.call.id, kind |-> t.call.op]>>
\* No event that left a state behind has a number as great.
IsLater(t, E) == \A e \in Pg!Took(E, t.call.id) : e.n < t.noted[1].n

\* The event and its count, without a lock on the record.
NoteFits(t, C) ==
  \/ t.todo = <<"event", "note">> /\ t.locks = {} /\ t.noted = <<>>
  \/ t.todo = <<"note">> /\ t.locks = {} /\ Noted(t)
  \/ t.todo = <<>> /\ t.locks = {CountLock} /\ Noted(t) /\ Counted(t, C, 0, 1)

\* How far each operation is: what it has to do, which locks it holds, and what of the tables
\* they keep for it.
CreateFits(r, t, R, C, E) ==
  \/ t.todo = <<"insert", "count", "event", "note">> /\ t.locks = {} /\ t.noted = <<>>
  \/ /\ R[t.call.id] = NoRecord /\ t.row = [rev |-> 0, by |-> r]
     /\ \/ t.todo = <<"count", "event", "note">> /\ t.locks = {Inserts(t)} /\ t.noted = <<>>
        \/ /\ t.locks = {Inserts(t), CountLock}
           /\ \/ t.todo = <<"event", "note">> /\ t.noted = <<>> /\ Counted(t, C, 1, 0)
              \/ t.todo = <<"note">> /\ Noted(t) /\ IsLater(t, E) /\ Counted(t, C, 1, 0)
              \/ t.todo = <<>> /\ Noted(t) /\ IsLater(t, E) /\ Counted(t, C, 1, 1)
MutateFits(r, t, R, C, E) ==
  \/ t.todo = <<"lock", "event", "note">> /\ t.locks = {} /\ t.noted = <<>>
  \/ /\ R[t.call.id] # NoRecord /\ t.row = [rev |-> R[t.call.id].rev + 1, by |-> r]
     /\ \/ t.todo = <<"event", "note">> /\ t.locks = {Updates(t)} /\ t.noted = <<>>
        \/ t.todo = <<"note">> /\ t.locks = {Updates(t)} /\ Noted(t) /\ IsLater(t, E)
        \/ /\ t.todo = <<>> /\ t.locks = {Updates(t), CountLock} /\ Noted(t) /\ IsLater(t, E)
           /\ Counted(t, C, 0, 1)
DeleteFits(r, t, R, C, E) ==
  \/ t.todo = <<"remove", "count", "event", "note">> /\ t.locks = {} /\ t.noted = <<>>
  \/ /\ R[t.call.id] # NoRecord /\ t.row = R[t.call.id]
     /\ \/ t.todo = <<"count", "event", "note">> /\ t.locks = {Deletes(t)} /\ t.noted = <<>>
        \/ /\ t.locks = {Deletes(t), CountLock}
           /\ \/ t.todo = <<"event", "note">> /\ t.noted = <<>> /\ Counted(t, C, -1, 0)
              \/ t.todo = <<"note">> /\ Noted(t) /\ IsLater(t, E) /\ Counted(t, C, -1, 0)
              \/ t.todo = <<>> /\ Noted(t) /\ IsLater(t, E) /\ Counted(t, C, -1, 1)
  \/ t.row = NoRecord /\ NoteFits(t, C)
AppendFits(r, t, R, C, E) == t.row = NoRecord /\ NoteFits(t, C)
EvidenceFits(r, t, R, C, E) ==
  /\ t.noted = <<>>
  /\ \/ t.todo = <<"share", "read">> /\ t.locks = {} /\ t.row = NoRecord
     \/ t.todo = <<"read">> /\ t.locks = {Shares(t)} /\ R[t.call.id] # NoRecord /\ t.row = R[t.call.id]
     \/ t.todo = <<>> /\ t.locks = {} /\ t.row = NoRecord
     \/ t.todo = <<>> /\ t.locks = {Shares(t)} /\ R[t.call.id] # NoRecord /\ t.row = R[t.call.id]

Loads(c) == {Pg!Lock(i, "insert") : i \in DOMAIN c.rows}
\* No other import is in the tables, and no removed record that this one brings.
IsFirst(c, E) == \A i \in Pg!Removed(c) : Pg!Took(E, i) = {}
\* The history it brings, under one number after the other.
Historic(t, E) ==
  LET first == t.noted[1].n
  IN /\ t.noted = [k \in DOMAIN t.call.events |->
                     [n |-> first + k - 1, id |-> t.call.events[k].id, kind |-> t.call.events[k].kind]]
     /\ \A i \in DOMAIN t.call.rows : \A e \in Pg!Took(E, i) : e.n < first
ImportFits(r, t, R, C, E) ==
  LET c == t.call
      empty == \A i \in DOMAIN c.rows : R[i] = NoRecord
  IN \/ t.todo = <<"empty", "load", "history", "count">> /\ t.locks = {} /\ t.noted = <<>>
     \/ /\ IsFirst(c, E)
        /\ \/ t.todo = <<"load", "history", "count">> /\ t.locks = {ImportLock} /\ t.noted = <<>>
           \/ /\ t.todo = <<"history", "count">> /\ t.locks = {ImportLock} \cup Loads(c) /\ t.noted = <<>>
              /\ empty
           \/ t.todo = <<"count">> /\ t.locks = {ImportLock} \cup Loads(c) /\ Historic(t, E) /\ empty
           \/ /\ t.todo = <<>> /\ t.locks = {ImportLock, CountLock} \cup Loads(c) /\ Historic(t, E) /\ empty
              /\ Counted(t, C, Cardinality(DOMAIN c.rows), Len(c.events))

OpFits(r, t, R, C, E) ==
  \/ t.call.op = "create" /\ CreateFits(r, t, R, C, E)
  \/ t.call.op = "mutate" /\ MutateFits(r, t, R, C, E)
  \/ t.call.op = "delete" /\ DeleteFits(r, t, R, C, E)
  \/ t.call.op = "append" /\ AppendFits(r, t, R, C, E)
  \/ t.call.op = "evidence" /\ EvidenceFits(r, t, R, C, E)
  \/ t.call.op = "import" /\ ImportFits(r, t, R, C, E)

\* A transaction, with the numbers below s that it took.
IsTxn(t) ==
  t = [call |-> t.call, state |-> t.state, todo |-> t.todo, locks |-> t.locks, row |-> t.row,
       noted |-> t.noted, counted |-> t.counted, seen |-> t.seen]
Numbers(t) == {t.noted[k].n : k \in DOMAIN t.noted}
TxnFits(r, t, R, C, E, s) ==
  /\ IsTxn(t) /\ t.state \in {"idle", "open", "done", "failed"}
  /\ t.state = "idle" => t = Pg!Idle
  /\ t.state # "idle" => t.call \in Calls
  /\ t.state # "open" => t.locks = {} /\ t.noted = <<>>
  /\ t.state = "failed" => t.row = NoRecord
  /\ t.state = "done" => t.todo = <<>>
  /\ t.state = "open" => OpFits(r, t, R, C, E)
  /\ Numbers(t) \subseteq 1 .. s - 1
  /\ t.call.op = "evidence" /\ t.row # NoRecord /\ t.todo = <<>> =>
       Pg!EndsAt({e \in t.seen : e.took}, t.row)

\* Of two transactions: what both hold, both only read, they have no number in common, and an
\* import is not under way with one of a record that it knows as removed.
Exclude(L, K) == \A h \in L, g \in K : h.on = g.on => h.mode = "share" /\ g.mode = "share"
Together(t, u) == t.state = "open" /\ u.state = "open" => ~Pg!Clash(t.call, u.call) /\ ~Pg!Clash(u.call, t.call)
Apart(t, u) == Exclude(t.locks, u.locks) /\ Numbers(t) \cap Numbers(u) = {} /\ Together(t, u)

IsImport(T, o) == o \in Transactions /\ T[o].call.op = "import"
EventsFit(E, T, s) ==
  /\ IsFiniteSet(E) /\ Pg!Numbered(E)
  /\ \A e \in E : e.n \in 1 .. s - 1 /\ (e.op \in Transactions => T[e.op].state = "done")
  /\ \A r \in Transactions, e \in E : e.n \notin Numbers(T[r])
  /\ \A e, f \in E : IsImport(T, e.op) /\ IsImport(T, f.op) => e.op = f.op
  /\ \A r \in Transactions, e \in E : ImportLock \in T[r].locks => ~IsImport(T, e.op)

TablesFit(R, C, E) ==
  /\ DOMAIN R = Ids /\ \A i \in Ids : IsRow(R[i])
  /\ IsFiniteSet(Live(R)) /\ C = Counters(R, E)
  /\ \A i \in Ids : Pg!IsLife(Pg!Took(E, i), R[i])

PgInv ==
  /\ sequence \in Nat \ {0} /\ DOMAIN txn = Transactions
  /\ TablesFit(rows, counters, eventRows)
  /\ EventsFit(eventRows, txn, sequence)
  /\ \A r \in Transactions : TxnFits(r, txn[r], rows, counters, eventRows, sequence)
  /\ \A r, o \in Transactions : r # o => Apart(txn[r], txn[o])

-----------------------------------------------------------------------------
(* The lists of statements                                                 *)

\* The first statement of each list, the rest of it, and that there is one.
LEMMA FirstStatements ==
  /\ Head(<<"insert", "count", "event", "note">>) = "insert"
  /\ Head(<<"remove", "count", "event", "note">>) = "remove"
  /\ Head(<<"lock", "event", "note">>) = "lock"
  /\ Head(<<"count", "event", "note">>) = "count"
  /\ Head(<<"event", "note">>) = "event"
  /\ Head(<<"note">>) = "note"
  /\ Head(<<"share", "read">>) = "share"
  /\ Head(<<"read">>) = "read"
  /\ Head(<<"empty", "load", "history", "count">>) = "empty"
  /\ Head(<<"load", "history", "count">>) = "load"
  /\ Head(<<"history", "count">>) = "history"
  /\ Head(<<"count">>) = "count"
OBVIOUS

LEMMA NextStatements ==
  /\ Tail(<<"insert", "count", "event", "note">>) = <<"count", "event", "note">>
  /\ Tail(<<"remove", "count", "event", "note">>) = <<"count", "event", "note">>
  /\ Tail(<<"lock", "event", "note">>) = <<"event", "note">>
  /\ Tail(<<"count", "event", "note">>) = <<"event", "note">>
  /\ Tail(<<"event", "note">>) = <<"note">>
  /\ Tail(<<"note">>) = <<>>
  /\ Tail(<<"share", "read">>) = <<"read">>
  /\ Tail(<<"read">>) = <<>>
  /\ Tail(<<"empty", "load", "history", "count">>) = <<"load", "history", "count">>
  /\ Tail(<<"load", "history", "count">>) = <<"history", "count">>
  /\ Tail(<<"history", "count">>) = <<"count">>
  /\ Tail(<<"count">>) = <<>>
OBVIOUS

LEMMA SomeStatements ==
  /\ <<"insert", "count", "event", "note">> # <<>> /\ <<"remove", "count", "event", "note">> # <<>>
  /\ <<"lock", "event", "note">> # <<>> /\ <<"count", "event", "note">> # <<>>
  /\ <<"event", "note">> # <<>> /\ <<"note">> # <<>> /\ <<"share", "read">> # <<>> /\ <<"read">> # <<>>
  /\ <<"empty", "load", "history", "count">> # <<>> /\ <<"load", "history", "count">> # <<>>
  /\ <<"history", "count">> # <<>> /\ <<"count">> # <<>>
OBVIOUS

-----------------------------------------------------------------------------
(* What a transaction that is to run a statement has done before           *)

\* A transaction under way, between the tables R, C, E.
Under(r, t, R, C, E) == t.state = "open" /\ t.call \in Calls /\ OpFits(r, t, R, C, E)
Next1(t, statement) == t.todo # <<>> /\ Head(t.todo) = statement

\* What a transaction has done, and which locks it holds, before each statement.
LEMMA AtInsert ==
  ASSUME NEW r, NEW t, NEW R, NEW C, NEW E, Under(r, t, R, C, E), Next1(t, "insert")
  PROVE  /\ t.call.op = "create" /\ t.locks = {} /\ t.noted = <<>>
         /\ Tail(t.todo) = <<"count", "event", "note">>
BY FirstStatements, NextStatements
   DEF Under, Next1, OpFits, CreateFits, MutateFits, DeleteFits, AppendFits, EvidenceFits, ImportFits, NoteFits

LEMMA AtLock ==
  ASSUME NEW r, NEW t, NEW R, NEW C, NEW E, Under(r, t, R, C, E), Next1(t, "lock")
  PROVE  t.call.op = "mutate" /\ t.locks = {} /\ t.noted = <<>> /\ Tail(t.todo) = <<"event", "note">>
BY FirstStatements, NextStatements
   DEF Under, Next1, OpFits, CreateFits, MutateFits, DeleteFits, AppendFits, EvidenceFits, ImportFits, NoteFits

LEMMA AtRemove ==
  ASSUME NEW r, NEW t, NEW R, NEW C, NEW E, Under(r, t, R, C, E), Next1(t, "remove")
  PROVE  /\ t.call.op = "delete" /\ t.locks = {} /\ t.noted = <<>>
         /\ Tail(t.todo) = <<"count", "event", "note">>
BY FirstStatements, NextStatements
   DEF Under, Next1, OpFits, CreateFits, MutateFits, DeleteFits, AppendFits, EvidenceFits, ImportFits, NoteFits

LEMMA AtShare ==
  ASSUME NEW r, NEW t, NEW R, NEW C, NEW E, Under(r, t, R, C, E), Next1(t, "share")
  PROVE  t.call.op = "evidence" /\ t.locks = {} /\ t.noted = <<>> /\ Tail(t.todo) = <<"read">>
BY FirstStatements, NextStatements
   DEF Under, Next1, OpFits, CreateFits, MutateFits, DeleteFits, AppendFits, EvidenceFits, ImportFits, NoteFits

LEMMA AtRead ==
  ASSUME NEW r, NEW t, NEW R, NEW C, NEW E, Under(r, t, R, C, E), Next1(t, "read")
  PROVE  /\ t.call.op = "evidence" /\ t.locks = {Shares(t)} /\ t.noted = <<>> /\ Tail(t.todo) = <<>>
         /\ R[t.call.id] # NoRecord /\ t.row = R[t.call.id]
BY FirstStatements, NextStatements
   DEF Under, Next1, OpFits, CreateFits, MutateFits, DeleteFits, AppendFits, EvidenceFits, ImportFits, NoteFits

LEMMA AtEmpty ==
  ASSUME NEW r, NEW t, NEW R, NEW C, NEW E, Under(r, t, R, C, E), Next1(t, "empty")
  PROVE  /\ t.call.op = "import" /\ t.locks = {} /\ t.noted = <<>>
         /\ Tail(t.todo) = <<"load", "history", "count">>
BY FirstStatements, NextStatements
   DEF Under, Next1, OpFits, CreateFits, MutateFits, DeleteFits, AppendFits, EvidenceFits, ImportFits, NoteFits

LEMMA AtLoad ==
  ASSUME NEW r, NEW t, NEW R, NEW C, NEW E, Under(r, t, R, C, E), Next1(t, "load")
  PROVE  /\ t.call.op = "import" /\ t.locks = {ImportLock} /\ t.noted = <<>> /\ IsFirst(t.call, E)
         /\ Tail(t.todo) = <<"history", "count">>
BY FirstStatements, NextStatements
   DEF Under, Next1, OpFits, CreateFits, MutateFits, DeleteFits, AppendFits, EvidenceFits, ImportFits, NoteFits

LEMMA AtHistory ==
  ASSUME NEW r, NEW t, NEW R, NEW C, NEW E, Under(r, t, R, C, E), Next1(t, "history")
  PROVE  /\ t.call.op = "import" /\ t.locks = {ImportLock} \cup Loads(t.call) /\ t.noted = <<>>
         /\ IsFirst(t.call, E) /\ \A i \in DOMAIN t.call.rows : R[i] = NoRecord
         /\ Tail(t.todo) = <<"count">>
BY FirstStatements, NextStatements
   DEF Under, Next1, OpFits, CreateFits, MutateFits, DeleteFits, AppendFits, EvidenceFits, ImportFits, NoteFits

LEMMA AtEvent ==
  ASSUME NEW r, NEW t, NEW R, NEW C, NEW E, Under(r, t, R, C, E), Next1(t, "event")
  PROVE  /\ t.noted = <<>> /\ Tail(t.todo) = <<"note">>
         /\ \/ /\ t.call.op = "create" /\ t.locks = {Inserts(t), CountLock} /\ Counted(t, C, 1, 0)
               /\ R[t.call.id] = NoRecord /\ t.row = [rev |-> 0, by |-> r]
            \/ /\ t.call.op = "mutate" /\ t.locks = {Updates(t)}
               /\ R[t.call.id] # NoRecord /\ t.row = [rev |-> R[t.call.id].rev + 1, by |-> r]
            \/ /\ t.call.op = "delete" /\ t.locks = {Deletes(t), CountLock} /\ Counted(t, C, -1, 0)
               /\ R[t.call.id] # NoRecord /\ t.row = R[t.call.id]
            \/ t.call.op \in {"delete", "append"} /\ t.locks = {} /\ t.row = NoRecord
BY FirstStatements, NextStatements
   DEF Under, Next1, OpFits, CreateFits, MutateFits, DeleteFits, AppendFits, EvidenceFits, ImportFits, NoteFits

LEMMA AtCount ==
  ASSUME NEW r, NEW t, NEW R, NEW C, NEW E, Under(r, t, R, C, E), Next1(t, "count")
  PROVE  \/ /\ t.noted = <<>> /\ Tail(t.todo) = <<"event", "note">>
            /\ \/ /\ t.call.op = "create" /\ t.locks = {Inserts(t)}
                  /\ R[t.call.id] = NoRecord /\ t.row = [rev |-> 0, by |-> r]
               \/ /\ t.call.op = "delete" /\ t.locks = {Deletes(t)}
                  /\ R[t.call.id] # NoRecord /\ t.row = R[t.call.id]
         \/ /\ t.call.op = "import" /\ t.locks = {ImportLock} \cup Loads(t.call) /\ Tail(t.todo) = <<>>
            /\ Historic(t, E) /\ IsFirst(t.call, E) /\ \A i \in DOMAIN t.call.rows : R[i] = NoRecord
BY FirstStatements, NextStatements
   DEF Under, Next1, OpFits, CreateFits, MutateFits, DeleteFits, AppendFits, EvidenceFits, ImportFits, NoteFits

LEMMA AtNote ==
  ASSUME NEW r, NEW t, NEW R, NEW C, NEW E, Under(r, t, R, C, E), Next1(t, "note")
  PROVE  /\ Noted(t) /\ Tail(t.todo) = <<>>
         /\ \/ /\ t.call.op = "create" /\ t.locks = {Inserts(t), CountLock} /\ Counted(t, C, 1, 0)
               /\ IsLater(t, E) /\ R[t.call.id] = NoRecord /\ t.row = [rev |-> 0, by |-> r]
            \/ /\ t.call.op = "mutate" /\ t.locks = {Updates(t)} /\ IsLater(t, E)
               /\ R[t.call.id] # NoRecord /\ t.row = [rev |-> R[t.call.id].rev + 1, by |-> r]
            \/ /\ t.call.op = "delete" /\ t.locks = {Deletes(t), CountLock} /\ Counted(t, C, -1, 0)
               /\ IsLater(t, E) /\ R[t.call.id] # NoRecord /\ t.row = R[t.call.id]
            \/ t.call.op \in {"delete", "append"} /\ t.locks = {} /\ t.row = NoRecord
BY FirstStatements, NextStatements
   DEF Under, Next1, OpFits, CreateFits, MutateFits, DeleteFits, AppendFits, EvidenceFits, ImportFits, NoteFits

\* A transaction that is to commit.
LEMMA AtEnd ==
  ASSUME NEW r, NEW t, NEW R, NEW C, NEW E, Under(r, t, R, C, E), t.todo = <<>>
  PROVE  \/ /\ t.call.op = "create" /\ t.locks = {Inserts(t), CountLock} /\ Noted(t) /\ IsLater(t, E)
            /\ Counted(t, C, 1, 1) /\ R[t.call.id] = NoRecord /\ t.row = [rev |-> 0, by |-> r]
         \/ /\ t.call.op = "mutate" /\ t.locks = {Updates(t), CountLock} /\ Noted(t) /\ IsLater(t, E)
            /\ Counted(t, C, 0, 1)
            /\ R[t.call.id] # NoRecord /\ t.row = [rev |-> R[t.call.id].rev + 1, by |-> r]
         \/ /\ t.call.op = "delete" /\ t.locks = {Deletes(t), CountLock} /\ Noted(t) /\ IsLater(t, E)
            /\ Counted(t, C, -1, 1) /\ R[t.call.id] # NoRecord /\ t.row = R[t.call.id]
         \/ /\ t.call.op \in {"delete", "append"} /\ t.locks = {CountLock} /\ Noted(t)
            /\ Counted(t, C, 0, 1) /\ t.row = NoRecord
         \/ t.call.op = "evidence" /\ t.noted = <<>> /\ CountLock \notin t.locks
         \/ /\ t.call.op = "import" /\ t.locks = {ImportLock, CountLock} \cup Loads(t.call)
            /\ Counted(t, C, Cardinality(DOMAIN t.call.rows), Len(t.call.events))
            /\ Historic(t, E) /\ IsFirst(t.call, E) /\ \A i \in DOMAIN t.call.rows : R[i] = NoRecord
<1>1. ImportLock # CountLock /\ \A m : Pg!Lock(t.call.id, m) # CountLock \/ m = "update"
  BY DEF ImportLock, CountLock, Pg!Lock
<1>2. Shares(t) # CountLock
  BY <1>1 DEF Shares, Pg!Lock, CountLock
<1> QED
  BY <1>2, SomeStatements
     DEF Under, OpFits, CreateFits, MutateFits, DeleteFits, AppendFits, EvidenceFits, ImportFits, NoteFits

-----------------------------------------------------------------------------
(* Locks                                                                    *)

\* A lock that is held, or may be: of the counters, of imports, of a row that is not there, or
\* of one that is.
RightLock(h, R) ==
  \/ h = CountLock \/ h = ImportLock
  \/ h.on \in Ids /\ h = Pg!Lock(h.on, "insert") /\ R[h.on] = NoRecord
  \/ h.on \in Ids /\ h = Pg!Lock(h.on, h.mode) /\ h.mode \in {"update", "delete", "share"} /\ R[h.on] # NoRecord

\* A call is of its operation; the calls are assumed to be.
LEMMA CallsKnown ==
  ASSUME NEW c \in Calls
  PROVE  Pg!IsCall(c)
BY PgBounds DEF Pg!PgRecordsAssumption

\* A lock is of a mode that its row, as it is stored, can be locked in.
LEMMA LocksAreRight ==
  ASSUME NEW r, NEW t, NEW R, NEW C, NEW E, Under(r, t, R, C, E), NEW h \in t.locks
  PROVE  RightLock(h, R)
<1>1. Pg!IsCall(t.call)
  BY CallsKnown DEF Under
<1>2. \A i, m : Pg!Lock(i, m).on = i /\ Pg!Lock(i, m).mode = m
  BY DEF Pg!Lock
<1>3. CASE t.call.op = "create"
  BY <1>1, <1>2, <1>3 DEF Under, OpFits, CreateFits, Pg!IsCall, RightLock, Inserts
<1>4. CASE t.call.op = "mutate"
  BY <1>1, <1>2, <1>4 DEF Under, OpFits, MutateFits, Pg!IsCall, RightLock, Updates
<1>5. CASE t.call.op = "delete"
  BY <1>1, <1>2, <1>5 DEF Under, OpFits, DeleteFits, NoteFits, Pg!IsCall, RightLock, Deletes
<1>6. CASE t.call.op = "append"
  BY <1>1, <1>2, <1>6 DEF Under, OpFits, AppendFits, NoteFits, Pg!IsCall, RightLock
<1>7. CASE t.call.op = "evidence"
  BY <1>1, <1>2, <1>7 DEF Under, OpFits, EvidenceFits, Pg!IsCall, RightLock, Shares
<1>8. CASE t.call.op = "import"
  <2>1. ASSUME h \in Loads(t.call), \A i \in DOMAIN t.call.rows : R[i] = NoRecord
        PROVE  RightLock(h, R)
    BY <1>1, <1>2, <1>8, <2>1 DEF Loads, Pg!IsCall, Pg!IsSnapshot, RightLock
  <2> QED
    BY <1>8, <2>1 DEF Under, OpFits, ImportFits, RightLock
<1> QED BY <1>1, <1>3, <1>4, <1>5, <1>6, <1>7, <1>8 DEF Pg!IsCall

\* What is wanted and waits for nobody is shared with nobody, but for reading.
LEMMA WantedIsApart ==
  ASSUME NEW R, NEW w, RightLock(w, R), NEW h, RightLock(h, R), ~Pg!Conflicts(w, h), w.on = h.on
  PROVE  w.mode = "share" /\ h.mode = "share"
<1>0. "counters" \notin Ids /\ "imports" \notin Ids /\ "counters" # "imports"
  BY PgBounds DEF Pg!PgRecordsAssumption
<1> DEFINE M == [share  |-> {"update", "delete"}, update |-> {"share", "update", "delete"},
                 delete |-> {"share", "update", "delete"}, insert |-> {"insert", "delete"}]
<1>1. h.mode \notin M[w.mode]
  BY DEF Pg!Conflicts
<1>2. /\ M["share"] = {"update", "delete"} /\ M["update"] = {"share", "update", "delete"}
      /\ M["delete"] = {"share", "update", "delete"} /\ M["insert"] = {"insert", "delete"}
  OBVIOUS
<1> HIDE DEF M
<1>3. \A i, m : Pg!Lock(i, m).on = i /\ Pg!Lock(i, m).mode = m
  BY DEF Pg!Lock
<1>4. CASE w = CountLock \/ w = ImportLock
  BY <1>0, <1>1, <1>2, <1>3, <1>4 DEF RightLock, CountLock, ImportLock
<1>5. CASE w.on \in Ids /\ w = Pg!Lock(w.on, "insert") /\ R[w.on] = NoRecord
  <2>1. w.mode = "insert"
    BY <1>3, <1>5
  <2>2. h.mode = "insert"
    BY <1>0, <1>3, <1>5 DEF RightLock, CountLock, ImportLock
  <2> QED BY <1>1, <1>2, <2>1, <2>2
<1>6. CASE w.on \in Ids /\ w.mode \in {"update", "delete", "share"} /\ R[w.on] # NoRecord
  <2>1. h.mode \in {"update", "delete", "share"}
    BY <1>0, <1>3, <1>6 DEF RightLock, CountLock, ImportLock
  <2> QED BY <1>1, <1>2, <1>6, <2>1
<1> QED BY <1>4, <1>5, <1>6 DEF RightLock

\* The locks that a statement takes exclude those of every other transaction.
LEMMA NeedsStayApart ==
  ASSUME PgInv, NEW r \in Transactions, Pg!WaitsFor(r) = {}, \A w \in Pg!Needs(r) : RightLock(w, rows),
         NEW o \in Transactions, o # r
  PROVE  Exclude(txn[r].locks \cup Pg!Needs(r), txn[o].locks) /\ Exclude(txn[o].locks, txn[r].locks \cup Pg!Needs(r))
<1>1. CASE txn[o].state # "open"
  BY <1>1 DEF PgInv, TxnFits, Exclude
<1>2. CASE txn[o].state = "open"
  <2>1. Under(o, txn[o], rows, counters, eventRows)
    BY <1>2 DEF PgInv, TxnFits, Under
  <2>2. \A h \in txn[o].locks : RightLock(h, rows)
    BY <2>1, LocksAreRight
  <2>3. \A w \in Pg!Needs(r), h \in txn[o].locks : ~Pg!Conflicts(w, h)
    BY <1>2 DEF Pg!WaitsFor, Pg!Open
  <2>4. \A w \in Pg!Needs(r), h \in txn[o].locks : w.on = h.on => w.mode = "share" /\ h.mode = "share"
    BY <2>2, <2>3, WantedIsApart
  <2>5. Apart(txn[r], txn[o])
    BY DEF PgInv
  <2> QED BY <2>4, <2>5 DEF Apart, Exclude
<1> QED BY <1>1, <1>2

-----------------------------------------------------------------------------
(* A statement that leaves the tables alone                                *)

\* u is t with these parts.
Becomes(u, t, state, todo, locks, row, noted, counted, seen) ==
  /\ IsTxn(u) /\ u.call = t.call /\ u.state = state /\ u.todo = todo /\ u.locks = locks
  /\ u.row = row /\ u.noted = noted /\ u.counted = counted /\ u.seen = seen

\* The transaction after its statement, and after a failure.
LEMMA AfterIs ==
  ASSUME PgInv, NEW r \in Transactions, NEW a, a = Pg!After(r)
  PROVE  Becomes(a, txn[r], txn[r].state, Tail(txn[r].todo), txn[r].locks \cup Pg!Needs(r),
                 txn[r].row, txn[r].noted, txn[r].counted, txn[r].seen)
<1>1. PICK t : t = txn[r]
  OBVIOUS
<1>2. IsTxn(t)
  BY <1>1 DEF PgInv, TxnFits
<1>3. a = [t EXCEPT !.todo = Tail(t.todo), !.locks = t.locks \cup Pg!Needs(r)]
  BY <1>1 DEF Pg!After
<1> HIDE DEF Pg!Needs
<1>4. Becomes(a, t, t.state, Tail(t.todo), t.locks \cup Pg!Needs(r), t.row, t.noted, t.counted, t.seen)
  BY <1>2, <1>3 DEF IsTxn, Becomes
<1> QED BY <1>1, <1>4

LEMMA FailedIs ==
  ASSUME NEW t, NEW u, u = [Pg!Idle EXCEPT !.call = t.call, !.state = "failed"]
  PROVE  Becomes(u, t, "failed", <<>>, {}, NoRecord, <<>>, <<>>, {})
<1>1. PICK i : i = Pg!Idle
  OBVIOUS
<1>2. u = [i EXCEPT !.call = t.call, !.state = "failed"]
  BY <1>1
<1> QED BY <1>1, <1>2 DEF Becomes, IsTxn, Pg!Idle

\* What a step takes on: its locks, and numbers of the sequence.
TakesOn(r, u) ==
  /\ Numbers(u) \subseteq Numbers(txn[r]) \cup sequence .. (sequence' - 1)
  /\ \A o \in Transactions \ {r} : Exclude(u.locks, txn[o].locks) /\ Exclude(txn[o].locks, u.locks)
  /\ ImportLock \in u.locks => \A e \in eventRows : ~IsImport(txn, e.op)
  /\ u.state = "open" /\ txn[r].state # "open" => \A o \in Transactions \ {r} : Together(u, txn[o])

\* Numbers that were given stay given when the sequence goes on.
LEMMA NumbersStay ==
  ASSUME NEW r, NEW t, NEW R, NEW C, NEW E, NEW s \in Nat, NEW s2 \in Nat, s <= s2,
         TxnFits(r, t, R, C, E, s)
  PROVE  TxnFits(r, t, R, C, E, s2)
<1>1. 1 .. s - 1 \subseteq 1 .. s2 - 1
  OBVIOUS
<1> QED BY <1>1 DEF TxnFits

Quiet(r, u) ==
  txn' = [txn EXCEPT ![r] = u] /\ rows' = rows /\ counters' = counters /\ eventRows' = eventRows

\* A step that leaves the tables alone keeps the invariant, if the transaction it
\* moves still fits them and shares no lock with another.
LEMMA TablesStand ==
  ASSUME PgInv, NEW r \in Transactions, NEW u,
         Quiet(r, u), sequence' \in Nat, sequence <= sequence',
         txn[r].state = "done" => u.state = "done", txn[r].state # "idle" => u.call = txn[r].call,
         TxnFits(r, u, rows, counters, eventRows, sequence'),
         TakesOn(r, u)
  PROVE  PgInv'
<1>1. /\ DOMAIN txn = Transactions /\ sequence \in Nat \ {0} /\ sequence' \in Nat \ {0}
      /\ TablesFit(rows, counters, eventRows) /\ EventsFit(eventRows, txn, sequence)
      /\ \A o \in Transactions : TxnFits(o, txn[o], rows, counters, eventRows, sequence)
      /\ \A o, q \in Transactions : o # q => Apart(txn[o], txn[q])
  BY DEF PgInv
<1>2. DOMAIN txn' = Transactions /\ txn'[r] = u /\ \A o \in Transactions \ {r} : txn'[o] = txn[o]
  BY <1>1 DEF Quiet
<1>3. ASSUME NEW o \in Transactions PROVE TxnFits(o, txn'[o], rows, counters, eventRows, sequence')
  BY <1>1, <1>2, NumbersStay
<1>4. ASSUME NEW o \in Transactions \ {r} PROVE Apart(u, txn[o]) /\ Apart(txn[o], u)
  <2>1. Apart(txn[r], txn[o])
    BY <1>1
  <2>2. Numbers(txn[o]) \subseteq 1 .. sequence - 1
    BY <1>1 DEF TxnFits
  <2>3. \A n \in sequence .. (sequence' - 1) : n \notin 1 .. sequence - 1
    BY <1>1
  <2>4. Numbers(u) \cap Numbers(txn[o]) = {}
    BY <2>1, <2>2, <2>3 DEF TakesOn, Apart
  <2>5. Together(u, txn[o]) /\ Together(txn[o], u)
    <3>1. CASE u.state # "open"
      BY <3>1 DEF Together
    <3>2. CASE txn[r].state = "open"
      BY <2>1, <3>2 DEF Apart, Together
    <3>3. CASE u.state = "open" /\ txn[r].state # "open"
      BY <3>3 DEF TakesOn, Together
    <3> QED BY <3>1, <3>2, <3>3
  <2> QED BY <2>4, <2>5 DEF TakesOn, Apart
<1>5. EventsFit(eventRows, txn', sequence')
  <2>1. /\ IsFiniteSet(eventRows) /\ Pg!Numbered(eventRows)
        /\ \A e \in eventRows : e.n \in 1 .. sequence - 1 /\ (e.op \in Transactions => txn[e.op].state = "done")
        /\ \A q \in Transactions, e \in eventRows : e.n \notin Numbers(txn[q])
        /\ \A e, f \in eventRows : IsImport(txn, e.op) /\ IsImport(txn, f.op) => e.op = f.op
        /\ \A q \in Transactions, e \in eventRows : ImportLock \in txn[q].locks => ~IsImport(txn, e.op)
    BY <1>1 DEF EventsFit
  <2>2. ASSUME NEW e \in eventRows
        PROVE  /\ e.n \in 1 .. sequence' - 1 /\ (e.op \in Transactions => txn'[e.op].state = "done")
               /\ (IsImport(txn', e.op) <=> IsImport(txn, e.op))
    <3>1. e.n \in 1 .. sequence' - 1
      BY <1>1, <2>1
    <3>2. CASE e.op = r
      BY <1>2, <2>1, <3>1, <3>2 DEF IsImport
    <3>3. CASE e.op # r
      BY <1>2, <2>1, <3>1, <3>3 DEF IsImport
    <3> QED BY <3>2, <3>3
  <2>3. ASSUME NEW q \in Transactions, NEW e \in eventRows
        PROVE  e.n \notin Numbers(txn'[q]) /\ (ImportLock \in txn'[q].locks => ~IsImport(txn, e.op))
    <3>1. CASE q = r
      <4>1. \A n \in sequence .. (sequence' - 1) : n \notin 1 .. sequence - 1
        BY <1>1
      <4> QED BY <1>2, <2>1, <3>1, <4>1 DEF TakesOn
    <3>2. CASE q # r
      BY <1>2, <2>1, <3>2
    <3> QED BY <3>1, <3>2
  <2> QED BY <2>1, <2>2, <2>3 DEF EventsFit
<1>6. \A o, q \in Transactions : o # q => Apart(txn'[o], txn'[q])
  BY <1>1, <1>2, <1>4
<1> QED BY <1>1, <1>2, <1>3, <1>5, <1>6 DEF PgInv, Quiet

\* A statement that throws ends its transaction: nothing of it was in the tables.
LEMMA FailsFits ==
  ASSUME PgInv, NEW r \in Transactions, txn[r].state = "open", Pg!Fails(r), sequence' = sequence
  PROVE  PgInv'
<1> DEFINE f == [Pg!Idle EXCEPT !.call = txn[r].call, !.state = "failed"]
<1>1. PICK u : u = f
  OBVIOUS
<1>2. Becomes(u, txn[r], "failed", <<>>, {}, NoRecord, <<>>, <<>>, {})
  BY <1>1, FailedIs
<1>3. Quiet(r, u)
  BY <1>1 DEF Pg!Fails, Pg!Run, Quiet
<1> HIDE DEF f
<1>4. Numbers(u) = {}
  BY <1>2 DEF Becomes, Numbers
<1>5. txn[r].call \in Calls /\ sequence \in Nat
  BY DEF PgInv, TxnFits
<1>6. TxnFits(r, u, rows, counters, eventRows, sequence')
  BY <1>2, <1>4, <1>5 DEF TxnFits, Becomes
<1>7. TakesOn(r, u)
  BY <1>2, <1>4 DEF TakesOn, Becomes, Exclude
<1>8. sequence' \in Nat /\ sequence <= sequence' /\ u.call = txn[r].call
  BY <1>2, <1>5 DEF Becomes
<1> QED BY <1>3, <1>6, <1>7, <1>8, TablesStand

\* What a read of the evidence found: nothing, or events that end at the row.
Ended(u) ==
  u.call.op = "evidence" /\ u.row # NoRecord /\ u.todo = <<>> => Pg!EndsAt({e \in u.seen : e.took}, u.row)

\* A statement has run: the transaction is one step further, with the locks that it needed.
LEMMA MovesOn ==
  ASSUME PgInv, NEW r \in Transactions, NEW u,
         txn[r].state = "open", Pg!WaitsFor(r) = {}, \A w \in Pg!Needs(r) : RightLock(w, rows),
         Pg!Run(r, u), sequence' \in Nat, sequence <= sequence',
         IsTxn(u), u.call = txn[r].call, u.state = "open", u.locks \subseteq txn[r].locks \cup Pg!Needs(r),
         OpFits(r, u, rows, counters, eventRows), Ended(u),
         Numbers(u) \subseteq Numbers(txn[r]) \cup sequence .. (sequence' - 1),
         ImportLock \in u.locks => \A e \in eventRows : ~IsImport(txn, e.op)
  PROVE  PgInv'
<1>1. /\ sequence \in Nat \ {0} /\ TxnFits(r, txn[r], rows, counters, eventRows, sequence)
      /\ txn[r].call \in Calls
  BY DEF PgInv, TxnFits
<1>2. Numbers(u) \subseteq 1 .. sequence' - 1
  <2>1. Numbers(txn[r]) \subseteq 1 .. sequence - 1
    BY <1>1 DEF TxnFits
  <2>2. \A n : n \in 1 .. sequence - 1 \/ n \in sequence .. (sequence' - 1) => n \in 1 .. sequence' - 1
    BY <1>1
  <2> QED BY <2>1, <2>2
<1>3. TxnFits(r, u, rows, counters, eventRows, sequence')
  BY <1>1, <1>2 DEF TxnFits, Ended
<1>4. TakesOn(r, u)
  <2>1. ASSUME NEW o \in Transactions \ {r}
        PROVE  Exclude(u.locks, txn[o].locks) /\ Exclude(txn[o].locks, u.locks)
    BY NeedsStayApart DEF Exclude
  <2> QED BY <2>1 DEF TakesOn
<1>5. Quiet(r, u)
  BY DEF Pg!Run, Quiet
<1> QED BY <1>3, <1>4, <1>5, TablesStand

\* What a running statement finds.
LEMMA UnderWay ==
  ASSUME PgInv, NEW r \in Transactions, NEW statement, Pg!Running(r, statement)
  PROVE  /\ Under(r, txn[r], rows, counters, eventRows) /\ Next1(txn[r], statement)
         /\ txn[r].state = "open" /\ Pg!WaitsFor(r) = {} /\ txn[r].todo # <<>>
         /\ Head(txn[r].todo) = statement /\ Pg!IsCall(txn[r].call)
         /\ sequence \in Nat /\ sequence <= sequence
         /\ (ImportLock \in txn[r].locks => \A e \in eventRows : ~IsImport(txn, e.op))
<1>1. /\ txn[r].state = "open" /\ Pg!WaitsFor(r) = {} /\ txn[r].todo # <<>>
      /\ Head(txn[r].todo) = statement
  BY DEF Pg!Running
<1>2. TxnFits(r, txn[r], rows, counters, eventRows, sequence) /\ EventsFit(eventRows, txn, sequence)
      /\ sequence \in Nat
  BY DEF PgInv
<1>3. txn[r].call \in Calls /\ OpFits(r, txn[r], rows, counters, eventRows)
  BY <1>1, <1>2 DEF TxnFits
<1>4. ImportLock \in txn[r].locks => \A e \in eventRows : ~IsImport(txn, e.op)
  BY <1>2 DEF EventsFit
<1>5. Pg!IsCall(txn[r].call)
  BY <1>3, CallsKnown
<1> QED BY <1>1, <1>2, <1>3, <1>4, <1>5 DEF Under, Next1

\* No number is taken but by an event.
LEMMA NoNumbers ==
  ASSUME NEW u, u.noted = <<>>
  PROVE  Numbers(u) = {}
BY DEF Numbers

\* The handlers of the statements, one after the other.
LEMMA BeginFits ==
  ASSUME PgInv, NEW r \in Transactions, Pg!Begin(r)
  PROVE  PgInv'
<1>1. PICK c \in Calls : /\ \A o \in Pg!Open : ~Pg!Clash(c, txn[o].call) /\ ~Pg!Clash(txn[o].call, c)
                        /\ Pg!Run(r, [Pg!Idle EXCEPT !.call = c, !.state = "open", !.todo = Pg!Statements(c.op)])
  BY DEF Pg!Begin
<1>2. PICK u : u = [Pg!Idle EXCEPT !.call = c, !.state = "open", !.todo = Pg!Statements(c.op)]
  OBVIOUS
<1>3. PICK i : i = Pg!Idle
  OBVIOUS
<1>4. u = [i EXCEPT !.call = c, !.state = "open", !.todo = Pg!Statements(c.op)]
  BY <1>2, <1>3
<1> HIDE DEF Pg!Statements
<1>5. /\ IsTxn(u) /\ u.call = c /\ u.state = "open" /\ u.todo = Pg!Statements(c.op) /\ u.locks = {}
      /\ u.row = NoRecord /\ u.noted = <<>> /\ u.seen = {}
  BY <1>3, <1>4 DEF Pg!Idle, IsTxn
<1>6. Pg!IsCall(c)
  BY CallsKnown
<1>7. OpFits(r, u, rows, counters, eventRows) /\ (c.op = "evidence" => u.todo # <<>>)
  <2>1. CASE c.op = "create"
    BY <1>5, <2>1 DEF Pg!Statements, OpFits, CreateFits
  <2>2. CASE c.op = "mutate"
    BY <1>5, <2>2 DEF Pg!Statements, OpFits, MutateFits
  <2>3. CASE c.op = "delete"
    BY <1>5, <2>3 DEF Pg!Statements, OpFits, DeleteFits
  <2>4. CASE c.op = "append"
    BY <1>5, <2>4 DEF Pg!Statements, OpFits, AppendFits, NoteFits
  <2>5. CASE c.op = "evidence"
    BY <1>5, <2>5, SomeStatements DEF Pg!Statements, OpFits, EvidenceFits
  <2>6. CASE c.op = "import"
    BY <1>5, <2>6 DEF Pg!Statements, OpFits, ImportFits
  <2> QED BY <1>6, <2>1, <2>2, <2>3, <2>4, <2>5, <2>6 DEF Pg!IsCall
<1>8. Quiet(r, u)
  BY <1>1, <1>2 DEF Pg!Run, Quiet
<1>9. sequence \in Nat /\ sequence' = sequence /\ Numbers(u) = {} /\ txn[r].state = "idle"
  BY <1>5, NoNumbers DEF PgInv, Pg!Begin, Pg!Idle
<1>10. TxnFits(r, u, rows, counters, eventRows, sequence')
  BY <1>5, <1>7, <1>9 DEF TxnFits
<1>11. TakesOn(r, u)
  <2>1. ASSUME NEW o \in Transactions PROVE Together(u, txn[o])
    BY <1>1, <1>5 DEF Together, Pg!Open
  <2> QED BY <1>5, <1>9, <2>1 DEF TakesOn, Exclude
<1>12. sequence' \in Nat /\ sequence <= sequence' /\ (txn[r].state = "done" => u.state = "done")
  BY <1>9
<1> QED BY <1>8, <1>9, <1>10, <1>11, <1>12, TablesStand

LEMMA InsertFits ==
  ASSUME PgInv, NEW r \in Transactions, Pg!InsertRow(r)
  PROVE  PgInv'
<1>1. Pg!Running(r, "insert") /\ sequence' = sequence
  BY DEF Pg!InsertRow
<1>2. CASE Pg!Fails(r)
  BY <1>1, <1>2, UnderWay, FailsFits
<1>3. CASE rows[txn[r].call.id] = NoRecord /\ Pg!Run(r, [Pg!After(r) EXCEPT !.row = [rev |-> 0, by |-> r]])
  <2>1. /\ txn[r].call.op = "create" /\ txn[r].locks = {} /\ txn[r].noted = <<>>
        /\ Tail(txn[r].todo) = <<"count", "event", "note">>
    BY <1>1, UnderWay, AtInsert
  <2>2. Pg!Needs(r) = {Pg!Lock(txn[r].call.id, "insert")}
    BY <1>1, UnderWay DEF Pg!Needs
  <2>3. PICK a : a = Pg!After(r)
    OBVIOUS
  <2>4. /\ Becomes(a, txn[r], txn[r].state, Tail(txn[r].todo), txn[r].locks \cup Pg!Needs(r),
                   txn[r].row, txn[r].noted, txn[r].counted, txn[r].seen)
        /\ txn[r].state = "open"
    BY <1>1, <2>3, UnderWay, AfterIs
  <2>5. PICK u : u = [a EXCEPT !.row = [rev |-> 0, by |-> r]]
    OBVIOUS
  <2>6. Becomes(u, txn[r], "open", <<"count", "event", "note">>, {Inserts(txn[r])},
                [rev |-> 0, by |-> r], <<>>, txn[r].counted, txn[r].seen)
    BY <2>1, <2>2, <2>4, <2>5 DEF Becomes, IsTxn, Inserts
  <2>7. Pg!Run(r, u)
    BY <1>3, <2>3, <2>5
  <2>8. OpFits(r, u, rows, counters, eventRows) /\ Ended(u)
    BY <1>3, <2>1, <2>6 DEF Becomes, OpFits, CreateFits, Inserts, Ended
  <2>9. \A w \in Pg!Needs(r) : RightLock(w, rows)
    BY <1>1, <1>3, <2>1, <2>2, UnderWay DEF RightLock, Pg!Lock, Pg!IsCall
  <2>10. Numbers(u) = {} /\ ImportLock \notin u.locks
    BY <2>6, NoNumbers DEF Becomes, Inserts, ImportLock, Pg!Lock
  <2>11. u.locks \subseteq txn[r].locks \cup Pg!Needs(r) /\ IsTxn(u) /\ u.call = txn[r].call /\ u.state = "open"
    BY <2>2, <2>6 DEF Becomes, Inserts
  <2> QED BY <1>1, <2>7, <2>8, <2>9, <2>10, <2>11, UnderWay, MovesOn
<1> QED BY <1>2, <1>3 DEF Pg!InsertRow

LEMMA LockFits ==
  ASSUME PgInv, NEW r \in Transactions, Pg!LockRow(r)
  PROVE  PgInv'
<1> DEFINE row == [rev |-> rows[txn[r].call.id].rev + 1, by |-> r]
<1>1. Pg!Running(r, "lock") /\ sequence' = sequence
  BY DEF Pg!LockRow
<1>2. CASE Pg!Fails(r)
  BY <1>1, <1>2, UnderWay, FailsFits
<1>3. CASE rows[txn[r].call.id] # NoRecord /\ Pg!Run(r, [Pg!After(r) EXCEPT !.row = row])
  <2>1. /\ txn[r].call.op = "mutate" /\ txn[r].locks = {} /\ txn[r].noted = <<>>
        /\ Tail(txn[r].todo) = <<"event", "note">>
    BY <1>1, UnderWay, AtLock
  <2>2. Pg!Needs(r) = {Pg!Lock(txn[r].call.id, "update")}
    BY <1>1, <1>3, UnderWay DEF Pg!Needs
  <2>3. PICK a : a = Pg!After(r)
    OBVIOUS
  <2>4. /\ Becomes(a, txn[r], txn[r].state, Tail(txn[r].todo), txn[r].locks \cup Pg!Needs(r),
                   txn[r].row, txn[r].noted, txn[r].counted, txn[r].seen)
        /\ txn[r].state = "open"
    BY <1>1, <2>3, UnderWay, AfterIs
  <2>5. PICK u : u = [a EXCEPT !.row = row]
    OBVIOUS
  <2>7. Pg!Run(r, u)
    BY <1>3, <2>3, <2>5
  <2>6. Becomes(u, txn[r], "open", <<"event", "note">>, {Updates(txn[r])},
                row, <<>>, txn[r].counted, txn[r].seen)
    <3> HIDE DEF row
    <3> QED BY <2>1, <2>2, <2>4, <2>5 DEF Becomes, IsTxn, Updates
  <2>8. OpFits(r, u, rows, counters, eventRows) /\ Ended(u)
    BY <1>3, <2>1, <2>6 DEF Becomes, OpFits, MutateFits, Updates, Ended
  <2>9. \A w \in Pg!Needs(r) : RightLock(w, rows)
    BY <1>1, <1>3, <2>1, <2>2, UnderWay DEF RightLock, Pg!Lock, Pg!IsCall
  <2>10. Numbers(u) = {} /\ ImportLock \notin u.locks
    <3>1. txn[r].call.id # "imports"
      BY <1>1, <2>1, UnderWay, PgBounds DEF Pg!IsCall, Pg!PgRecordsAssumption
    <3> QED BY <2>6, <3>1, NoNumbers DEF Becomes, Updates, ImportLock, Pg!Lock
  <2>11. u.locks \subseteq txn[r].locks \cup Pg!Needs(r) /\ IsTxn(u) /\ u.call = txn[r].call /\ u.state = "open"
    BY <2>2, <2>6 DEF Becomes, Updates
  <2> QED BY <1>1, <2>7, <2>8, <2>9, <2>10, <2>11, UnderWay, MovesOn
<1> QED BY <1>2, <1>3 DEF Pg!LockRow

LEMMA RemoveFits ==
  ASSUME PgInv, NEW r \in Transactions, Pg!RemoveRow(r)
  PROVE  PgInv'
<1> DEFINE gone == rows[txn[r].call.id] = NoRecord
<1>1. Pg!Running(r, "remove") /\ sequence' = sequence
  BY DEF Pg!RemoveRow
<1>2. PICK a : a = Pg!After(r)
  OBVIOUS
<1>3. /\ Becomes(a, txn[r], txn[r].state, Tail(txn[r].todo), txn[r].locks \cup Pg!Needs(r),
                 txn[r].row, txn[r].noted, txn[r].counted, txn[r].seen)
      /\ txn[r].state = "open"
  BY <1>1, <1>2, UnderWay, AfterIs
<1>4. /\ txn[r].call.op = "delete" /\ txn[r].locks = {} /\ txn[r].noted = <<>>
      /\ Tail(txn[r].todo) = <<"count", "event", "note">>
  BY <1>1, UnderWay, AtRemove
<1>5. a.todo = <<"count", "event", "note">> /\ a.locks = Pg!Needs(r) /\ a.noted = <<>> /\ IsTxn(a)
  BY <1>3, <1>4 DEF Becomes
<1>6. PICK u : u = [a EXCEPT !.row = IF gone THEN NoRecord ELSE rows[txn[r].call.id],
                             !.todo = IF gone THEN Tail(a.todo) ELSE a.todo]
  OBVIOUS
<1>7. Pg!Run(r, u)
  BY <1>2, <1>6 DEF Pg!RemoveRow
<1>8. CASE gone
  <2>1. Pg!Needs(r) = {}
    BY <1>1, <1>8, UnderWay DEF Pg!Needs
  <2>2. u = [a EXCEPT !.row = NoRecord, !.todo = <<"event", "note">>]
    BY <1>5, <1>6, <1>8, NextStatements
  <2>3. Becomes(u, txn[r], "open", <<"event", "note">>, {}, NoRecord, <<>>, txn[r].counted, txn[r].seen)
    BY <1>3, <1>4, <2>1, <2>2 DEF Becomes, IsTxn
  <2>4. OpFits(r, u, rows, counters, eventRows) /\ Ended(u)
    BY <1>4, <2>3 DEF Becomes, OpFits, DeleteFits, NoteFits, Ended
  <2>5. Numbers(u) = {} /\ ImportLock \notin u.locks
    BY <2>3, NoNumbers DEF Becomes
  <2>6. u.locks \subseteq txn[r].locks \cup Pg!Needs(r) /\ IsTxn(u) /\ u.call = txn[r].call /\ u.state = "open"
    BY <2>3 DEF Becomes
  <2> QED BY <1>1, <1>7, <2>1, <2>4, <2>5, <2>6, UnderWay, MovesOn
<1>9. CASE ~gone
  <2>1. Pg!Needs(r) = {Pg!Lock(txn[r].call.id, "delete")}
    BY <1>1, <1>9, UnderWay DEF Pg!Needs
  <2>2. u = [a EXCEPT !.row = rows[txn[r].call.id], !.todo = <<"count", "event", "note">>]
    BY <1>5, <1>6, <1>9
  <2>3. Becomes(u, txn[r], "open", <<"count", "event", "note">>, {Deletes(txn[r])},
                rows[txn[r].call.id], <<>>, txn[r].counted, txn[r].seen)
    BY <1>3, <1>4, <2>1, <2>2 DEF Becomes, IsTxn, Deletes
  <2>4. OpFits(r, u, rows, counters, eventRows) /\ Ended(u)
    BY <1>4, <1>9, <2>3 DEF Becomes, OpFits, DeleteFits, Deletes, Ended
  <2>5. Numbers(u) = {} /\ ImportLock \notin u.locks
    BY <2>3, NoNumbers DEF Becomes, Deletes, ImportLock, Pg!Lock
  <2>6. u.locks \subseteq txn[r].locks \cup Pg!Needs(r) /\ IsTxn(u) /\ u.call = txn[r].call /\ u.state = "open"
    BY <2>1, <2>3 DEF Becomes, Deletes
  <2>7. \A w \in Pg!Needs(r) : RightLock(w, rows)
    BY <1>1, <1>4, <1>9, <2>1, UnderWay DEF RightLock, Pg!Lock, Pg!IsCall
  <2> QED BY <1>1, <1>7, <2>4, <2>5, <2>6, <2>7, UnderWay, MovesOn
<1> QED BY <1>8, <1>9

LEMMA EmptyFits ==
  ASSUME PgInv, NEW r \in Transactions, Pg!Empty(r)
  PROVE  PgInv'
<1>1. Pg!Running(r, "empty") /\ sequence' = sequence
  BY DEF Pg!Empty
<1>2. CASE Pg!Fails(r)
  BY <1>1, <1>2, UnderWay, FailsFits
<1>3. CASE eventRows = {} /\ Pg!Run(r, Pg!After(r))
  <2>1. /\ txn[r].call.op = "import" /\ txn[r].locks = {} /\ txn[r].noted = <<>>
        /\ Tail(txn[r].todo) = <<"load", "history", "count">>
    BY <1>1, UnderWay, AtEmpty
  <2>2. Pg!Needs(r) = {ImportLock}
    BY <1>1, UnderWay DEF Pg!Needs, ImportLock
  <2>3. PICK u : u = Pg!After(r)
    OBVIOUS
  <2>4. /\ Becomes(u, txn[r], txn[r].state, Tail(txn[r].todo), txn[r].locks \cup Pg!Needs(r),
                   txn[r].row, txn[r].noted, txn[r].counted, txn[r].seen)
        /\ txn[r].state = "open"
    BY <1>1, <2>3, UnderWay, AfterIs
  <2>5. OpFits(r, u, rows, counters, eventRows) /\ Ended(u)
    BY <1>3, <2>1, <2>2, <2>4 DEF Becomes, OpFits, ImportFits, IsFirst, Pg!Took, Ended
  <2>6. Numbers(u) = {} /\ \A w \in Pg!Needs(r) : RightLock(w, rows)
    BY <2>1, <2>2, <2>4, NoNumbers DEF Becomes, RightLock
  <2>7. u.locks \subseteq txn[r].locks \cup Pg!Needs(r) /\ IsTxn(u) /\ u.call = txn[r].call /\ u.state = "open"
    BY <2>4 DEF Becomes
  <2> QED BY <1>1, <1>3, <2>3, <2>5, <2>6, <2>7, UnderWay, MovesOn
<1> QED BY <1>2, <1>3 DEF Pg!Empty

LEMMA LoadFits ==
  ASSUME PgInv, NEW r \in Transactions, Pg!Load(r)
  PROVE  PgInv'
<1>1. Pg!Running(r, "load") /\ sequence' = sequence
  BY DEF Pg!Load
<1>2. CASE Pg!Fails(r)
  BY <1>1, <1>2, UnderWay, FailsFits
<1>3. CASE (\A i \in DOMAIN txn[r].call.rows : rows[i] = NoRecord) /\ Pg!Run(r, Pg!After(r))
  <2>1. /\ txn[r].call.op = "import" /\ txn[r].locks = {ImportLock} /\ txn[r].noted = <<>>
        /\ Tail(txn[r].todo) = <<"history", "count">> /\ IsFirst(txn[r].call, eventRows)
    BY <1>1, UnderWay, AtLoad
  <2>2. Pg!Needs(r) = Loads(txn[r].call)
    BY <1>1, UnderWay DEF Pg!Needs, Loads
  <2>3. PICK u : u = Pg!After(r)
    OBVIOUS
  <2>4. /\ Becomes(u, txn[r], txn[r].state, Tail(txn[r].todo), txn[r].locks \cup Pg!Needs(r),
                   txn[r].row, txn[r].noted, txn[r].counted, txn[r].seen)
        /\ txn[r].state = "open"
    BY <1>1, <2>3, UnderWay, AfterIs
  <2>5. OpFits(r, u, rows, counters, eventRows) /\ Ended(u)
    BY <1>3, <2>1, <2>2, <2>4 DEF Becomes, OpFits, ImportFits, Ended
  <2>6. Numbers(u) = {} /\ \A w \in Pg!Needs(r) : RightLock(w, rows)
    BY <1>1, <1>3, <2>1, <2>2, <2>4, UnderWay, NoNumbers DEF Becomes, RightLock, Loads, Pg!Lock, Pg!IsCall, Pg!IsSnapshot
  <2>7. u.locks \subseteq txn[r].locks \cup Pg!Needs(r) /\ IsTxn(u) /\ u.call = txn[r].call /\ u.state = "open"
    BY <2>4 DEF Becomes
  <2>8. \A e \in eventRows : ~IsImport(txn, e.op)
    BY <1>1, <2>1, UnderWay
  <2> QED BY <1>1, <1>3, <2>3, <2>5, <2>6, <2>7, <2>8, UnderWay, MovesOn
<1> QED BY <1>2, <1>3 DEF Pg!Load

\* The numbers that events have are below those to come.
LEMMA NumbersSoFar ==
  ASSUME PgInv
  PROVE  /\ sequence \in Nat \ {0}
         /\ \A e \in eventRows : e.n \in Nat /\ e.n < sequence
         /\ \A i : \A e \in Pg!Took(eventRows, i) : e.n < sequence
<1>1. sequence \in Nat \ {0} /\ \A e \in eventRows : e.n \in 1 .. sequence - 1
  BY DEF PgInv, EventsFit
<1> QED BY <1>1 DEF Pg!Took

LEMMA WriteFits ==
  ASSUME PgInv, NEW r \in Transactions, Pg!WriteEvent(r)
  PROVE  PgInv'
<1> DEFINE e == [n |-> sequence, id |-> txn[r].call.id, kind |-> txn[r].call.op]
           t == txn[r]
<1>1. Pg!Running(r, "event") /\ sequence' = sequence + 1 /\ Pg!Run(r, [Pg!After(r) EXCEPT !.noted = Append(@, e)])
  BY DEF Pg!WriteEvent
<1>2. PICK a : a = Pg!After(r)
  OBVIOUS
<1>3. /\ Becomes(a, txn[r], txn[r].state, Tail(txn[r].todo), txn[r].locks \cup Pg!Needs(r),
                 txn[r].row, txn[r].noted, txn[r].counted, txn[r].seen)
      /\ txn[r].state = "open"
  BY <1>1, <1>2, UnderWay, AfterIs
<1>4. /\ t.noted = <<>> /\ Tail(t.todo) = <<"note">>
      /\ \/ /\ t.call.op = "create" /\ t.locks = {Inserts(t), CountLock} /\ Counted(t, counters, 1, 0)
            /\ rows[t.call.id] = NoRecord /\ t.row = [rev |-> 0, by |-> r]
         \/ /\ t.call.op = "mutate" /\ t.locks = {Updates(t)}
            /\ rows[t.call.id] # NoRecord /\ t.row = [rev |-> rows[t.call.id].rev + 1, by |-> r]
         \/ /\ t.call.op = "delete" /\ t.locks = {Deletes(t), CountLock} /\ Counted(t, counters, -1, 0)
            /\ rows[t.call.id] # NoRecord /\ t.row = rows[t.call.id]
         \/ t.call.op \in {"delete", "append"} /\ t.locks = {} /\ t.row = NoRecord
  BY <1>1, UnderWay, AtEvent
<1>5. Pg!Needs(r) = {}
  BY <1>1, UnderWay DEF Pg!Needs
<1>6. PICK u : u = [a EXCEPT !.noted = Append(a.noted, e)]
  OBVIOUS
<1>7. Pg!Run(r, u)
  BY <1>1, <1>2, <1>6
<1>8. Append(a.noted, e) = <<e>>
  BY <1>3, <1>4 DEF Becomes
<1>9. Becomes(u, t, "open", <<"note">>, t.locks, t.row, <<e>>, t.counted, t.seen)
  <2> HIDE DEF e
  <2> QED BY <1>3, <1>4, <1>5, <1>6, <1>8 DEF Becomes, IsTxn
<1>10. Numbers(u) = {sequence} /\ u.noted[1].n = sequence
  BY <1>9 DEF Becomes, Numbers
<1>11. Noted(u) /\ IsLater(u, eventRows)
  BY <1>9, <1>10, NumbersSoFar DEF Becomes, Noted, IsLater
<1>12. OpFits(r, u, rows, counters, eventRows) /\ Ended(u) /\ ImportLock \notin u.locks
  <2>0. ImportLock # CountLock
    BY DEF ImportLock, CountLock, Pg!Lock
  <2>1. CASE /\ t.call.op = "create" /\ t.locks = {Inserts(t), CountLock} /\ Counted(t, counters, 1, 0)
             /\ rows[t.call.id] = NoRecord /\ t.row = [rev |-> 0, by |-> r]
    <3>1. Inserts(t) # ImportLock
      BY DEF Inserts, ImportLock, Pg!Lock
    <3> QED BY <1>9, <1>11, <2>0, <2>1, <3>1 DEF Becomes, OpFits, CreateFits, Inserts, Counted, Ended
  <2>2. CASE /\ t.call.op = "mutate" /\ t.locks = {Updates(t)}
             /\ rows[t.call.id] # NoRecord /\ t.row = [rev |-> rows[t.call.id].rev + 1, by |-> r]
    <3>1. Updates(t) # ImportLock
      BY <1>1, <2>2, UnderWay, PgBounds DEF Pg!IsCall, Pg!PgRecordsAssumption, Updates, ImportLock, Pg!Lock
    <3> QED BY <1>9, <1>11, <2>2, <3>1 DEF Becomes, OpFits, MutateFits, Updates, Ended
  <2>3. CASE /\ t.call.op = "delete" /\ t.locks = {Deletes(t), CountLock} /\ Counted(t, counters, -1, 0)
             /\ rows[t.call.id] # NoRecord /\ t.row = rows[t.call.id]
    <3>1. Deletes(t) # ImportLock
      BY DEF Deletes, ImportLock, Pg!Lock
    <3> QED BY <1>9, <1>11, <2>0, <2>3, <3>1 DEF Becomes, OpFits, DeleteFits, Deletes, Counted, Ended
  <2>4. CASE t.call.op \in {"delete", "append"} /\ t.locks = {} /\ t.row = NoRecord
    BY <1>9, <1>11, <2>4 DEF Becomes, OpFits, DeleteFits, AppendFits, NoteFits, Ended
  <2> QED BY <1>4, <2>1, <2>2, <2>3, <2>4
<1>13. sequence' \in Nat /\ sequence <= sequence' /\ sequence \in sequence .. (sequence' - 1)
  BY <1>1, NumbersSoFar
<1>14. u.locks \subseteq txn[r].locks \cup Pg!Needs(r) /\ IsTxn(u) /\ u.call = txn[r].call /\ u.state = "open"
  BY <1>9 DEF Becomes
<1>15. Numbers(u) \subseteq Numbers(txn[r]) \cup sequence .. (sequence' - 1)
  BY <1>10, <1>13
<1> QED BY <1>1, <1>5, <1>7, <1>12, <1>13, <1>14, <1>15, UnderWay, MovesOn

\* A snapshot with a record brings history.
LEMMA HistoryOfRows ==
  ASSUME NEW c, Pg!IsSnapshot(c), Len(c.events) = 0
  PROVE  DOMAIN c.rows = {}
<1>1. SUFFICES ASSUME NEW i \in DOMAIN c.rows PROVE FALSE
  OBVIOUS
<1>2. Pg!IsLife(Pg!LifeBrought(c, i), [rev |-> c.rows[i], by |-> 0]) /\ DOMAIN c.events = {} /\ c.rows[i] \in Nat
  BY DEF Pg!IsSnapshot
<1>3. Pg!LifeBrought(c, i) = {}
  BY <1>2 DEF Pg!LifeBrought
<1>4. [rev |-> c.rows[i], by |-> 0] = NoRecord
  BY <1>2, <1>3 DEF Pg!IsLife
<1> QED BY <1>2, <1>4, PgBounds DEF Pg!PgRecordsAssumption

LEMMA HistoryFits ==
  ASSUME PgInv, NEW r \in Transactions, Pg!History(r)
  PROVE  PgInv'
<1> DEFINE t == txn[r]
           b == t.call.events
           h == [k \in DOMAIN b |-> [n |-> sequence + k - 1, id |-> b[k].id, kind |-> b[k].kind]]
<1>1. Pg!Running(r, "history") /\ sequence' = sequence + Len(b) /\ Pg!Run(r, [Pg!After(r) EXCEPT !.noted = h])
  BY DEF Pg!History
<1>2. PICK a : a = Pg!After(r)
  OBVIOUS
<1>3. /\ Becomes(a, txn[r], txn[r].state, Tail(txn[r].todo), txn[r].locks \cup Pg!Needs(r),
                 txn[r].row, txn[r].noted, txn[r].counted, txn[r].seen)
      /\ txn[r].state = "open"
  BY <1>1, <1>2, UnderWay, AfterIs
<1>4. /\ t.call.op = "import" /\ t.locks = {ImportLock} \cup Loads(t.call) /\ t.noted = <<>>
      /\ IsFirst(t.call, eventRows) /\ \A i \in DOMAIN t.call.rows : rows[i] = NoRecord
      /\ Tail(t.todo) = <<"count">>
  BY <1>1, UnderWay, AtHistory
<1>5. Pg!Needs(r) = {}
  BY <1>1, UnderWay DEF Pg!Needs
<1>6. PICK u : u = [a EXCEPT !.noted = h]
  OBVIOUS
<1>7. Pg!Run(r, u)
  BY <1>1, <1>2, <1>6
<1>8. Becomes(u, t, "open", <<"count">>, t.locks, t.row, h, t.counted, t.seen)
  <2> HIDE DEF h
  <2> QED BY <1>3, <1>4, <1>5, <1>6 DEF Becomes, IsTxn
<1>9. Pg!IsSnapshot(t.call) /\ Len(b) \in Nat /\ DOMAIN b = 1 .. Len(b)
  BY <1>1, <1>4, UnderWay DEF Pg!IsCall, Pg!IsSnapshot
<1>10. sequence' \in Nat /\ sequence <= sequence' /\ sequence \in Nat
  <2>1. sequence' = sequence + Len(b) /\ Len(b) \in Nat /\ sequence \in Nat
    BY <1>1, <1>9, NumbersSoFar
  <2> HIDE DEF b
  <2> QED BY <2>1
<1>11. Numbers(u) \subseteq sequence .. (sequence' - 1)
  <2>1. ASSUME NEW k \in 1 .. Len(b) PROVE sequence + k - 1 \in sequence .. (sequence' - 1)
    <3>1. sequence' = sequence + Len(b) /\ Len(b) \in Nat /\ sequence \in Nat
      BY <1>1, <1>9, <1>10
    <3> HIDE DEF b
    <3> QED BY <3>1
  <2> QED BY <1>8, <1>9, <2>1 DEF Becomes, Numbers
<1>12. Historic(u, eventRows)
  <2>1. CASE Len(b) = 0
    <3>1. DOMAIN t.call.rows = {} /\ DOMAIN b = {}
      BY <1>9, <2>1, HistoryOfRows
    <3> QED BY <1>8, <3>1 DEF Becomes, Historic
  <2>2. CASE Len(b) # 0
    <3>1. 1 \in DOMAIN b
      BY <1>9, <2>2
    <3>2. h[1].n = sequence
      BY <1>10, <3>1
    <3> QED BY <1>8, <3>2, NumbersSoFar DEF Becomes, Historic
  <2> QED BY <2>1, <2>2
<1>13. OpFits(r, u, rows, counters, eventRows) /\ Ended(u)
  BY <1>4, <1>8, <1>12 DEF Becomes, OpFits, ImportFits, Ended
<1>14. u.locks \subseteq txn[r].locks \cup Pg!Needs(r) /\ IsTxn(u) /\ u.call = txn[r].call /\ u.state = "open"
  BY <1>8 DEF Becomes
<1>15. \A e \in eventRows : ~IsImport(txn, e.op)
  BY <1>1, <1>4, UnderWay
<1> QED BY <1>1, <1>5, <1>7, <1>10, <1>11, <1>13, <1>14, <1>15, UnderWay, MovesOn

\* The counters are numbers.
LEMMA CountersAreNumbers ==
  ASSUME PgInv
  PROVE  counters.records \in Nat /\ counters.audit \in Nat
<1>1. IsFiniteSet(Live(rows)) /\ IsFiniteSet(eventRows) /\ counters = Counters(rows, eventRows)
  BY DEF PgInv, TablesFit, EventsFit
<1> QED BY <1>1, FS_CardinalityType DEF Counters

\* What an update of the counters starts from, and what it leaves.
Start(r) == IF CountLock \in txn[r].locks THEN txn[r].counted ELSE counters
Counts(r, more, noted) == [records |-> Start(r).records + more, audit |-> Start(r).audit + noted]
\* The transaction once it counted
Counter(u, r, more, noted) ==
  Becomes(u, txn[r], "open", Tail(txn[r].todo), txn[r].locks \cup {CountLock}, txn[r].row, txn[r].noted,
          Counts(r, more, noted), txn[r].seen)

\* An update of the counters, or its refusal below zero.
LEMMA CountingFits ==
  ASSUME PgInv, NEW r \in Transactions, NEW statement \in {"count", "note"}, Pg!Running(r, statement),
         sequence' = sequence, NEW more, NEW noted, Pg!Counting(r, more, noted),
         \A u : Counter(u, r, more, noted) => OpFits(r, u, rows, counters, eventRows) /\ Ended(u)
  PROVE  PgInv'
<1> DEFINE next == Counts(r, more, noted)
<1>1. Pg!Fails(r) \/ Pg!Run(r, [Pg!After(r) EXCEPT !.counted = next])
  BY DEF Pg!Counting, Start, Counts, CountLock
<1>2. CASE Pg!Fails(r)
  BY <1>2, UnderWay, FailsFits
<1>3. CASE Pg!Run(r, [Pg!After(r) EXCEPT !.counted = next])
  <2>1. Pg!Needs(r) = {CountLock}
    BY UnderWay DEF Pg!Needs, CountLock
  <2>2. PICK a : a = Pg!After(r)
    OBVIOUS
  <2>3. /\ Becomes(a, txn[r], txn[r].state, Tail(txn[r].todo), txn[r].locks \cup Pg!Needs(r),
                   txn[r].row, txn[r].noted, txn[r].counted, txn[r].seen)
        /\ txn[r].state = "open"
    BY <2>2, UnderWay, AfterIs
  <2>4. PICK u : u = [a EXCEPT !.counted = next]
    OBVIOUS
  <2>5. Pg!Run(r, u)
    BY <1>3, <2>2, <2>4
  <2> HIDE DEF next
  <2>6. Becomes(u, txn[r], "open", Tail(txn[r].todo), txn[r].locks \cup {CountLock}, txn[r].row,
                txn[r].noted, next, txn[r].seen)
    BY <2>1, <2>3, <2>4 DEF Becomes, IsTxn
  <2>7. OpFits(r, u, rows, counters, eventRows) /\ Ended(u)
    BY <2>6 DEF Counter, next
  <2>8. \A w \in Pg!Needs(r) : RightLock(w, rows)
    BY <2>1 DEF RightLock
  <2>9. Numbers(u) = Numbers(txn[r])
    BY <2>6 DEF Becomes, Numbers
  <2>10. /\ u.locks \subseteq txn[r].locks \cup Pg!Needs(r) /\ IsTxn(u) /\ u.call = txn[r].call /\ u.state = "open"
         /\ (ImportLock \in u.locks => ImportLock \in txn[r].locks)
    <3>1. ImportLock # CountLock
      BY DEF ImportLock, CountLock, Pg!Lock
    <3> QED BY <2>1, <2>6, <3>1 DEF Becomes
  <2>11. ImportLock \in u.locks => \A e \in eventRows : ~IsImport(txn, e.op)
    BY <2>10, UnderWay
  <2>12. sequence' \in Nat /\ sequence <= sequence' /\ Pg!WaitsFor(r) = {}
    BY UnderWay
  <2> QED BY <2>3, <2>5, <2>7, <2>8, <2>9, <2>10, <2>11, <2>12, MovesOn
<1> QED BY <1>1, <1>2, <1>3

\* The first count of a transaction starts from what is committed.
LEMMA CountFits ==
  ASSUME PgInv, NEW r \in Transactions, Pg!Count(r)
  PROVE  PgInv'
<1> DEFINE t == txn[r]
<1>1. Pg!Running(r, "count") /\ sequence' = sequence
  BY DEF Pg!Count
<1>2. \/ /\ t.noted = <<>> /\ Tail(t.todo) = <<"event", "note">>
         /\ \/ /\ t.call.op = "create" /\ t.locks = {Inserts(t)}
               /\ rows[t.call.id] = NoRecord /\ t.row = [rev |-> 0, by |-> r]
            \/ /\ t.call.op = "delete" /\ t.locks = {Deletes(t)}
               /\ rows[t.call.id] # NoRecord /\ t.row = rows[t.call.id]
      \/ /\ t.call.op = "import" /\ t.locks = {ImportLock} \cup Loads(t.call) /\ Tail(t.todo) = <<>>
         /\ Historic(t, eventRows) /\ IsFirst(t.call, eventRows)
         /\ \A i \in DOMAIN t.call.rows : rows[i] = NoRecord
  <2>1. Under(r, txn[r], rows, counters, eventRows) /\ Next1(txn[r], "count")
    BY <1>1, UnderWay
  <2> QED BY <2>1, AtCount
<1>3. \A i : Pg!Lock(i, "insert") # CountLock /\ Pg!Lock(i, "delete") # CountLock
  BY DEF Pg!Lock, CountLock
<1>4. ImportLock # CountLock
  BY DEF ImportLock, CountLock, Pg!Lock
<1>5. CountLock \notin t.locks
  BY <1>2, <1>3, <1>4 DEF Inserts, Deletes, Loads
<1>6. Start(r) = counters
  BY <1>5 DEF Start
<1>7. CASE t.call.op = "create"
  <2>1. Pg!Counting(r, 1, 0)
    BY <1>7 DEF Pg!Count
  <2>2. ASSUME NEW u, Counter(u, r, 1, 0) PROVE OpFits(r, u, rows, counters, eventRows) /\ Ended(u)
    BY <1>2, <1>6, <1>7, <2>2 DEF Counter, Counts, Becomes, OpFits, CreateFits, Counted, Inserts, Ended
  <2> QED BY <1>1, <2>1, <2>2, CountingFits
<1>8. CASE t.call.op = "delete"
  <2>1. Pg!Counting(r, -1, 0)
    BY <1>8 DEF Pg!Count
  <2>2. ASSUME NEW u, Counter(u, r, -1, 0) PROVE OpFits(r, u, rows, counters, eventRows) /\ Ended(u)
    BY <1>2, <1>6, <1>8, <2>2 DEF Counter, Counts, Becomes, OpFits, DeleteFits, Counted, Deletes, Ended
  <2> QED BY <1>1, <2>1, <2>2, CountingFits
<1>9. CASE t.call.op = "import"
  <2> DEFINE more == Cardinality(DOMAIN t.call.rows)
             noted == Len(t.call.events)
  <2>1. Pg!Counting(r, more, noted)
    BY <1>9, SameLibrary DEF Pg!Count
  <2>2. ASSUME NEW u, Counter(u, r, more, noted)
        PROVE  OpFits(r, u, rows, counters, eventRows) /\ Ended(u)
    <3>1. /\ u.todo = <<>> /\ u.locks = {ImportLock} \cup Loads(t.call) \cup {CountLock}
          /\ u.noted = t.noted /\ u.call = t.call
          /\ u.counted = [records |-> counters.records + more, audit |-> counters.audit + noted]
      BY <1>2, <1>6, <1>9, <2>2 DEF Counter, Counts, Becomes
    <3>2. Historic(u, eventRows) /\ u.locks = {ImportLock, CountLock} \cup Loads(u.call)
      BY <1>2, <1>9, <3>1 DEF Historic
    <3> QED BY <1>2, <1>9, <3>1, <3>2 DEF OpFits, ImportFits, Counted, Ended
  <2> HIDE DEF more, noted
  <2> QED BY <1>1, <2>1, <2>2, CountingFits
<1> QED BY <1>2, <1>7, <1>8, <1>9

\* The last statement of every operation that writes.
LEMMA NoteStepFits ==
  ASSUME PgInv, NEW r \in Transactions, Pg!Note(r)
  PROVE  PgInv'
<1> DEFINE t == txn[r]
<1>1. Pg!Running(r, "note") /\ sequence' = sequence /\ Pg!Counting(r, 0, 1)
  BY DEF Pg!Note
<1>2. /\ Noted(t) /\ Tail(t.todo) = <<>>
      /\ \/ /\ t.call.op = "create" /\ t.locks = {Inserts(t), CountLock} /\ Counted(t, counters, 1, 0)
            /\ IsLater(t, eventRows) /\ rows[t.call.id] = NoRecord /\ t.row = [rev |-> 0, by |-> r]
         \/ /\ t.call.op = "mutate" /\ t.locks = {Updates(t)} /\ IsLater(t, eventRows)
            /\ rows[t.call.id] # NoRecord /\ t.row = [rev |-> rows[t.call.id].rev + 1, by |-> r]
         \/ /\ t.call.op = "delete" /\ t.locks = {Deletes(t), CountLock} /\ Counted(t, counters, -1, 0)
            /\ IsLater(t, eventRows) /\ rows[t.call.id] # NoRecord /\ t.row = rows[t.call.id]
         \/ t.call.op \in {"delete", "append"} /\ t.locks = {} /\ t.row = NoRecord
  BY <1>1, UnderWay, AtNote
<1>3. ASSUME NEW u, Counter(u, r, 0, 1) PROVE OpFits(r, u, rows, counters, eventRows) /\ Ended(u)
  <2>1. /\ u.todo = <<>> /\ u.locks = t.locks \cup {CountLock} /\ u.noted = t.noted /\ u.call = t.call
        /\ u.row = t.row /\ u.counted = [records |-> Start(r).records + 0, audit |-> Start(r).audit + 1]
    BY <1>2, <1>3 DEF Counter, Counts, Becomes
  <2>2. Noted(u) /\ (IsLater(t, eventRows) => IsLater(u, eventRows))
    BY <1>2, <2>1 DEF Noted, IsLater
  <2>3. CASE /\ t.call.op = "create" /\ t.locks = {Inserts(t), CountLock} /\ Counted(t, counters, 1, 0)
             /\ IsLater(t, eventRows) /\ rows[t.call.id] = NoRecord /\ t.row = [rev |-> 0, by |-> r]
    <3>1. Start(r) = t.counted /\ u.locks = {Inserts(t), CountLock}
      BY <2>1, <2>3 DEF Start
    <3>2. Counted(u, counters, 1, 1)
      BY <2>1, <2>3, <3>1, CountersAreNumbers DEF Counted
    <3> QED BY <2>1, <2>2, <2>3, <3>1, <3>2 DEF OpFits, CreateFits, Inserts, Ended
  <2>4. CASE /\ t.call.op = "mutate" /\ t.locks = {Updates(t)} /\ IsLater(t, eventRows)
             /\ rows[t.call.id] # NoRecord /\ t.row = [rev |-> rows[t.call.id].rev + 1, by |-> r]
    <3>1. Updates(t) # CountLock
      BY <1>1, <2>4, UnderWay, PgBounds DEF Pg!IsCall, Pg!PgRecordsAssumption, Updates, CountLock, Pg!Lock
    <3>2. Start(r) = counters /\ u.locks = {Updates(t), CountLock}
      BY <2>1, <2>4, <3>1 DEF Start
    <3>3. Counted(u, counters, 0, 1)
      BY <2>1, <3>2 DEF Counted
    <3> QED BY <2>1, <2>2, <2>4, <3>2, <3>3 DEF OpFits, MutateFits, Updates, Ended
  <2>5. CASE /\ t.call.op = "delete" /\ t.locks = {Deletes(t), CountLock} /\ Counted(t, counters, -1, 0)
             /\ IsLater(t, eventRows) /\ rows[t.call.id] # NoRecord /\ t.row = rows[t.call.id]
    <3>1. Start(r) = t.counted /\ u.locks = {Deletes(t), CountLock}
      BY <2>1, <2>5 DEF Start
    <3>2. Counted(u, counters, -1, 1)
      BY <2>1, <2>5, <3>1, CountersAreNumbers DEF Counted
    <3> QED BY <2>1, <2>2, <2>5, <3>1, <3>2 DEF OpFits, DeleteFits, Deletes, Ended
  <2>6. CASE t.call.op \in {"delete", "append"} /\ t.locks = {} /\ t.row = NoRecord
    <3>1. Start(r) = counters /\ u.locks = {CountLock}
      BY <2>1, <2>6 DEF Start
    <3>2. Counted(u, counters, 0, 1)
      BY <2>1, <3>1 DEF Counted
    <3> QED BY <2>1, <2>2, <2>6, <3>1, <3>2 DEF OpFits, DeleteFits, AppendFits, NoteFits, Ended
  <2> QED BY <1>2, <2>3, <2>4, <2>5, <2>6
<1> QED BY <1>1, <1>3, CountingFits

\* The two reads of evidence.
LEMMA ShareFits ==
  ASSUME PgInv, NEW r \in Transactions, Pg!Share(r)
  PROVE  PgInv'
<1> DEFINE row == rows[txn[r].call.id]
<1>1. Pg!Running(r, "share") /\ sequence' = sequence
  BY DEF Pg!Share
<1>2. PICK a : a = Pg!After(r)
  OBVIOUS
<1>3. /\ Becomes(a, txn[r], txn[r].state, Tail(txn[r].todo), txn[r].locks \cup Pg!Needs(r),
                 txn[r].row, txn[r].noted, txn[r].counted, txn[r].seen)
      /\ txn[r].state = "open"
  BY <1>1, <1>2, UnderWay, AfterIs
<1>4. /\ txn[r].call.op = "evidence" /\ txn[r].locks = {} /\ txn[r].noted = <<>>
      /\ Tail(txn[r].todo) = <<"read">>
  BY <1>1, UnderWay, AtShare
<1>5. PICK u : u = [a EXCEPT !.row = row, !.todo = IF row = NoRecord THEN <<>> ELSE a.todo]
  OBVIOUS
<1>6. Pg!Run(r, u)
  BY <1>2, <1>5 DEF Pg!Share
<1>7. CASE row = NoRecord
  <2>1. Pg!Needs(r) = {}
    BY <1>1, <1>7, UnderWay DEF Pg!Needs
  <2>2. u = [a EXCEPT !.row = NoRecord, !.todo = <<>>]
    BY <1>5, <1>7
  <2>3. Becomes(u, txn[r], "open", <<>>, {}, NoRecord, <<>>, txn[r].counted, txn[r].seen)
    BY <1>3, <1>4, <2>1, <2>2 DEF Becomes, IsTxn
  <2>4. OpFits(r, u, rows, counters, eventRows) /\ Ended(u)
    BY <1>4, <2>3 DEF Becomes, OpFits, EvidenceFits, Ended
  <2>5. Numbers(u) = {} /\ ImportLock \notin u.locks
    BY <2>3, NoNumbers DEF Becomes
  <2>6. u.locks \subseteq txn[r].locks \cup Pg!Needs(r) /\ IsTxn(u) /\ u.call = txn[r].call /\ u.state = "open"
    BY <2>3 DEF Becomes
  <2> QED BY <1>1, <1>6, <2>1, <2>4, <2>5, <2>6, UnderWay, MovesOn
<1>8. CASE row # NoRecord
  <2>1. Pg!Needs(r) = {Pg!Lock(txn[r].call.id, "share")}
    BY <1>1, <1>8, UnderWay DEF Pg!Needs
  <2>2. u = [a EXCEPT !.row = row, !.todo = <<"read">>]
    BY <1>3, <1>4, <1>5, <1>8 DEF Becomes
  <2>3. Becomes(u, txn[r], "open", <<"read">>, {Shares(txn[r])}, row, <<>>, txn[r].counted, txn[r].seen)
    <3> HIDE DEF row
    <3> QED BY <1>3, <1>4, <2>1, <2>2 DEF Becomes, IsTxn, Shares
  <2>4. OpFits(r, u, rows, counters, eventRows) /\ Ended(u)
    BY <1>4, <1>8, <2>3, SomeStatements DEF Becomes, OpFits, EvidenceFits, Shares, Ended
  <2>5. Numbers(u) = {} /\ ImportLock \notin u.locks
    BY <2>3, NoNumbers DEF Becomes, Shares, ImportLock, Pg!Lock
  <2>6. u.locks \subseteq txn[r].locks \cup Pg!Needs(r) /\ IsTxn(u) /\ u.call = txn[r].call /\ u.state = "open"
    BY <2>1, <2>3 DEF Becomes, Shares
  <2>7. \A w \in Pg!Needs(r) : RightLock(w, rows)
    BY <1>1, <1>4, <1>8, <2>1, UnderWay DEF RightLock, Pg!Lock, Pg!IsCall
  <2> QED BY <1>1, <1>6, <2>4, <2>5, <2>6, <2>7, UnderWay, MovesOn
<1> QED BY <1>7, <1>8

\* The record that was read is there, so that it has a life, and its events are that life.
LEMMA ReadFits ==
  ASSUME PgInv, NEW r \in Transactions, Pg!Read(r)
  PROVE  PgInv'
<1> DEFINE id == txn[r].call.id
           E  == {e \in eventRows : e.id = id}
<1>1. Pg!Running(r, "read") /\ sequence' = sequence
  BY DEF Pg!Read
<1>2. PICK a : a = Pg!After(r)
  OBVIOUS
<1>3. /\ Becomes(a, txn[r], txn[r].state, Tail(txn[r].todo), txn[r].locks \cup Pg!Needs(r),
                 txn[r].row, txn[r].noted, txn[r].counted, txn[r].seen)
      /\ txn[r].state = "open"
  BY <1>1, <1>2, UnderWay, AfterIs
<1>4. /\ txn[r].call.op = "evidence" /\ txn[r].locks = {Shares(txn[r])} /\ txn[r].noted = <<>>
      /\ Tail(txn[r].todo) = <<>> /\ rows[id] # NoRecord /\ txn[r].row = rows[id]
  BY <1>1, UnderWay, AtRead
<1>5. Pg!Needs(r) = {}
  BY <1>1, UnderWay DEF Pg!Needs
<1>6. PICK u : u = [a EXCEPT !.seen = E]
  OBVIOUS
<1>7. Pg!Run(r, u)
  BY <1>2, <1>6 DEF Pg!Read
<1>8. Becomes(u, txn[r], "open", <<>>, {Shares(txn[r])}, txn[r].row, <<>>, txn[r].counted, E)
  <2> HIDE DEF E
  <2> QED BY <1>3, <1>4, <1>5, <1>6 DEF Becomes, IsTxn
<1>9. Ended(u)
  <2>1. id \in Ids
    BY <1>1, <1>4, UnderWay DEF Pg!IsCall
  <2>2. Pg!IsLife(Pg!Took(eventRows, id), rows[id])
    BY <2>1 DEF PgInv, TablesFit
  <2>3. Pg!EndsAt(Pg!Took(eventRows, id), rows[id])
    BY <1>4, <2>2 DEF Pg!IsLife
  <2>4. {e \in u.seen : e.took} = Pg!Took(eventRows, id)
    BY <1>8 DEF Becomes, Pg!Took
  <2> QED BY <1>4, <1>8, <2>3, <2>4 DEF Becomes, Ended
<1>10. OpFits(r, u, rows, counters, eventRows)
  BY <1>4, <1>8 DEF Becomes, OpFits, EvidenceFits, Shares
<1>11. Numbers(u) = {} /\ ImportLock \notin u.locks
  BY <1>8, NoNumbers DEF Becomes, Shares, ImportLock, Pg!Lock
<1>12. u.locks \subseteq txn[r].locks \cup Pg!Needs(r) /\ IsTxn(u) /\ u.call = txn[r].call /\ u.state = "open"
  BY <1>4, <1>8 DEF Becomes
<1> QED BY <1>1, <1>5, <1>7, <1>9, <1>10, <1>11, <1>12, UnderWay, MovesOn

\* A rollback, at any moment.
LEMMA RollbackFits ==
  ASSUME PgInv, NEW r \in Transactions, Pg!Rollback(r)
  PROVE  PgInv'
BY FailsFits DEF Pg!Rollback

-----------------------------------------------------------------------------
(* Lives                                                                    *)

Numeric(life) == \A a \in life : a.n \in Nat
\* All of one before all of the other.
Before(a, b) == \A x \in a, y \in b : x.n < y.n

\* The life of a removed record, and then a life that begins anew.
LEMMA LivesJoin ==
  ASSUME NEW old, NEW new, NEW row, Pg!IsLife(old, NoRecord), Pg!IsLife(new, row),
         Numeric(old), Numeric(new), Before(old, new)
  PROVE  Pg!IsLife(old \cup new, row)
<1>1. CASE old = {}
  <2>1. old \cup new = new
    BY <1>1
  <2> QED BY <2>1
<1>2. CASE new = {}
  <2>1. old \cup new = old /\ row = NoRecord
    BY <1>2 DEF Pg!IsLife
  <2> QED BY <2>1
<1>3. CASE old # {} /\ new # {}
  <2>1. PICK last \in old : (\A a \in old : a.n <= last.n) /\ last.kind = "delete"
    BY <1>3 DEF Pg!IsLife, Pg!EndsAt
  <2>2. PICK end \in new : /\ \A a \in new : a.n <= end.n
                           /\ IF end.kind = "delete" THEN row = NoRecord ELSE row # NoRecord /\ row.rev = end.rev
    BY <1>3 DEF Pg!IsLife, Pg!EndsAt
  <2>3. Pg!Numbered(old \cup new)
    BY DEF Pg!IsLife, Pg!Numbered, Numeric, Before
  <2>4. Pg!Begins(old \cup new)
    <3> SUFFICES ASSUME NEW b \in old \cup new, \A a \in old \cup new : b.n <= a.n PROVE b.kind = "create"
      BY DEF Pg!Begins
    <3>1. b \in old
      BY <2>1 DEF Before, Numeric
    <3> QED BY <3>1 DEF Pg!IsLife, Pg!Begins
  <2>5. Pg!GoesOn(old \cup new)
    <3> SUFFICES ASSUME NEW a \in old \cup new, NEW b \in old \cup new, a.n < b.n,
                        \A c \in old \cup new : c.n <= a.n \/ b.n <= c.n
                 PROVE  Pg!Follows(a, b)
      BY DEF Pg!GoesOn
    <3>1. CASE a \in old /\ b \in old
      BY <3>1 DEF Pg!IsLife, Pg!GoesOn
    <3>2. CASE a \in new /\ b \in new
      BY <3>2 DEF Pg!IsLife, Pg!GoesOn
    <3>3. CASE a \in old /\ b \in new
      <4>1. last.n <= a.n
        BY <2>1, <3>3 DEF Before, Numeric
      <4>2. a = last
        BY <2>1, <3>3, <4>1 DEF Pg!IsLife, Pg!Numbered, Numeric
      <4>3. \A c \in new : b.n <= c.n
        BY <3>3 DEF Before, Numeric
      <4>4. b.kind = "create"
        BY <3>3, <4>3 DEF Pg!IsLife, Pg!Begins
      <4> QED BY <2>1, <4>2, <4>4 DEF Pg!Follows
    <3>4. ~(a \in new /\ b \in old)
      BY DEF Before, Numeric
    <3> QED BY <3>1, <3>2, <3>3, <3>4
  <2>6. Pg!EndsAt(old \cup new, row)
    <3>1. \A a \in old \cup new : a.n <= end.n
      BY <2>2 DEF Before, Numeric
    <3> QED BY <2>2, <3>1 DEF Pg!EndsAt
  <2> QED BY <1>3, <2>3, <2>4, <2>5, <2>6 DEF Pg!IsLife
<1> QED BY <1>1, <1>2, <1>3

\* The event e after a row makes it the row `next`.
Makes(e, row, next) ==
  \/ e.kind = "create" /\ row = NoRecord /\ next # NoRecord /\ next.rev = e.rev
  \/ e.kind = "mutate" /\ row # NoRecord /\ e.rev = row.rev + 1 /\ next # NoRecord /\ next.rev = e.rev
  \/ e.kind = "delete" /\ row # NoRecord /\ e.rev = row.rev /\ next = NoRecord

\* A life goes on with one more event.
LEMMA LifeGoesOn ==
  ASSUME NEW life, NEW row, NEW next, NEW e, Pg!IsLife(life, row), Makes(e, row, next),
         Numeric(life), e.n \in Nat, Before(life, {e})
  PROVE  Pg!IsLife(life \cup {e}, next)
<1>1. CASE e.kind = "create"
  <2>1. row = NoRecord /\ next # NoRecord /\ next.rev = e.rev
    BY <1>1 DEF Makes
  <2>2. Pg!IsLife({e}, next)
    BY <1>1, <2>1 DEF Pg!IsLife, Pg!Numbered, Pg!Begins, Pg!GoesOn, Pg!EndsAt
  <2> QED BY <2>1, <2>2, LivesJoin DEF Numeric
<1>2. CASE e.kind # "create"
  <2>1. row # NoRecord /\ e.kind \in {"mutate", "delete"}
    BY <1>2 DEF Makes
  <2>2. PICK last \in life : (\A a \in life : a.n <= last.n) /\ last.kind # "delete" /\ row.rev = last.rev
    BY <2>1 DEF Pg!IsLife, Pg!EndsAt
  <2>3. Pg!Numbered(life \cup {e})
    BY DEF Pg!IsLife, Pg!Numbered, Numeric, Before
  <2>4. Pg!Begins(life \cup {e})
    <3> SUFFICES ASSUME NEW b \in life \cup {e}, \A a \in life \cup {e} : b.n <= a.n PROVE b.kind = "create"
      BY DEF Pg!Begins
    <3>1. b \in life
      BY <2>2 DEF Before, Numeric
    <3> QED BY <3>1 DEF Pg!IsLife, Pg!Begins
  <2>5. Pg!GoesOn(life \cup {e})
    <3> SUFFICES ASSUME NEW a \in life \cup {e}, NEW b \in life \cup {e}, a.n < b.n,
                        \A c \in life \cup {e} : c.n <= a.n \/ b.n <= c.n
                 PROVE  Pg!Follows(a, b)
      BY DEF Pg!GoesOn
    <3>1. CASE a \in life /\ b \in life
      BY <3>1 DEF Pg!IsLife, Pg!GoesOn
    <3>2. CASE a \in life /\ b = e
      <4>1. last.n <= a.n
        BY <2>2, <3>2 DEF Before, Numeric
      <4>2. a = last
        BY <2>2, <3>2, <4>1 DEF Pg!IsLife, Pg!Numbered, Numeric
      <4> QED BY <2>1, <2>2, <3>2, <4>2 DEF Pg!Follows, Makes
    <3>3. a # e
      BY DEF Before, Numeric
    <3> QED BY <3>1, <3>2, <3>3
  <2>6. Pg!EndsAt(life \cup {e}, next)
    <3>1. \A a \in life \cup {e} : a.n <= e.n
      BY DEF Before, Numeric
    <3> QED BY <2>1, <3>1 DEF Pg!EndsAt, Makes
  <2> QED BY <2>3, <2>4, <2>5, <2>6 DEF Pg!IsLife
<1> QED BY <1>1, <1>2

\* The same life under other numbers, in the same order: f gives the event for each.
Shifted(life, moved, f, d) ==
  /\ moved = {f[a] : a \in life}
  /\ \A a \in life : f[a].n = a.n + d /\ f[a].kind = a.kind /\ f[a].rev = a.rev

\* A life is a life under other numbers in the same order.
LEMMA LifeShifts ==
  ASSUME NEW life, NEW row, NEW moved, NEW f, NEW d \in Int, NEW next,
         Pg!IsLife(life, row), row = NoRecord <=> next = NoRecord, row # NoRecord => next.rev = row.rev,
         Numeric(life), Shifted(life, moved, f, d)
  PROVE  Pg!IsLife(moved, next)
<1>1. \A a \in life : /\ f[a] \in moved /\ f[a].n = a.n + d /\ f[a].kind = a.kind /\ f[a].rev = a.rev
                      /\ a.n \in Nat
  BY DEF Shifted, Numeric
<1>2. \A m \in moved : \E a \in life : m = f[a]
  BY DEF Shifted
<1>3. /\ Pg!Numbered(life) /\ Pg!Begins(life) /\ Pg!GoesOn(life)
      /\ IF life = {} THEN row = NoRecord ELSE Pg!EndsAt(life, row)
  BY DEF Pg!IsLife
<1>4. Pg!Numbered(moved)
  <2> SUFFICES ASSUME NEW x \in moved, NEW y \in moved, x.n = y.n PROVE x = y
    BY DEF Pg!Numbered
  <2>1. PICK a \in life : x = f[a]
    BY <1>2
  <2>2. PICK b \in life : y = f[b]
    BY <1>2
  <2>3. a.n = b.n
    BY <1>1, <2>1, <2>2
  <2> QED BY <1>3, <2>1, <2>2, <2>3 DEF Pg!Numbered
<1>5. Pg!Begins(moved)
  <2> SUFFICES ASSUME NEW y \in moved, \A x \in moved : y.n <= x.n PROVE y.kind = "create"
    BY DEF Pg!Begins
  <2>1. PICK b \in life : y = f[b]
    BY <1>2
  <2>2. \A a \in life : b.n <= a.n
    BY <1>1, <2>1
  <2> QED BY <1>1, <1>3, <2>1, <2>2 DEF Pg!Begins
<1>6. Pg!GoesOn(moved)
  <2> SUFFICES ASSUME NEW x \in moved, NEW y \in moved, x.n < y.n,
                      \A z \in moved : z.n <= x.n \/ y.n <= z.n
               PROVE  Pg!Follows(x, y)
    BY DEF Pg!GoesOn
  <2>1. PICK a \in life : x = f[a]
    BY <1>2
  <2>2. PICK b \in life : y = f[b]
    BY <1>2
  <2>3. a.n < b.n /\ \A c \in life : c.n <= a.n \/ b.n <= c.n
    BY <1>1, <2>1, <2>2
  <2>4. Pg!Follows(a, b)
    BY <1>3, <2>3 DEF Pg!GoesOn
  <2> QED BY <1>1, <2>1, <2>2, <2>4 DEF Pg!Follows
<1>7. CASE life # {}
  <2>1. PICK b \in life : /\ \A a \in life : a.n <= b.n
                          /\ IF b.kind = "delete" THEN row = NoRecord ELSE row # NoRecord /\ row.rev = b.rev
    BY <1>3, <1>7 DEF Pg!EndsAt
  <2>2. \A x \in moved : x.n <= f[b].n
    BY <1>1, <1>2, <2>1
  <2>3. Pg!EndsAt(moved, next) /\ moved # {}
    BY <1>1, <2>1, <2>2 DEF Pg!EndsAt
  <2> QED BY <1>4, <1>5, <1>6, <2>3 DEF Pg!IsLife
<1>8. CASE life = {}
  <2>1. moved = {}
    BY <1>2, <1>8
  <2> QED BY <1>3, <1>4, <1>5, <1>6, <1>8, <2>1 DEF Pg!IsLife
<1> QED BY <1>7, <1>8

-----------------------------------------------------------------------------
(* What a commit leaves to the others                                       *)

\* The rows, counters and events that the locks of t keep for it are as they were.
Kept(t, R, C, E, R2, C2, E2) ==
  /\ \A i \in Ids : \A m : Pg!Lock(i, m) \in t.locks => R2[i] = R[i] /\ Pg!Took(E2, i) = Pg!Took(E, i)
  /\ CountLock \in t.locks => C2 = C
  /\ t.call.op = "import" /\ ImportLock \in t.locks =>
       \A i \in Pg!Removed(t.call) : Pg!Took(E2, i) = Pg!Took(E, i)

\* A transaction still fits tables that keep what its locks protect.
LEMMA KeptFits ==
  ASSUME NEW r, NEW t, NEW R, NEW C, NEW E, NEW R2, NEW C2, NEW E2,
         OpFits(r, t, R, C, E), t.call \in Calls, Kept(t, R, C, E, R2, C2, E2)
  PROVE  OpFits(r, t, R2, C2, E2)
<1>1. Pg!IsCall(t.call)
  BY CallsKnown
<1>2. ASSUME t.call.id \in Ids, NEW m, Pg!Lock(t.call.id, m) \in t.locks
      PROVE  R2[t.call.id] = R[t.call.id] /\ (IsLater(t, E) => IsLater(t, E2))
  BY <1>2 DEF Kept, IsLater
<1>3. CountLock \in t.locks => \A x, y : Counted(t, C, x, y) => Counted(t, C2, x, y)
  BY DEF Kept, Counted
<1>4. CASE t.call.op = "create"
  <2>1. CreateFits(r, t, R, C, E) /\ t.call.id \in Ids
    BY <1>1, <1>4 DEF OpFits, Pg!IsCall
  <2>2. CreateFits(r, t, R2, C2, E2)
    BY <1>2, <1>3, <2>1 DEF CreateFits, Inserts
  <2> QED BY <1>4, <2>2 DEF OpFits
<1>5. CASE t.call.op = "mutate"
  <2>1. MutateFits(r, t, R, C, E) /\ t.call.id \in Ids
    BY <1>1, <1>5 DEF OpFits, Pg!IsCall
  <2>2. MutateFits(r, t, R2, C2, E2)
    BY <1>2, <1>3, <2>1 DEF MutateFits, Updates
  <2> QED BY <1>5, <2>2 DEF OpFits
<1>6. CASE t.call.op = "delete"
  <2>1. DeleteFits(r, t, R, C, E) /\ t.call.id \in Ids
    BY <1>1, <1>6 DEF OpFits, Pg!IsCall
  <2>2. DeleteFits(r, t, R2, C2, E2)
    BY <1>2, <1>3, <2>1 DEF DeleteFits, NoteFits, Deletes
  <2> QED BY <1>6, <2>2 DEF OpFits
<1>7. CASE t.call.op = "append"
  <2>1. AppendFits(r, t, R, C, E)
    BY <1>7 DEF OpFits
  <2>2. AppendFits(r, t, R2, C2, E2)
    BY <1>3, <2>1 DEF AppendFits, NoteFits
  <2> QED BY <1>7, <2>2 DEF OpFits
<1>8. CASE t.call.op = "evidence"
  <2>1. EvidenceFits(r, t, R, C, E) /\ t.call.id \in Ids
    BY <1>1, <1>8 DEF OpFits, Pg!IsCall
  <2>2. EvidenceFits(r, t, R2, C2, E2)
    BY <1>2, <2>1 DEF EvidenceFits, Shares
  <2> QED BY <1>8, <2>2 DEF OpFits
<1>9. CASE t.call.op = "import"
  <2>1. ImportFits(r, t, R, C, E) /\ DOMAIN t.call.rows \subseteq Ids
    BY <1>1, <1>9 DEF OpFits, Pg!IsCall, Pg!IsSnapshot
  <2>2. ImportLock \in t.locks /\ IsFirst(t.call, E) => IsFirst(t.call, E2)
    BY <1>9 DEF Kept, IsFirst
  <2>3. ASSUME Loads(t.call) \subseteq t.locks
        PROVE  /\ (\A i \in DOMAIN t.call.rows : R[i] = NoRecord) => \A i \in DOMAIN t.call.rows : R2[i] = NoRecord
               /\ Historic(t, E) => Historic(t, E2)
    <3>1. ASSUME NEW i \in DOMAIN t.call.rows PROVE R2[i] = R[i] /\ Pg!Took(E2, i) = Pg!Took(E, i)
      BY <2>1, <2>3 DEF Kept, Loads
    <3> QED BY <3>1 DEF Historic
  <2>4. ImportFits(r, t, R2, C2, E2)
    BY <1>3, <2>1, <2>2, <2>3 DEF ImportFits
  <2> QED BY <1>9, <2>4 DEF OpFits
<1> QED BY <1>1, <1>4, <1>5, <1>6, <1>7, <1>8, <1>9 DEF Pg!IsCall

\* A lock on an id is of the record that was called for, or of an import under its lock.
LEMMA IdLocks ==
  ASSUME NEW r, NEW t, NEW R, NEW C, NEW E, Under(r, t, R, C, E), NEW i \in Ids, NEW m, Pg!Lock(i, m) \in t.locks
  PROVE  IF t.call.op = "import" THEN ImportLock \in t.locks ELSE i = t.call.id
<1>1. /\ \A j, n : Pg!Lock(j, n).on = j
      /\ CountLock.on = "counters" /\ ImportLock.on = "imports" /\ i # "counters" /\ i # "imports"
  BY PgBounds DEF Pg!Lock, CountLock, ImportLock, Pg!PgRecordsAssumption
<1>2. Pg!Lock(i, m).on = i /\ Pg!Lock(i, m) # CountLock /\ Pg!Lock(i, m) # ImportLock
  BY <1>1
<1> QED
  BY <1>1, <1>2 DEF Under, OpFits, CreateFits, MutateFits, DeleteFits, AppendFits, EvidenceFits, ImportFits,
     NoteFits, Inserts, Updates, Deletes, Shares

\* What a commit writes: events of its own numbers, about the records X that are its own.
Writes(r, u, W, X) ==
  /\ txn' = [txn EXCEPT ![r] = u] /\ eventRows' = eventRows \cup W /\ sequence' = sequence
  /\ IsFiniteSet(W) /\ Pg!Numbered(W) /\ \A e \in W : e.op = r /\ e.n \in Numbers(txn[r])
  /\ \A i \in Ids : i \notin X => rows'[i] = rows[i] /\ Pg!Took(eventRows', i) = Pg!Took(eventRows, i)
  /\ \A i \in X : \/ \E m : m # "share" /\ Pg!Lock(i, m) \in txn[r].locks
                  \/ txn[r].call.op = "import" /\ i \in Pg!Removed(txn[r].call)
  /\ txn[r].call.op # "import" => X \subseteq {txn[r].call.id}
  /\ txn[r].call.op = "import" => ImportLock \in txn[r].locks
  /\ counters' = counters \/ CountLock \in txn[r].locks

\* A commit keeps what the locks of the other transactions protect.
LEMMA OthersKept ==
  ASSUME PgInv, NEW r \in Transactions, NEW u, NEW W, NEW X, Writes(r, u, W, X), txn[r].state = "open",
         NEW o \in Transactions, o # r, txn[o].state = "open"
  PROVE  Kept(txn[o], rows, counters, eventRows, rows', counters', eventRows')
<1>1. /\ Under(o, txn[o], rows, counters, eventRows) /\ Under(r, txn[r], rows, counters, eventRows)
      /\ Pg!IsCall(txn[o].call) /\ Pg!IsCall(txn[r].call) /\ Exclude(txn[r].locks, txn[o].locks)
      /\ ~Pg!Clash(txn[r].call, txn[o].call) /\ ~Pg!Clash(txn[o].call, txn[r].call)
  <2>1. TxnFits(o, txn[o], rows, counters, eventRows, sequence) /\ TxnFits(r, txn[r], rows, counters, eventRows, sequence)
        /\ Apart(txn[r], txn[o])
    BY DEF PgInv
  <2>2. Under(o, txn[o], rows, counters, eventRows) /\ Under(r, txn[r], rows, counters, eventRows)
    BY <2>1 DEF TxnFits, Under
  <2> QED BY <2>1, <2>2, CallsKnown DEF Under, Apart, Together
<1>2. \A i, m, n : Pg!Lock(i, m) \in txn[r].locks /\ Pg!Lock(i, n) \in txn[o].locks => m = "share" /\ n = "share"
  <2>1. \A i, m : Pg!Lock(i, m).on = i /\ Pg!Lock(i, m).mode = m
    BY DEF Pg!Lock
  <2> QED BY <1>1, <2>1 DEF Exclude
<1>3. ~(ImportLock \in txn[r].locks /\ ImportLock \in txn[o].locks)
  BY <1>2 DEF ImportLock
<1>4. ~(CountLock \in txn[r].locks /\ CountLock \in txn[o].locks)
  BY <1>2 DEF CountLock
<1>5. ASSUME NEW i \in Ids, NEW m, Pg!Lock(i, m) \in txn[o].locks
      PROVE  rows'[i] = rows[i] /\ Pg!Took(eventRows', i) = Pg!Took(eventRows, i)
  <2>1. CASE i \notin X
    BY <2>1 DEF Writes
  <2>2. CASE \E n : n # "share" /\ Pg!Lock(i, n) \in txn[r].locks
    BY <1>2, <1>5, <2>2
  <2>3. CASE txn[r].call.op = "import" /\ i \in Pg!Removed(txn[r].call)
    <3>1. ImportLock \in txn[r].locks
      BY <2>3 DEF Writes
    <3>2. txn[o].call.op # "import" /\ i = txn[o].call.id
      BY <1>1, <1>3, <1>5, <3>1, IdLocks
    <3> QED BY <1>1, <2>3, <3>2 DEF Pg!Clash
  <2> QED BY <2>1, <2>2, <2>3 DEF Writes
<1>6. CountLock \in txn[o].locks => counters' = counters
  BY <1>4 DEF Writes
<1>7. ASSUME txn[o].call.op = "import", ImportLock \in txn[o].locks, NEW i \in Pg!Removed(txn[o].call)
      PROVE  Pg!Took(eventRows', i) = Pg!Took(eventRows, i)
  <2>1. txn[r].call.op # "import"
    BY <1>3, <1>7 DEF Writes
  <2>2. i # txn[r].call.id
    BY <1>1, <1>7, <2>1 DEF Pg!Clash
  <2>3. i \in Ids
    BY <1>7 DEF Pg!Removed
  <2> QED BY <2>1, <2>2, <2>3 DEF Writes
<1> QED BY <1>5, <1>6, <1>7 DEF Kept

\* A commit keeps the invariant, if the tables it leaves tell their lives and counts.
LEMMA TablesChange ==
  ASSUME PgInv, NEW r \in Transactions, NEW u, NEW W, NEW X, Writes(r, u, W, X), txn[r].state = "open",
         txn[r].todo = <<>>,
         Becomes(u, txn[r], "done", <<>>, {}, txn[r].row, <<>>, <<>>, txn[r].seen),
         TablesFit(rows', counters', eventRows')
  PROVE  PgInv'
<1>1. /\ DOMAIN txn = Transactions /\ sequence \in Nat \ {0} /\ sequence' = sequence
      /\ EventsFit(eventRows, txn, sequence)
      /\ \A o \in Transactions : TxnFits(o, txn[o], rows, counters, eventRows, sequence)
      /\ \A o, q \in Transactions : o # q => Apart(txn[o], txn[q])
  BY DEF PgInv, Writes
<1>2. DOMAIN txn' = Transactions /\ txn'[r] = u /\ \A o \in Transactions \ {r} : txn'[o] = txn[o]
  BY <1>1 DEF Writes
<1>3. /\ u.call = txn[r].call /\ u.state = "done" /\ u.locks = {} /\ u.noted = <<>> /\ u.todo = <<>>
      /\ IsTxn(u) /\ u.row = txn[r].row /\ u.seen = txn[r].seen /\ Numbers(u) = {}
  BY NoNumbers DEF Becomes
<1>4. TxnFits(r, u, rows', counters', eventRows', sequence)
  BY <1>1, <1>3 DEF TxnFits
<1>5. ASSUME NEW o \in Transactions, o # r PROVE TxnFits(o, txn[o], rows', counters', eventRows', sequence)
  <2>1. TxnFits(o, txn[o], rows, counters, eventRows, sequence)
    BY <1>1
  <2>2. CASE txn[o].state # "open"
    BY <2>1, <2>2 DEF TxnFits
  <2>3. CASE txn[o].state = "open"
    <3>1. Kept(txn[o], rows, counters, eventRows, rows', counters', eventRows')
      BY <1>5, <2>3, OthersKept
    <3>2. OpFits(o, txn[o], rows', counters', eventRows')
      BY <2>1, <2>3, <3>1, KeptFits DEF TxnFits
    <3> QED BY <2>1, <2>3, <3>2 DEF TxnFits
  <2> QED BY <2>2, <2>3
<1>6. EventsFit(eventRows', txn', sequence)
  <2>1. /\ IsFiniteSet(eventRows) /\ Pg!Numbered(eventRows)
        /\ \A e \in eventRows : e.n \in 1 .. sequence - 1 /\ (e.op \in Transactions => txn[e.op].state = "done")
        /\ \A q \in Transactions, e \in eventRows : e.n \notin Numbers(txn[q])
        /\ \A e, f \in eventRows : IsImport(txn, e.op) /\ IsImport(txn, f.op) => e.op = f.op
        /\ \A q \in Transactions, e \in eventRows : ImportLock \in txn[q].locks => ~IsImport(txn, e.op)
    BY <1>1 DEF EventsFit
  <2>2. /\ eventRows' = eventRows \cup W /\ IsFiniteSet(W) /\ Pg!Numbered(W)
        /\ \A e \in W : e.op = r /\ e.n \in Numbers(txn[r])
        /\ (txn[r].call.op = "import" => ImportLock \in txn[r].locks)
    BY DEF Writes
  <2>3. Numbers(txn[r]) \subseteq 1 .. sequence - 1
    BY <1>1 DEF TxnFits
  <2>4. IsFiniteSet(eventRows')
    BY <2>1, <2>2, FS_Union
  <2>5. Pg!Numbered(eventRows')
    BY <2>1, <2>2 DEF Pg!Numbered
  <2>6. \A o : IsImport(txn', o) <=> IsImport(txn, o)
    BY <1>2, <1>3 DEF IsImport
  <2>7. ASSUME NEW e \in eventRows'
        PROVE  e.n \in 1 .. sequence - 1 /\ (e.op \in Transactions => txn'[e.op].state = "done")
    <3>1. CASE e \in eventRows
      BY <1>2, <1>3, <2>1, <3>1
    <3>2. CASE e \in W
      BY <1>2, <1>3, <2>2, <2>3, <3>2
    <3> QED BY <2>2, <3>1, <3>2
  <2>8. ASSUME NEW q \in Transactions, NEW e \in eventRows' PROVE e.n \notin Numbers(txn'[q])
    <3>1. CASE q = r
      BY <1>2, <1>3, <3>1
    <3>2. CASE q # r
      <4>1. Apart(txn[r], txn[q]) /\ txn'[q] = txn[q]
        BY <1>1, <1>2, <3>2
      <4> QED BY <2>1, <2>2, <4>1 DEF Apart
    <3> QED BY <3>1, <3>2
  <2>9. \A e \in W : IsImport(txn, e.op) => txn[r].call.op = "import" /\ ImportLock \in txn[r].locks
    BY <2>2 DEF IsImport
  <2>10. ASSUME NEW e \in eventRows', NEW f \in eventRows', IsImport(txn, e.op), IsImport(txn, f.op) PROVE e.op = f.op
    BY <2>1, <2>2, <2>9, <2>10
  <2>11. ASSUME NEW q \in Transactions, NEW e \in eventRows', ImportLock \in txn'[q].locks PROVE ~IsImport(txn, e.op)
    <3>1. q # r /\ txn'[q] = txn[q]
      BY <1>2, <1>3, <2>11
    <3>2. CASE e \in eventRows
      BY <2>1, <2>11, <3>1, <3>2
    <3>3. CASE e \in W /\ IsImport(txn, e.op)
      <4>1. Exclude(txn[r].locks, txn[q].locks)
        BY <1>1, <3>1 DEF Apart
      <4>2. ImportLock.mode # "share"
        BY DEF ImportLock, Pg!Lock
      <4> QED BY <2>9, <2>11, <3>1, <3>3, <4>1, <4>2 DEF Exclude
    <3> QED BY <2>2, <3>2, <3>3
  <2> QED BY <2>4, <2>5, <2>6, <2>7, <2>8, <2>10, <2>11 DEF EventsFit
<1>7. ASSUME NEW o \in Transactions, NEW q \in Transactions, o # q PROVE Apart(txn'[o], txn'[q])
  <2>1. Apart(txn[o], txn[q])
    BY <1>1, <1>7
  <2> QED BY <1>2, <1>3, <2>1 DEF Apart, Exclude, Together
<1>8. \A o \in Transactions : TxnFits(o, txn'[o], rows', counters', eventRows', sequence')
  BY <1>1, <1>2, <1>4, <1>5
<1>9. EventsFit(eventRows', txn', sequence') /\ sequence' \in Nat \ {0}
  BY <1>1, <1>6
<1> QED BY <1>2, <1>7, <1>8, <1>9 DEF PgInv

-----------------------------------------------------------------------------
(* The commit of each operation                                             *)

\* Counting a set with one element more, one less, or those of another set more.
LEMMA OneMore ==
  ASSUME NEW S, IsFiniteSet(S), NEW x, x \notin S
  PROVE  IsFiniteSet(S \cup {x}) /\ Cardinality(S \cup {x}) = Cardinality(S) + 1
BY FS_AddElement

LEMMA OneLess ==
  ASSUME NEW S, IsFiniteSet(S), NEW x \in S
  PROVE  /\ IsFiniteSet(S \ {x}) /\ Cardinality(S) \in Nat
         /\ Cardinality(S \ {x}) = Cardinality(S) - 1
BY FS_RemoveElement, FS_CardinalityType

LEMMA SomeMore ==
  ASSUME NEW S, IsFiniteSet(S), NEW T, IsFiniteSet(T), S \cap T = {}
  PROVE  IsFiniteSet(S \cup T) /\ Cardinality(S \cup T) = Cardinality(S) + Cardinality(T)
<1>1. /\ IsFiniteSet(S \cup T) /\ Cardinality(S) \in Nat /\ Cardinality(T) \in Nat
      /\ Cardinality(S \cup T) = Cardinality(S) + Cardinality(T) - Cardinality(S \cap T)
  BY FS_Union, FS_CardinalityType
<1>2. Cardinality(S \cap T) = 0
  BY FS_EmptySet
<1> QED BY <1>1, <1>2

\* The transaction after its commit, and what it brings to it.
LEMMA CommittedIs ==
  ASSUME PgInv, NEW r \in Transactions, Pg!Commit(r)
  PROVE  \E u : /\ txn' = [txn EXCEPT ![r] = u]
                /\ Becomes(u, txn[r], "done", <<>>, {}, txn[r].row, <<>>, <<>>, txn[r].seen)
<1>1. PICK t : t = txn[r]
  OBVIOUS
<1>2. IsTxn(t) /\ t.todo = <<>>
  BY <1>1 DEF PgInv, TxnFits, Pg!Commit
<1>3. PICK u : u = [t EXCEPT !.state = "done", !.locks = {}, !.noted = <<>>, !.counted = <<>>]
  OBVIOUS
<1>4. txn' = [txn EXCEPT ![r] = u]
  BY <1>1, <1>3 DEF Pg!Commit
<1>5. Becomes(u, t, "done", <<>>, {}, t.row, <<>>, <<>>, t.seen)
  BY <1>2, <1>3 DEF IsTxn, Becomes
<1> QED BY <1>1, <1>4, <1>5

LEMMA Ending ==
  ASSUME PgInv, NEW r \in Transactions, Pg!Commit(r)
  PROVE  /\ Under(r, txn[r], rows, counters, eventRows) /\ txn[r].state = "open" /\ txn[r].todo = <<>>
         /\ Pg!IsCall(txn[r].call) /\ TablesFit(rows, counters, eventRows) /\ EventsFit(eventRows, txn, sequence)
         /\ counters.records \in Nat /\ counters.audit \in Nat
         /\ Numbers(txn[r]) \subseteq Nat \ {0}
         /\ \A e \in eventRows : e.n \notin Numbers(txn[r]) /\ e.n \in Nat
<1>1. txn[r].state = "open" /\ txn[r].todo = <<>>
  BY DEF Pg!Commit
<1>2. /\ TxnFits(r, txn[r], rows, counters, eventRows, sequence) /\ sequence \in Nat \ {0}
      /\ TablesFit(rows, counters, eventRows) /\ EventsFit(eventRows, txn, sequence)
  BY DEF PgInv
<1>3. Under(r, txn[r], rows, counters, eventRows) /\ Pg!IsCall(txn[r].call)
  BY <1>1, <1>2, CallsKnown DEF TxnFits, Under
<1>4. Numbers(txn[r]) \subseteq Nat \ {0}
  BY <1>2 DEF TxnFits
<1>5. \A e \in eventRows : e.n \notin Numbers(txn[r]) /\ e.n \in Nat
  BY <1>2, NumbersSoFar DEF EventsFit
<1> QED BY <1>1, <1>2, <1>3, <1>4, <1>5, CountersAreNumbers

\* The one event of an operation.
LEMMA OneWritten ==
  ASSUME NEW r, Noted(txn[r]), txn[r].call.op # "import"
  PROVE  /\ ToSet(Pg!Written(r)) = {Pg!Written(r)[1]} /\ Pg!Written(r)[1].op = r
         /\ Pg!Written(r)[1].n = txn[r].noted[1].n /\ Pg!Written(r)[1].n \in Numbers(txn[r])
         /\ Pg!Written(r)[1].id = txn[r].call.id /\ Pg!Written(r)[1].kind = txn[r].call.op
         /\ Pg!Written(r)[1].took = (txn[r].call.op # "append" /\ txn[r].row # NoRecord)
         /\ (txn[r].row # NoRecord => Pg!Written(r)[1].rev = txn[r].row.rev)
<1>1. /\ DOMAIN txn[r].noted = {1} /\ txn[r].noted[1].id = txn[r].call.id
      /\ txn[r].noted[1].kind = txn[r].call.op
  BY DEF Noted
<1>2. txn[r].noted[1].n \in Numbers(txn[r])
  BY <1>1 DEF Numbers
<1>3. DOMAIN Pg!Written(r) = {1}
  BY <1>1 DEF Pg!Written
<1>4. ToSet(Pg!Written(r)) = {Pg!Written(r)[1]}
  BY <1>3 DEF ToSet
<1>5. Pg!Written(r)[1] =
        [op |-> r, n |-> txn[r].noted[1].n, id |-> txn[r].call.id, kind |-> txn[r].call.op,
         took |-> txn[r].call.op # "append" /\ txn[r].row # NoRecord,
         rev |-> IF txn[r].row = NoRecord THEN 0 ELSE txn[r].row.rev]
  BY <1>1 DEF Pg!Written
<1> QED BY <1>2, <1>4, <1>5

\* Evidence writes nothing.
LEMMA EvidenceCommits ==
  ASSUME PgInv, NEW r \in Transactions, Pg!Commit(r), txn[r].call.op = "evidence"
  PROVE  PgInv'
<1>1. PICK u : /\ txn' = [txn EXCEPT ![r] = u]
               /\ Becomes(u, txn[r], "done", <<>>, {}, txn[r].row, <<>>, <<>>, txn[r].seen)
  BY CommittedIs
<1>2. txn[r].noted = <<>> /\ CountLock \notin txn[r].locks
  BY Ending, AtEnd
<1>3. ToSet(Pg!Written(r)) = {}
  BY <1>2 DEF Pg!Written, ToSet
<1>4. rows' = rows /\ eventRows' = eventRows /\ counters' = counters /\ sequence' = sequence
  BY <1>2, <1>3, SameLibrary DEF Pg!Commit, Pg!RowsAfter, CountLock
<1>5. Writes(r, u, {}, {})
  BY <1>1, <1>4, FS_EmptySet DEF Writes, Pg!Numbered
<1>6. TablesFit(rows', counters', eventRows')
  BY <1>4, Ending
<1> QED BY <1>1, <1>5, <1>6, Ending, TablesChange

\* An event that leaves no state behind
LEMMA NoteCommits ==
  ASSUME PgInv, NEW r \in Transactions, Pg!Commit(r), txn[r].call.op \in {"delete", "append"},
         txn[r].locks = {CountLock}, Noted(txn[r]), Counted(txn[r], counters, 0, 1), txn[r].row = NoRecord
  PROVE  PgInv'
<1>1. PICK u : /\ txn' = [txn EXCEPT ![r] = u]
               /\ Becomes(u, txn[r], "done", <<>>, {}, txn[r].row, <<>>, <<>>, txn[r].seen)
  BY CommittedIs
<1>2. PICK e : e = Pg!Written(r)[1]
  OBVIOUS
<1>3. ToSet(Pg!Written(r)) = {e} /\ e.op = r /\ e.n \in Numbers(txn[r]) /\ e.took = FALSE
  BY <1>2, OneWritten
<1>4. rows' = rows /\ eventRows' = eventRows \cup {e} /\ counters' = txn[r].counted /\ sequence' = sequence
  BY <1>3, SameLibrary DEF Pg!Commit, Pg!RowsAfter, CountLock
<1>5. \A i : Pg!Took(eventRows', i) = Pg!Took(eventRows, i)
  BY <1>3, <1>4 DEF Pg!Took
<1>6. Writes(r, u, {e}, {})
  BY <1>1, <1>3, <1>4, <1>5, FS_Singleton DEF Writes, Pg!Numbered
<1>7. TablesFit(rows', counters', eventRows')
  <2>1. /\ DOMAIN rows = Ids /\ \A i \in Ids : IsRow(rows[i])
        /\ IsFiniteSet(Live(rows)) /\ counters = Counters(rows, eventRows) /\ IsFiniteSet(eventRows)
        /\ \A i \in Ids : Pg!IsLife(Pg!Took(eventRows, i), rows[i])
    BY Ending DEF TablesFit, EventsFit
  <2>2. e \notin eventRows
    BY <1>3, Ending
  <2>3. Cardinality(eventRows \cup {e}) = Cardinality(eventRows) + 1
    BY <2>1, <2>2, OneMore
  <2>4. txn[r].counted = [records |-> Cardinality(Live(rows)), audit |-> Cardinality(eventRows) + 1]
    BY <2>1, FS_CardinalityType DEF Counted, Counters
  <2> QED BY <1>4, <1>5, <2>1, <2>3, <2>4 DEF TablesFit, Counters
<1> QED BY <1>1, <1>6, <1>7, Ending, TablesChange

\* One of its locks is not only to read, and its count is of the rows as they will be.
Changes(r, m, next) ==
  /\ m # "share" /\ Pg!Lock(txn[r].call.id, m) \in txn[r].locks /\ CountLock \in txn[r].locks
  /\ rows' = [rows EXCEPT ![txn[r].call.id] = next] /\ IsRow(next)
  /\ Makes(Pg!Written(r)[1], rows[txn[r].call.id], next)
  /\ IsFiniteSet(Live(rows'))
  /\ txn[r].counted = [records |-> Cardinality(Live(rows')), audit |-> counters.audit + 1]

\* An event that takes a record from its row to the next
LEMMA ChangeCommits ==
  ASSUME PgInv, NEW r \in Transactions, Pg!Commit(r), txn[r].call.op \in {"create", "mutate", "delete"},
         Noted(txn[r]), IsLater(txn[r], eventRows), txn[r].row # NoRecord, NEW m, NEW next, Changes(r, m, next)
  PROVE  PgInv'
<1> DEFINE id == txn[r].call.id
<1>1. PICK u : /\ txn' = [txn EXCEPT ![r] = u]
               /\ Becomes(u, txn[r], "done", <<>>, {}, txn[r].row, <<>>, <<>>, txn[r].seen)
  BY CommittedIs
<1>2. PICK e : e = Pg!Written(r)[1]
  OBVIOUS
<1>3. /\ ToSet(Pg!Written(r)) = {e} /\ e.op = r /\ e.n \in Numbers(txn[r]) /\ e.took = TRUE
      /\ e.n = txn[r].noted[1].n /\ e.id = id
  BY <1>2, OneWritten
<1>4. eventRows' = eventRows \cup {e} /\ counters' = txn[r].counted /\ sequence' = sequence
  BY <1>3, SameLibrary DEF Pg!Commit, CountLock, Changes
<1>5. /\ Pg!Took(eventRows', id) = Pg!Took(eventRows, id) \cup {e}
      /\ \A i : i # id => Pg!Took(eventRows', i) = Pg!Took(eventRows, i)
  BY <1>3, <1>4 DEF Pg!Took
<1>6. /\ DOMAIN rows = Ids /\ (\A i \in Ids : IsRow(rows[i]) /\ Pg!IsLife(Pg!Took(eventRows, i), rows[i]))
      /\ counters = Counters(rows, eventRows) /\ IsFiniteSet(eventRows)
      /\ Pg!IsCall(txn[r].call)
  BY Ending DEF TablesFit, EventsFit
<1>7. id \in Ids
  BY <1>6 DEF Pg!IsCall
<1>8. rows'[id] = next /\ DOMAIN rows' = Ids /\ \A i \in Ids : i # id => rows'[i] = rows[i]
  BY <1>6, <1>7 DEF Changes
<1>9. Writes(r, u, {e}, {id})
  <2>1. IsFiniteSet({e}) /\ Pg!Numbered({e})
    BY FS_Singleton DEF Pg!Numbered
  <2> QED BY <1>1, <1>3, <1>4, <1>5, <1>8, <2>1 DEF Writes, Changes
<1>10. TablesFit(rows', counters', eventRows')
  <2>1. e \notin eventRows
    BY <1>3, Ending
  <2>2. Cardinality(eventRows \cup {e}) = Cardinality(eventRows) + 1
    BY <1>6, <2>1, OneMore
  <2>3. counters.audit = Cardinality(eventRows)
    BY <1>6 DEF Counters
  <2>4. counters' = Counters(rows', eventRows')
    BY <1>4, <2>2, <2>3 DEF Counters, Changes
  <2>5. Pg!IsLife(Pg!Took(eventRows, id) \cup {e}, next)
    <3>1. Numeric(Pg!Took(eventRows, id)) /\ e.n \in Nat
      BY <1>3, Ending DEF Numeric, Pg!Took
    <3>2. Before(Pg!Took(eventRows, id), {e})
      BY <1>3 DEF IsLater, Before
    <3> QED BY <1>2, <1>6, <1>7, <3>1, <3>2, LifeGoesOn DEF Changes
  <2>6. \A i \in Ids : IsRow(rows'[i]) /\ Pg!IsLife(Pg!Took(eventRows', i), rows'[i])
    BY <1>5, <1>6, <1>8, <2>5 DEF Changes
  <2> QED BY <1>8, <2>4, <2>6 DEF TablesFit, Changes
<1> QED BY <1>1, <1>9, <1>10, Ending, TablesChange

\* A creation begins a life, a mutation and a deletion go on with it.
LEMMA CreateCommits ==
  ASSUME PgInv, NEW r \in Transactions, Pg!Commit(r), txn[r].call.op = "create",
         txn[r].locks = {Inserts(txn[r]), CountLock}, Noted(txn[r]), IsLater(txn[r], eventRows),
         Counted(txn[r], counters, 1, 1), rows[txn[r].call.id] = NoRecord, txn[r].row = [rev |-> 0, by |-> r]
  PROVE  PgInv'
<1> DEFINE id  == txn[r].call.id
           row == txn[r].row
<1>1. id \in Ids /\ DOMAIN rows = Ids /\ IsFiniteSet(Live(rows)) /\ counters = Counters(rows, eventRows)
  BY Ending DEF Pg!IsCall, TablesFit
<1>2. row \in [rev : Nat, by : Nat] /\ row # NoRecord
  BY PgBounds DEF Pg!PgRecordsAssumption
<1>3. rows' = [rows EXCEPT ![id] = row]
  BY SameLibrary DEF Pg!Commit, Pg!RowsAfter
<1>4. Live(rows') = Live(rows) \cup {id} /\ id \notin Live(rows)
  BY <1>1, <1>2, <1>3 DEF Live
<1>5. IsFiniteSet(Live(rows')) /\ Cardinality(Live(rows')) = Cardinality(Live(rows)) + 1
  <2>1. /\ IsFiniteSet(Live(rows) \cup {id})
        /\ Cardinality(Live(rows) \cup {id}) = Cardinality(Live(rows)) + 1
    BY <1>1, <1>4, OneMore
  <2> QED BY <1>4, <2>1
<1>6. Makes(Pg!Written(r)[1], rows[id], row)
  BY <1>2, OneWritten DEF Makes
<1>7. Pg!Lock(id, "insert") \in txn[r].locks /\ CountLock \in txn[r].locks
  BY DEF Inserts
<1>8. txn[r].counted = [records |-> Cardinality(Live(rows')), audit |-> counters.audit + 1]
  BY <1>1, <1>5 DEF Counted, Counters
<1>9. IsRow(row)
  BY <1>2 DEF IsRow
<1>10. Changes(r, "insert", row)
  BY <1>3, <1>5, <1>6, <1>7, <1>8, <1>9 DEF Changes
<1> QED BY <1>2, <1>10, ChangeCommits

LEMMA MutateCommits ==
  ASSUME PgInv, NEW r \in Transactions, Pg!Commit(r), txn[r].call.op = "mutate",
         txn[r].locks = {Updates(txn[r]), CountLock}, Noted(txn[r]), IsLater(txn[r], eventRows),
         Counted(txn[r], counters, 0, 1), rows[txn[r].call.id] # NoRecord,
         txn[r].row = [rev |-> rows[txn[r].call.id].rev + 1, by |-> r]
  PROVE  PgInv'
<1> DEFINE id  == txn[r].call.id
           row == txn[r].row
<1>1. /\ id \in Ids /\ DOMAIN rows = Ids /\ IsFiniteSet(Live(rows)) /\ counters = Counters(rows, eventRows)
      /\ IsRow(rows[id])
  BY Ending DEF Pg!IsCall, TablesFit
<1>2. row \in [rev : Nat, by : Nat] /\ row # NoRecord /\ row.rev = rows[id].rev + 1
  BY <1>1, PgBounds DEF Pg!PgRecordsAssumption, IsRow
<1>3. rows' = [rows EXCEPT ![id] = row]
  BY SameLibrary DEF Pg!Commit, Pg!RowsAfter
<1>4. Live(rows') = Live(rows)
  BY <1>1, <1>2, <1>3 DEF Live
<1>5. IsFiniteSet(Live(rows')) /\ Cardinality(Live(rows')) = Cardinality(Live(rows)) + 0
  BY <1>1, <1>4, FS_CardinalityType
<1>6. Makes(Pg!Written(r)[1], rows[id], row)
  BY <1>2, OneWritten DEF Makes
<1>7. Pg!Lock(id, "update") \in txn[r].locks /\ CountLock \in txn[r].locks
  BY DEF Updates
<1>8. txn[r].counted = [records |-> Cardinality(Live(rows')), audit |-> counters.audit + 1]
  BY <1>1, <1>5 DEF Counted, Counters
<1>9. IsRow(row)
  BY <1>2 DEF IsRow
<1>10. Changes(r, "update", row)
  BY <1>3, <1>5, <1>6, <1>7, <1>8, <1>9 DEF Changes
<1> QED BY <1>2, <1>10, ChangeCommits

LEMMA DeleteCommits ==
  ASSUME PgInv, NEW r \in Transactions, Pg!Commit(r), txn[r].call.op = "delete",
         txn[r].locks = {Deletes(txn[r]), CountLock}, Noted(txn[r]), IsLater(txn[r], eventRows),
         Counted(txn[r], counters, -1, 1), rows[txn[r].call.id] # NoRecord,
         txn[r].row = rows[txn[r].call.id]
  PROVE  PgInv'
<1> DEFINE id  == txn[r].call.id
<1>1. id \in Ids /\ DOMAIN rows = Ids /\ IsFiniteSet(Live(rows)) /\ counters = Counters(rows, eventRows)
  BY Ending DEF Pg!IsCall, TablesFit
<1>3. rows' = [rows EXCEPT ![id] = NoRecord]
  BY SameLibrary DEF Pg!Commit, Pg!RowsAfter
<1>4. Live(rows') = Live(rows) \ {id} /\ id \in Live(rows)
  BY <1>1, <1>3 DEF Live
<1>5. IsFiniteSet(Live(rows')) /\ Cardinality(Live(rows')) = Cardinality(Live(rows)) + (-1)
  <2>1. /\ IsFiniteSet(Live(rows) \ {id}) /\ Cardinality(Live(rows)) \in Nat
        /\ Cardinality(Live(rows) \ {id}) = Cardinality(Live(rows)) - 1
    BY <1>1, <1>4, OneLess
  <2>2. Cardinality(Live(rows)) - 1 = Cardinality(Live(rows)) + (-1)
    BY <2>1
  <2> QED BY <1>4, <2>1, <2>2
<1>6. Makes(Pg!Written(r)[1], rows[id], NoRecord)
  BY OneWritten DEF Makes
<1>7. Pg!Lock(id, "delete") \in txn[r].locks /\ CountLock \in txn[r].locks
  BY DEF Deletes
<1>8. txn[r].counted = [records |-> Cardinality(Live(rows')), audit |-> counters.audit + 1]
  BY <1>1, <1>5 DEF Counted, Counters
<1>9. IsRow(NoRecord)
  BY DEF IsRow
<1>10. Changes(r, "delete", NoRecord)
  BY <1>3, <1>5, <1>6, <1>7, <1>8, <1>9 DEF Changes
<1> QED BY <1>10, ChangeCommits

\* The events of a snapshot, as an import writes them.
IsBrought(r, k) ==
  /\ Pg!Written(r)[k].op = r /\ Pg!Written(r)[k].n = txn[r].noted[1].n + k - 1
  /\ Pg!Written(r)[k].id = txn[r].call.events[k].id
  /\ Pg!Written(r)[k].kind = txn[r].call.events[k].kind
  /\ Pg!Written(r)[k].rev = txn[r].call.events[k].rev
  /\ Pg!Written(r)[k].took = Pg!LeavesState(txn[r].call.events[k])
  /\ Pg!Written(r)[k].n \in Numbers(txn[r])

\* The history of a snapshot, as its import writes it.
LEMMA BroughtWritten ==
  ASSUME NEW r, NEW E, txn[r].call.op = "import", Pg!IsSnapshot(txn[r].call), Historic(txn[r], E)
  PROVE  /\ DOMAIN Pg!Written(r) = 1 .. Len(txn[r].call.events) /\ Len(txn[r].call.events) \in Nat
         /\ \A k \in 1 .. Len(txn[r].call.events) : IsBrought(r, k)
<1> DEFINE b == txn[r].call.events
           first == txn[r].noted[1].n
           w == Pg!Written(r)
<1>1. txn[r].noted = [k \in DOMAIN b |-> [n |-> first + k - 1, id |-> b[k].id, kind |-> b[k].kind]]
  BY DEF Historic
<1>2. DOMAIN b = 1 .. Len(b) /\ Len(b) \in Nat
  BY DEF Pg!IsSnapshot
<1> HIDE DEF first
<1>3. /\ DOMAIN txn[r].noted = 1 .. Len(b)
      /\ \A k \in 1 .. Len(b) : /\ txn[r].noted[k].n = first + k - 1 /\ txn[r].noted[k].id = b[k].id
                                /\ txn[r].noted[k].kind = b[k].kind
  BY <1>1, <1>2
<1>4. DOMAIN w = 1 .. Len(b)
  BY <1>3 DEF Pg!Written
<1>5. ASSUME NEW k \in 1 .. Len(b)
      PROVE  w[k] = [op |-> r, n |-> txn[r].noted[k].n, id |-> txn[r].noted[k].id,
                     kind |-> txn[r].noted[k].kind, took |-> Pg!LeavesState(txn[r].noted[k]),
                     rev |-> b[k].rev]
  BY <1>3, <1>5 DEF Pg!Written
<1>6. ASSUME NEW k \in 1 .. Len(b) PROVE IsBrought(r, k)
  <2>1. Pg!LeavesState(txn[r].noted[k]) = Pg!LeavesState(b[k])
    BY <1>3 DEF Pg!LeavesState
  <2>2. w[k] = [op |-> r, n |-> first + k - 1, id |-> b[k].id, kind |-> b[k].kind,
                took |-> Pg!LeavesState(b[k]), rev |-> b[k].rev]
    BY <1>3, <1>5, <2>1
  <2>3. txn[r].noted[k].n \in Numbers(txn[r]) /\ txn[r].noted[k].n = first + k - 1
    BY <1>3 DEF Numbers
  <2> HIDE DEF w, b
  <2>4. /\ w[k].op = r /\ w[k].n = first + k - 1 /\ w[k].id = b[k].id /\ w[k].kind = b[k].kind
        /\ w[k].rev = b[k].rev /\ w[k].took = Pg!LeavesState(b[k]) /\ w[k].n \in Numbers(txn[r])
    BY <2>2, <2>3
  <2> QED BY <2>4 DEF IsBrought, w, b, first
<1> QED BY <1>2, <1>4, <1>6

\* An import begins and goes on with every life of its snapshot, in tables that were empty.
LEMMA ImportCommits ==
  ASSUME PgInv, NEW r \in Transactions, Pg!Commit(r), txn[r].call.op = "import",
         txn[r].locks = {ImportLock, CountLock} \cup Loads(txn[r].call),
         Counted(txn[r], counters, Cardinality(DOMAIN txn[r].call.rows), Len(txn[r].call.events)),
         Historic(txn[r], eventRows), IsFirst(txn[r].call, eventRows),
         \A i \in DOMAIN txn[r].call.rows : rows[i] = NoRecord
  PROVE  PgInv'
<1> DEFINE c == txn[r].call
           first == txn[r].noted[1].n
           w == Pg!Written(r)
           W == ToSet(Pg!Written(r))
           len == Len(c.events)
           X == DOMAIN c.rows \cup Pg!Removed(c)
<1>1. PICK u : /\ txn' = [txn EXCEPT ![r] = u]
               /\ Becomes(u, txn[r], "done", <<>>, {}, txn[r].row, <<>>, <<>>, txn[r].seen)
  BY CommittedIs
<1>2. Pg!IsSnapshot(c)
  BY Ending DEF Pg!IsCall
<1>3. DOMAIN c.rows \subseteq Ids /\ IsFiniteSet(DOMAIN c.rows) /\ DOMAIN c.events = 1 .. len
  BY <1>2, SameLibrary DEF Pg!IsSnapshot
<1>4. /\ DOMAIN w = 1 .. len /\ len \in Nat
      /\ \A k \in 1 .. len :
           /\ w[k].op = r /\ w[k].n = first + k - 1 /\ w[k].id = c.events[k].id
           /\ w[k].kind = c.events[k].kind /\ w[k].rev = c.events[k].rev
           /\ w[k].took = Pg!LeavesState(c.events[k]) /\ w[k].n \in Numbers(txn[r])
  <2>1. Historic(txn[r], eventRows) /\ Pg!IsSnapshot(txn[r].call) /\ txn[r].call.op = "import"
    BY <1>2
  <2>2. /\ DOMAIN Pg!Written(r) = 1 .. Len(txn[r].call.events) /\ Len(txn[r].call.events) \in Nat
        /\ \A k \in 1 .. Len(txn[r].call.events) : IsBrought(r, k)
    BY <2>1, BroughtWritten
  <2> QED BY <2>2 DEF IsBrought
<1>5. W = {w[k] : k \in 1 .. len}
  BY <1>4 DEF ToSet
<1>6. /\ counters' = txn[r].counted /\ eventRows' = eventRows \cup W /\ sequence' = sequence
      /\ rows' = [i \in Ids |-> IF i \in DOMAIN c.rows THEN [rev |-> c.rows[i], by |-> r] ELSE rows[i]]
  BY SameLibrary DEF Pg!Commit, Pg!RowsAfter, CountLock
<1>7. /\ DOMAIN rows = Ids /\ (\A i \in Ids : IsRow(rows[i]) /\ Pg!IsLife(Pg!Took(eventRows, i), rows[i]))
      /\ IsFiniteSet(Live(rows)) /\ counters = Counters(rows, eventRows) /\ IsFiniteSet(eventRows)
  BY Ending DEF TablesFit, EventsFit
<1> HIDE DEF c, first, w, W, len
<1>8. len # 0 => first \in Nat /\ first # 0
  <2>1. len # 0 => w[1].n \in Numbers(txn[r]) /\ 1 \in DOMAIN txn[r].noted
    <3>1. 1 .. len = DOMAIN txn[r].noted
      BY <1>3 DEF Historic, c
    <3> QED BY <1>4, <3>1
  <2>2. len # 0 => first \in Numbers(txn[r])
    BY <2>1 DEF Numbers, first
  <2> QED BY <2>2, Ending
<1>9. \A j, k \in 1 .. len : w[j].n = w[k].n => j = k
  BY <1>4, <1>8
<1>10. IsFiniteSet(W) /\ Cardinality(W) = len
  <2>1. w \in [1 .. len -> W]
    BY <1>4, <1>5 DEF w, Pg!Written
  <2>2. w \in Surjection(1 .. len, W)
    BY <1>5, <2>1 DEF Surjection
  <2>3. w \in Injection(1 .. len, W)
    <3>1. \A j, k \in 1 .. len : w[j] = w[k] => j = k
      BY <1>9
    <3> QED BY <2>1, <3>1 DEF Injection, IsInjective
  <2>4. IsFiniteSet(1 .. len) /\ Cardinality(1 .. len) = len
    BY <1>4, FS_Interval
  <2> QED BY <2>2, <2>3, <2>4, FS_Surjection, SMTT(30)
<1>11. Pg!Numbered(W) /\ \A e \in W : e.op = r /\ e.n \in Numbers(txn[r])
  BY <1>4, <1>5, <1>9 DEF Pg!Numbered
<1>12. \A i : Pg!Took(eventRows', i) = Pg!Took(eventRows, i) \cup Pg!Took(W, i)
  BY <1>6 DEF Pg!Took
<1>13. ASSUME NEW i \in Ids, i \notin X PROVE Pg!Took(W, i) = {} /\ rows'[i] = rows[i]
  <2>1. Pg!LifeBrought(c, i) = {}
    BY <1>13 DEF Pg!Removed
  <2>2. \A k \in 1 .. len : ~(c.events[k].id = i /\ Pg!LeavesState(c.events[k]))
    BY <1>3, <2>1 DEF Pg!LifeBrought
  <2>3. Pg!Took(W, i) = {}
    BY <1>4, <1>5, <2>2 DEF Pg!Took
  <2> QED BY <1>6, <1>13, <2>3
<1>14. ASSUME NEW i \in X, NEW row, NEW next, Pg!IsLife(Pg!LifeBrought(c, i), row),
              row = NoRecord <=> next = NoRecord, row # NoRecord => next.rev = row.rev, Pg!LifeBrought(c, i) # {}
       PROVE  Pg!IsLife(Pg!Took(W, i), next)
  <2> DEFINE life == Pg!LifeBrought(c, i)
             f == [a \in life |-> w[a.n]]
  <2>1. \A a \in life : /\ a.n \in 1 .. len /\ a.kind = c.events[a.n].kind /\ a.rev = c.events[a.n].rev
                        /\ c.events[a.n].id = i /\ Pg!LeavesState(c.events[a.n])
    BY <1>3 DEF Pg!LifeBrought
  <2>2. ASSUME NEW k \in 1 .. len, c.events[k].id = i, Pg!LeavesState(c.events[k])
        PROVE  \E a \in life : a.n = k
    <3>1. [n |-> k, kind |-> c.events[k].kind, rev |-> c.events[k].rev] \in life
      BY <1>3, <2>2 DEF Pg!LifeBrought
    <3> QED BY <3>1
  <2>3. len # 0 /\ first \in Nat
    BY <1>4, <1>8, <1>14, <2>1
  <2> HIDE DEF life
  <2>4. Pg!Took(W, i) = {f[a] : a \in life}
    <3>1. ASSUME NEW e \in Pg!Took(W, i) PROVE \E a \in life : e = f[a]
      <4>1. e \in W /\ e.id = i /\ e.took
        BY DEF Pg!Took
      <4>2. PICK k \in 1 .. len : e = w[k]
        BY <1>5, <4>1
      <4>3. c.events[k].id = i /\ Pg!LeavesState(c.events[k])
        BY <1>4, <4>1, <4>2
      <4>4. PICK a \in life : a.n = k
        BY <2>2, <4>3
      <4> QED BY <4>2, <4>4
    <3>2. \A a \in life : f[a] \in Pg!Took(W, i)
      BY <1>4, <1>5, <2>1 DEF Pg!Took
    <3> QED BY <3>1, <3>2
  <2>5. Shifted(life, Pg!Took(W, i), f, first - 1)
    <3>1. \A a \in life : f[a].n = a.n + (first - 1) /\ f[a].kind = a.kind /\ f[a].rev = a.rev
      BY <1>4, <2>1, <2>3
    <3> QED BY <2>4, <3>1 DEF Shifted
  <2>6. Numeric(life) /\ first - 1 \in Int
    BY <2>1, <2>3 DEF Numeric
  <2>7. Pg!IsLife(life, row)
    BY <1>14 DEF life
  <2> QED BY <1>14, <2>5, <2>6, <2>7, LifeShifts
<1>15. \A i \in X : Pg!LifeBrought(c, i) # {}
  <2>1. ASSUME NEW i \in DOMAIN c.rows PROVE Pg!LifeBrought(c, i) # {}
    <3>1. Pg!IsLife(Pg!LifeBrought(c, i), [rev |-> c.rows[i], by |-> 0]) /\ c.rows[i] \in Nat
      BY <1>2, SameLibrary DEF Pg!IsSnapshot
    <3>2. [rev |-> c.rows[i], by |-> 0] # NoRecord
      BY <3>1, PgBounds DEF Pg!PgRecordsAssumption
    <3> QED BY <3>1, <3>2 DEF Pg!IsLife
  <2> QED BY <2>1 DEF Pg!Removed
<1>16. ASSUME NEW i \in DOMAIN c.rows
       PROVE  /\ rows'[i] \in [rev : Nat, by : Nat] /\ rows'[i] # NoRecord
              /\ Pg!IsLife(Pg!Took(eventRows', i), rows'[i])
  <2>1. rows'[i] = [rev |-> c.rows[i], by |-> r] /\ rows[i] = NoRecord /\ c.rows[i] \in Nat /\ i \in Ids
    BY <1>2, <1>3, <1>6 DEF Pg!IsSnapshot, c
  <2>2. rows'[i] \in [rev : Nat, by : Nat] /\ rows'[i] # NoRecord /\ rows'[i].rev = c.rows[i]
    BY <2>1, PgBounds DEF Pg!PgRecordsAssumption
  <2>3. [rev |-> c.rows[i], by |-> 0] # NoRecord /\ [rev |-> c.rows[i], by |-> 0].rev = c.rows[i]
    BY <2>1, PgBounds DEF Pg!PgRecordsAssumption
  <2>4. Pg!IsLife(Pg!LifeBrought(c, i), [rev |-> c.rows[i], by |-> 0])
    BY <1>2, SameLibrary DEF Pg!IsSnapshot
  <2>5. Pg!IsLife(Pg!Took(W, i), rows'[i])
    BY <1>14, <1>15, <2>2, <2>3, <2>4
  <2>6. Pg!IsLife(Pg!Took(eventRows, i), NoRecord)
    BY <1>7, <2>1
  <2>7. Numeric(Pg!Took(eventRows, i)) /\ Numeric(Pg!Took(W, i))
    <3>1. \A e \in eventRows \cup W : e.n \in Nat
      BY <1>11, Ending
    <3> QED BY <3>1 DEF Numeric, Pg!Took
  <2>8. Before(Pg!Took(eventRows, i), Pg!Took(W, i))
    <3>1. \A e \in Pg!Took(eventRows, i) : e.n \in Nat /\ e.n < first
      BY <2>7 DEF Historic, Numeric, c, first
    <3>2. \A e \in Pg!Took(W, i) : e.n \in Nat /\ first <= e.n
      BY <1>4, <1>5, <1>8, <2>7 DEF Pg!Took
    <3>3. len # 0 => first \in Nat
      BY <1>8
    <3>4. Pg!Took(W, i) = {} \/ len # 0
      BY <1>4, <1>5 DEF Pg!Took
    <3> QED BY <3>1, <3>2, <3>3, <3>4 DEF Before
  <2>9. Pg!IsLife(Pg!Took(eventRows, i) \cup Pg!Took(W, i), rows'[i])
    BY <2>5, <2>6, <2>7, <2>8, LivesJoin
  <2> QED BY <1>12, <2>2, <2>9
<1>17. ASSUME NEW i \in Pg!Removed(c)
       PROVE  i \in Ids /\ rows'[i] = rows[i] /\ Pg!IsLife(Pg!Took(eventRows', i), rows'[i])
  <2>1. i \in Ids /\ i \notin DOMAIN c.rows /\ Pg!IsLife(Pg!LifeBrought(c, i), NoRecord)
    BY <1>2 DEF Pg!Removed, Pg!IsSnapshot
  <2>2. Pg!Took(eventRows, i) = {}
    BY DEF IsFirst, c
  <2>3. rows[i] = NoRecord
    BY <1>7, <2>1, <2>2 DEF Pg!IsLife
  <2>4. Pg!IsLife(Pg!Took(W, i), NoRecord)
    BY <1>14, <1>15, <2>1
  <2>5. Pg!Took(eventRows', i) = Pg!Took(W, i)
    BY <1>12, <2>2
  <2> QED BY <1>6, <2>1, <2>3, <2>4, <2>5
<1>18. ASSUME NEW i \in Ids PROVE IsRow(rows'[i]) /\ Pg!IsLife(Pg!Took(eventRows', i), rows'[i])
  <2>1. CASE i \in DOMAIN c.rows
    BY <1>16, <2>1 DEF IsRow
  <2>2. CASE i \in Pg!Removed(c)
    BY <1>7, <1>17, <2>2
  <2>3. CASE i \notin X
    <3>1. Pg!Took(W, i) = {} /\ rows'[i] = rows[i]
      BY <1>13, <2>3
    <3>2. Pg!Took(eventRows', i) = Pg!Took(eventRows, i)
      BY <1>12, <3>1
    <3>3. IsRow(rows[i]) /\ Pg!IsLife(Pg!Took(eventRows, i), rows[i])
      BY <1>7
    <3> QED BY <3>1, <3>2, <3>3
  <2> QED BY <2>1, <2>2, <2>3
<1>19. IsFiniteSet(Live(rows')) /\ Cardinality(Live(rows')) = Cardinality(Live(rows)) + Cardinality(DOMAIN c.rows)
  <2>1. Live(rows') = Live(rows) \cup DOMAIN c.rows
    BY <1>3, <1>6, <1>16 DEF Live
  <2>2. Live(rows) \cap DOMAIN c.rows = {}
    BY DEF Live, c
  <2>3. /\ IsFiniteSet(Live(rows) \cup DOMAIN c.rows)
        /\ Cardinality(Live(rows) \cup DOMAIN c.rows) = Cardinality(Live(rows)) + Cardinality(DOMAIN c.rows)
    BY <1>3, <1>7, <2>2, SomeMore
  <2> QED BY <2>1, <2>2, <2>3
<1>20. Cardinality(eventRows') = Cardinality(eventRows) + len
  <2>1. eventRows \cap W = {}
    BY <1>11, Ending
  <2>2. Cardinality(eventRows \cup W) = Cardinality(eventRows) + Cardinality(W)
    BY <1>7, <1>10, <2>1, SomeMore
  <2> QED BY <1>6, <1>10, <2>2
<1>21. counters' = Counters(rows', eventRows')
  <2>1. txn[r].counted = [records |-> counters.records + Cardinality(DOMAIN c.rows), audit |-> counters.audit + len]
    BY DEF Counted, c, len
  <2> QED BY <1>6, <1>7, <1>19, <1>20, <2>1 DEF Counters
<1>22. TablesFit(rows', counters', eventRows')
  <2>1. DOMAIN rows' = Ids
    BY <1>6
  <2> QED BY <1>18, <1>19, <1>21, <2>1 DEF TablesFit
<1>23. Writes(r, u, W, X)
  <2>1. \A i \in Ids : i \notin X => rows'[i] = rows[i] /\ Pg!Took(eventRows', i) = Pg!Took(eventRows, i)
    BY <1>12, <1>13
  <2>2. ImportLock \in txn[r].locks /\ CountLock \in txn[r].locks /\ \A i \in DOMAIN c.rows : Pg!Lock(i, "insert") \in txn[r].locks
    BY DEF Loads, c
  <2>3. \A i \in X : \/ \E m : m # "share" /\ Pg!Lock(i, m) \in txn[r].locks
                     \/ txn[r].call.op = "import" /\ i \in Pg!Removed(txn[r].call)
    <3>1. "insert" # "share"
      OBVIOUS
    <3> QED BY <2>2, <3>1 DEF c
  <2> QED BY <1>1, <1>6, <1>10, <1>11, <2>1, <2>2, <2>3 DEF Writes
<1> QED BY <1>1, <1>22, <1>23, Ending, TablesChange

\* Every commit is one of these.
LEMMA CommitFits ==
  ASSUME PgInv, NEW r \in Transactions, Pg!Commit(r)
  PROVE  PgInv'
<1> DEFINE t == txn[r]
<1>1. \/ /\ t.call.op = "create" /\ t.locks = {Inserts(t), CountLock} /\ Noted(t) /\ IsLater(t, eventRows)
         /\ Counted(t, counters, 1, 1) /\ rows[t.call.id] = NoRecord /\ t.row = [rev |-> 0, by |-> r]
      \/ /\ t.call.op = "mutate" /\ t.locks = {Updates(t), CountLock} /\ Noted(t) /\ IsLater(t, eventRows)
         /\ Counted(t, counters, 0, 1)
         /\ rows[t.call.id] # NoRecord /\ t.row = [rev |-> rows[t.call.id].rev + 1, by |-> r]
      \/ /\ t.call.op = "delete" /\ t.locks = {Deletes(t), CountLock} /\ Noted(t) /\ IsLater(t, eventRows)
         /\ Counted(t, counters, -1, 1) /\ rows[t.call.id] # NoRecord /\ t.row = rows[t.call.id]
      \/ /\ t.call.op \in {"delete", "append"} /\ t.locks = {CountLock} /\ Noted(t)
         /\ Counted(t, counters, 0, 1) /\ t.row = NoRecord
      \/ t.call.op = "evidence" /\ t.noted = <<>> /\ CountLock \notin t.locks
      \/ /\ t.call.op = "import" /\ t.locks = {ImportLock, CountLock} \cup Loads(t.call)
         /\ Counted(t, counters, Cardinality(DOMAIN t.call.rows), Len(t.call.events))
         /\ Historic(t, eventRows) /\ IsFirst(t.call, eventRows) /\ \A i \in DOMAIN t.call.rows : rows[i] = NoRecord
  <2>1. Under(r, txn[r], rows, counters, eventRows) /\ txn[r].todo = <<>>
    BY Ending
  <2> QED BY <2>1, AtEnd, SMTT(60)
<1> QED
  BY <1>1, CreateCommits, MutateCommits, DeleteCommits, NoteCommits, EvidenceCommits, ImportCommits

-----------------------------------------------------------------------------
(* The invariant                                                            *)

\* A transaction that has not begun, and the tables at the start.
LEMMA IdleTxnFits ==
  ASSUME NEW r, NEW R, NEW C, NEW E, NEW s
  PROVE  TxnFits(r, Pg!Idle, R, C, E, s) /\ Pg!Idle.locks = {} /\ Numbers(Pg!Idle) = {} /\ Pg!Idle.call.op = "none"
         /\ Pg!Idle.state = "idle"
<1>1. /\ Pg!Idle.state = "idle" /\ Pg!Idle.locks = {} /\ Pg!Idle.noted = <<>> /\ Pg!Idle.row = NoRecord
      /\ Pg!Idle.call.op = "none" /\ IsTxn(Pg!Idle)
  BY DEF Pg!Idle, Pg!NoCall, IsTxn
<1>2. Numbers(Pg!Idle) = {}
  BY <1>1, NoNumbers
<1> QED BY <1>1, <1>2 DEF TxnFits

LEMMA StartFits ==
  ASSUME Pg!Init
  PROVE  PgInv
<1>1. /\ DOMAIN txn = Transactions
      /\ \A r \in Transactions : txn[r] = Pg!Idle
  BY DEF Pg!Init
<1>2. /\ \A r \in Transactions : TxnFits(r, txn[r], rows, counters, eventRows, sequence)
      /\ \A r \in Transactions : /\ txn[r].locks = {} /\ Numbers(txn[r]) = {} /\ txn[r].call.op = "none"
                             /\ txn[r].state = "idle"
  BY <1>1, IdleTxnFits
<1>3. \A r, o \in Transactions : r # o => Apart(txn[r], txn[o])
  BY <1>2 DEF Apart, Exclude, Together
<1>4. \A o : ~IsImport(txn, o)
  BY <1>2 DEF IsImport
<1>5. CASE /\ rows = [i \in Ids |-> NoRecord] /\ eventRows = {}
           /\ counters = [records |-> 0, audit |-> 0] /\ sequence = 1
  <2>1. IsFiniteSet({}) /\ Cardinality({}) = 0
    BY FS_EmptySet
  <2>2. Live(rows) = {}
    BY <1>5 DEF Live
  <2>3. \A i \in Ids : rows[i] = NoRecord /\ IsRow(rows[i]) /\ Pg!Took(eventRows, i) = {}
    BY <1>5 DEF IsRow, Pg!Took
  <2>4. Pg!IsLife({}, NoRecord)
    BY DEF Pg!IsLife, Pg!Numbered, Pg!Begins, Pg!GoesOn
  <2>5. TablesFit(rows, counters, eventRows)
    BY <1>5, <2>1, <2>2, <2>3, <2>4 DEF TablesFit, Counters
  <2>6. EventsFit(eventRows, txn, sequence)
    BY <1>5, <2>1 DEF EventsFit, Pg!Numbered
  <2> QED BY <1>1, <1>2, <1>3, <1>5, <2>5, <2>6 DEF PgInv
<1>6. ASSUME NEW i \in Ids, NEW made,
             made = [op |-> Pg!Seed, n |-> 1, id |-> i, kind |-> "create", took |-> TRUE, rev |-> 0],
             rows = [[j \in Ids |-> NoRecord] EXCEPT ![i] = [rev |-> 0, by |-> Pg!Seed]],
             eventRows = {made}, counters = [records |-> 1, audit |-> 1], sequence = 2
      PROVE  PgInv
  <2>1. \A x : IsFiniteSet({x}) /\ Cardinality({x}) = 1
    BY FS_Singleton
  <2>2. Pg!Seed \in Nat /\ Pg!Seed \notin Transactions
    BY PgBounds, SameLibrary, FS_CardinalityType DEF Pg!PgRecordsAssumption, Pg!Seed
  <2>3. /\ DOMAIN rows = Ids /\ rows[i] = [rev |-> 0, by |-> Pg!Seed] /\ \A j \in Ids : j # i => rows[j] = NoRecord
    BY <1>6
  <2>4. rows[i] \in [rev : Nat, by : Nat] /\ rows[i] # NoRecord /\ rows[i].rev = 0
    BY <2>2, <2>3, PgBounds DEF Pg!PgRecordsAssumption
  <2>5. Live(rows) = {i}
    BY <2>3, <2>4 DEF Live
  <2> HIDE DEF Pg!Seed
  <2>6. /\ made.op = Pg!Seed /\ made.n = 1 /\ made.id = i /\ made.kind = "create" /\ made.took = TRUE /\ made.rev = 0
    BY <1>6
  <2>7. Pg!Took(eventRows, i) = {made} /\ \A j : j # i => Pg!Took(eventRows, j) = {}
    BY <1>6, <2>6 DEF Pg!Took
  <2>8. Pg!IsLife({made}, rows[i]) /\ Pg!IsLife({}, NoRecord)
    BY <2>4, <2>6 DEF Pg!IsLife, Pg!Numbered, Pg!Begins, Pg!GoesOn, Pg!EndsAt
  <2>9. eventRows = {made} /\ counters = [records |-> 1, audit |-> 1] /\ sequence = 2
    BY <1>6
  <2>10. counters = Counters(rows, eventRows) /\ IsFiniteSet(Live(rows)) /\ IsFiniteSet(eventRows)
    BY <2>1, <2>5, <2>9 DEF Counters
  <2>11. ASSUME NEW j \in Ids PROVE IsRow(rows[j]) /\ Pg!IsLife(Pg!Took(eventRows, j), rows[j])
    BY <2>3, <2>4, <2>7, <2>8 DEF IsRow
  <2>12. TablesFit(rows, counters, eventRows)
    BY <2>3, <2>10, <2>11 DEF TablesFit
  <2>13. EventsFit(eventRows, txn, sequence)
    <3>1. Pg!Numbered({made})
      BY DEF Pg!Numbered
    <3>2. \A e \in eventRows : e.n \in 1 .. sequence - 1 /\ e.op \notin Transactions
      BY <2>2, <2>6, <2>9
    <3>3. \A r \in Transactions, e \in eventRows : e.n \notin Numbers(txn[r])
      BY <1>2
    <3> QED BY <1>4, <2>9, <2>10, <3>1, <3>2, <3>3 DEF EventsFit
  <2> QED BY <1>1, <1>2, <1>3, <2>9, <2>12, <2>13 DEF PgInv
<1> QED BY <1>5, <1>6 DEF Pg!Init

\* Every step of every transaction.
LEMMA StepFits ==
  ASSUME PgInv, [Pg!Next]_tableVars
  PROVE  PgInv'
<1>1. CASE UNCHANGED tableVars
  BY <1>1 DEF tableVars, PgInv
<1>2. ASSUME NEW r \in Transactions,
             \/ Pg!Begin(r) \/ Pg!InsertRow(r) \/ Pg!LockRow(r) \/ Pg!RemoveRow(r) \/ Pg!Empty(r) \/ Pg!Load(r)
             \/ Pg!WriteEvent(r) \/ Pg!History(r) \/ Pg!Count(r) \/ Pg!Note(r) \/ Pg!Share(r) \/ Pg!Read(r)
             \/ Pg!Commit(r) \/ Pg!Rollback(r)
      PROVE  PgInv'
  BY <1>2, BeginFits, InsertFits, LockFits, RemoveFits, EmptyFits, LoadFits, WriteFits, HistoryFits,
     CountFits, NoteStepFits, ShareFits, ReadFits, CommitFits, RollbackFits
<1> QED BY <1>1, <1>2 DEF Pg!Next

-----------------------------------------------------------------------------
(* What the store promises                                                  *)

\* What a transaction with a statement to run holds already, and what that statement needs:
\* the locks of ids are taken first, then the counters, and nothing is needed after those.
LEMMA WhatNext ==
  ASSUME NEW r, Under(r, txn[r], rows, counters, eventRows), txn[r].todo # <<>>
  PROVE  \/ Head(txn[r].todo) \in {"count", "note"}
         \/ Head(txn[r].todo) \in {"event", "history", "read"}
         \/ /\ Head(txn[r].todo) \in {"insert", "lock", "remove", "share", "load", "empty"}
            /\ txn[r].locks \subseteq {ImportLock}
            /\ Head(txn[r].todo) = "empty" => txn[r].locks = {}
<1> DEFINE t == txn[r]
<1>1. Head(t.todo) \in {"insert", "remove", "lock", "count", "event", "note", "share", "read",
                        "empty", "load", "history"}
  BY FirstStatements
     DEF Under, OpFits, CreateFits, MutateFits, DeleteFits, AppendFits, EvidenceFits, ImportFits, NoteFits
<1>2. \A s : Head(t.todo) = s => Next1(t, s)
  BY DEF Next1
<1>3. Head(t.todo) = "insert" => t.locks = {}
  BY <1>2, AtInsert
<1>4. Head(t.todo) = "lock" => t.locks = {}
  BY <1>2, AtLock
<1>5. Head(t.todo) = "remove" => t.locks = {}
  BY <1>2, AtRemove
<1>6. Head(t.todo) = "share" => t.locks = {}
  BY <1>2, AtShare
<1>7. Head(t.todo) = "load" => t.locks = {ImportLock}
  BY <1>2, AtLoad
<1>8. Head(t.todo) = "empty" => t.locks = {}
  BY <1>2, AtEmpty
<1> QED BY <1>1, <1>3, <1>4, <1>5, <1>6, <1>7, <1>8

\* Which rows a statement waits for.
LEMMA NeedsNext ==
  ASSUME NEW r, txn[r].todo # <<>>, Pg!IsCall(txn[r].call), Under(r, txn[r], rows, counters, eventRows)
  PROVE  /\ Head(txn[r].todo) \in {"count", "note"} => Pg!Needs(r) = {CountLock}
         /\ Head(txn[r].todo) \in {"event", "history", "read"} => Pg!Needs(r) = {}
         /\ Head(txn[r].todo) = "empty" => Pg!Needs(r) = {ImportLock}
         /\ Head(txn[r].todo) \in {"insert", "lock", "remove", "share", "load"} =>
              \A w \in Pg!Needs(r) : w.on \in Ids
<1>1. Head(txn[r].todo) \in {"count", "note"} => Pg!Needs(r) = {CountLock}
  BY DEF Pg!Needs, CountLock
<1>2. Head(txn[r].todo) \in {"event", "history", "read"} => Pg!Needs(r) = {}
  BY DEF Pg!Needs
<1>3. Head(txn[r].todo) = "empty" => Pg!Needs(r) = {ImportLock}
  BY DEF Pg!Needs, ImportLock
<1>4. \A s : Head(txn[r].todo) = s => Next1(txn[r], s)
  BY DEF Next1
<1>5. \A i, m : Pg!Lock(i, m).on = i
  BY DEF Pg!Lock
<1>6. Head(txn[r].todo) = "insert" => \A w \in Pg!Needs(r) : w.on \in Ids
  BY <1>4, <1>5, AtInsert DEF Pg!Needs, Pg!IsCall
<1>7. Head(txn[r].todo) = "lock" => \A w \in Pg!Needs(r) : w.on \in Ids
  BY <1>4, <1>5, AtLock DEF Pg!Needs, Pg!IsCall
<1>8. Head(txn[r].todo) = "remove" => \A w \in Pg!Needs(r) : w.on \in Ids
  BY <1>4, <1>5, AtRemove DEF Pg!Needs, Pg!IsCall
<1>9. Head(txn[r].todo) = "share" => \A w \in Pg!Needs(r) : w.on \in Ids
  BY <1>4, <1>5, AtShare DEF Pg!Needs, Pg!IsCall
<1>10. Head(txn[r].todo) = "load" => \A w \in Pg!Needs(r) : w.on \in Ids
  BY <1>4, <1>5, AtLoad DEF Pg!Needs, Pg!IsCall, Pg!IsSnapshot
<1> QED BY <1>1, <1>2, <1>3, <1>6, <1>7, <1>8, <1>9, <1>10

\* Of any that wait some one waits for none of them: one that holds the counters, or that is to
\* take them, or that needs an id, or else one that is to begin an import.
LEMMA NoCircle ==
  ASSUME PgInv, NEW S \in SUBSET {r \in Pg!Open : txn[r].todo # <<>>}, S # {}
  PROVE  \E r \in S : Pg!WaitsFor(r) \cap S = {}
<1>1. ASSUME NEW r \in S
      PROVE  /\ r \in Transactions /\ txn[r].todo # <<>> /\ Under(r, txn[r], rows, counters, eventRows)
             /\ Pg!IsCall(txn[r].call) /\ \A h \in txn[r].locks : RightLock(h, rows)
  <2>1. r \in Transactions /\ txn[r].state = "open" /\ txn[r].todo # <<>>
    BY DEF Pg!Open
  <2>2. TxnFits(r, txn[r], rows, counters, eventRows, sequence)
    BY <2>1 DEF PgInv
  <2>3. Under(r, txn[r], rows, counters, eventRows)
    BY <2>1, <2>2 DEF TxnFits, Under
  <2> QED BY <2>1, <2>3, CallsKnown, LocksAreRight DEF Under
<1>2. SUFFICES ASSUME \A r \in S : Pg!WaitsFor(r) \cap S # {} PROVE FALSE
  OBVIOUS
<1>3. ASSUME NEW r \in S
      PROVE  \E o \in S : o # r /\ \E w \in Pg!Needs(r), h \in txn[o].locks : w.on = h.on /\ RightLock(h, rows)
  BY <1>1, <1>2 DEF Pg!WaitsFor, Pg!Conflicts
<1>4. /\ CountLock.on = "counters" /\ ImportLock.on = "imports" /\ "counters" # "imports"
      /\ CountLock.mode = "update" /\ "counters" \notin Ids /\ "imports" \notin Ids
  BY PgBounds DEF CountLock, ImportLock, Pg!Lock, Pg!PgRecordsAssumption
<1>5. \A h : RightLock(h, rows) => /\ h.on = "counters" => h = CountLock
                                   /\ h.on \in Ids => h # ImportLock
  BY <1>4 DEF RightLock
<1>6. \A r, o \in S : r # o => ~(CountLock \in txn[r].locks /\ CountLock \in txn[o].locks)
  <2>1. \A r, o \in S : r # o => Exclude(txn[r].locks, txn[o].locks)
    BY <1>1 DEF PgInv, Apart
  <2> QED BY <1>4, <2>1 DEF Exclude
<1>7. ASSUME NEW r \in S, Head(txn[r].todo) \in {"count", "note"}
      PROVE  \E o \in S : o # r /\ CountLock \in txn[o].locks
  BY <1>1, <1>3, <1>4, <1>5, <1>7, NeedsNext
<1>8. ASSUME NEW r \in S PROVE Head(txn[r].todo) \notin {"event", "history", "read"}
  BY <1>1, <1>3, NeedsNext
<1>9. \A r \in S : Head(txn[r].todo) \notin {"count", "note"}
  <2>1. SUFFICES ASSUME NEW r \in S, Head(txn[r].todo) \in {"count", "note"} PROVE FALSE
    OBVIOUS
  <2>2. PICK o \in S : o # r /\ CountLock \in txn[o].locks
    BY <1>7, <2>1
  <2>3. Head(txn[o].todo) \in {"count", "note"}
    <3>1. CountLock # ImportLock
      BY <1>4
    <3> QED BY <1>1, <1>8, <2>2, <3>1, WhatNext
  <2>4. PICK q \in S : q # o /\ CountLock \in txn[q].locks
    BY <1>7, <2>3
  <2> QED BY <1>6, <2>2, <2>4
<1>10. ASSUME NEW r \in S
       PROVE  /\ Head(txn[r].todo) \in {"insert", "lock", "remove", "share", "load", "empty"}
              /\ txn[r].locks \subseteq {ImportLock}
              /\ Head(txn[r].todo) = "empty" => txn[r].locks = {}
  BY <1>1, <1>8, <1>9, WhatNext
<1>11. ASSUME NEW r \in S PROVE Head(txn[r].todo) = "empty"
  <2>1. SUFFICES ASSUME Head(txn[r].todo) \in {"insert", "lock", "remove", "share", "load"} PROVE FALSE
    BY <1>10
  <2>2. \A w \in Pg!Needs(r) : w.on \in Ids
    BY <1>1, <2>1, NeedsNext
  <2> QED BY <1>3, <1>4, <1>10, <2>2
<1> QED BY <1>3, <1>10, <1>11

\* The invariant says all that the store promises.
LEMMA SoundRows ==
  ASSUME PgInv
  PROVE  Pg!RowsAreSound
<1>1. /\ TablesFit(rows, counters, eventRows) /\ EventsFit(eventRows, txn, sequence)
      /\ \A r \in Transactions : TxnFits(r, txn[r], rows, counters, eventRows, sequence)
  BY DEF PgInv
<1>2. Pg!LivesAreTold
  BY <1>1 DEF TablesFit, Pg!LivesAreTold
<1>3. Pg!CountersAgree
  BY <1>1, SameLibrary DEF TablesFit, Counters, Live, Pg!CountersAgree
<1>4. Pg!EvidenceBelongs
  BY <1>1 DEF TxnFits, Pg!EvidenceBelongs
<1>5. Pg!NobodyWaitsInACircle
  <2>1. ASSUME NEW S \in (SUBSET {r \in Pg!Open : txn[r].todo # <<>>}) \ {{}}
        PROVE  \E r \in S : Pg!WaitsFor(r) \cap S = {}
    BY NoCircle
  <2> QED BY <2>1 DEF Pg!NobodyWaitsInACircle
<1>6. Pg!ImportedOnce
  <2> DEFINE I == {r \in Transactions : txn[r].call.op = "import" /\ \E e \in eventRows : e.op = r}
  <2>1. \A r, o \in I : r = o
    BY <1>1 DEF EventsFit, IsImport
  <2>2. ASSUME I # {} PROVE \E r : I = {r}
    <3>1. PICK r : r \in I
      BY <2>2
    <3> HIDE DEF I
    <3>2. I = {r}
      BY <2>1, <3>1
    <3> QED BY <3>2
  <2>3. Cardinality(I) \in {0, 1}
    <3> HIDE DEF I
    <3> QED BY <2>2, FS_EmptySet, FS_Singleton
  <2> QED BY <2>3, SameLibrary DEF Pg!ImportedOnce
<1> QED BY <1>2, <1>3, <1>4, <1>5, <1>6 DEF Pg!RowsAreSound

(* The rows, the events and the counters of the store agree whatever       *)
(* transactions ran at once, failed or were repeated: the events of a      *)
(* record tell its life up to its row, evidence belongs to its record, no  *)
(* transactions wait in a circle, and one import is enough (the operations *)
(* of PostgresRecordStore, importPostgresSnapshot).                        *)
THEOREM RowsStaySound == RecordsSpec => []RowsAreSound
<1> DEFINE Fit == which = "tables" => PgInv
<1>1. RecordsInit => Fit
  BY StartFits DEF RecordsInit
<1>2. Fit /\ [RecordsNext]_<<which, vars, tableVars>> => Fit'
  <2> SUFFICES ASSUME Fit, [RecordsNext]_<<which, vars, tableVars>>, which' = "tables" PROVE PgInv'
    OBVIOUS
  <2>1. which' = which
    BY DEF RecordsNext
  <2>2. [Pg!Next]_tableVars
    BY <2>1 DEF RecordsNext
  <2> QED BY <2>1, <2>2, StepFits
<1>3. Fit => RowsAreSound
  BY SoundRows DEF RowsAreSound
<1> QED BY <1>1, <1>2, <1>3, PTL DEF RecordsSpec
=============================================================================
