------------------------- MODULE RecordCommandsProofs -------------------------
(***************************************************************************)
(* Proofs about the WorkRecord aggregate and about the record of           *)
(* RecordCommands, for any documents, members, commands and any number of  *)
(* changes.                                                                *)
(*                                                                         *)
(* A document is Good when its regions, takes and comments are sound       *)
(* (ScoreHolds), and its versions, snapshots, releases, artifacts and      *)
(* policies are (EvidenceHolds).  Every transition changes the one or the  *)
(* other (ScoreChange, EvidenceChange), and no transition takes away a     *)
(* version, the snapshot a version names, or a policy (Stands).  Good says *)
(* more than the code checks when it parses a document: a snapshot id that *)
(* submitVersion generated was generated for a version that is there       *)
(* (IdsKnown), without which the next submit may generate it again.        *)
(*                                                                         *)
(* The theorems are about commands that their routes parse and whose       *)
(* snapshot ids submitVersion does not generate (CommandsFit): without the *)
(* second part they are false, as the run of SubmitCreatesVersion shows.   *)
(***************************************************************************)
EXTENDS RecordCommands, FiniteSums, TLAPS

-----------------------------------------------------------------------------
(* Documents and lists                                                     *)

\* The fields of a document
Fields == {"revision", "title", "members", "tracks", "takeIds", "takes", "preferred",
           "regions", "comments", "versions", "snapshots", "releases", "subjects",
           "artifacts", "policies", "annotations", "capability"}

\* s is a list of something.
IsList(s) == s \in Seq(Range(s))

\* A generated id was generated for a version that is there.
IdsKnown(d) ==
  \A i \in DOMAIN d.snapshots :
    d.snapshots[i].id \in VersionNames \X Nat => d.snapshots[i].id[2] < Len(d.versions)

\* An element appended to a list comes last and leaves the others where they are.
LEMMA Appended ==
  ASSUME NEW s, IsList(s), NEW e
  PROVE  LET t == Append(s, e)
         IN  /\ IsList(t) /\ Len(s) \in Nat /\ Len(t) = Len(s) + 1
             /\ DOMAIN s = 1 .. Len(s) /\ DOMAIN t = 1 .. Len(s) + 1
             /\ \A i \in DOMAIN s : t[i] = s[i]
             /\ t[Len(s) + 1] = e
<1> DEFINE t == Append(s, e)
           S == Range(s) \union {e}
<1>1. s \in Seq(S)
  BY DEF IsList
<1>2. /\ t \in Seq(S) /\ Len(s) \in Nat /\ Len(t) = Len(s) + 1
      /\ DOMAIN s = 1 .. Len(s) /\ DOMAIN t = 1 .. Len(s) + 1
      /\ \A i \in DOMAIN s : t[i] = s[i]
      /\ t[Len(s) + 1] = e
  BY <1>1
<1> HIDE DEF t
<1>3. \A i \in 1 .. Len(t) : t[i] \in Range(t)
  BY <1>2 DEF Range
<1>4. t \in Seq(Range(t))
  <2>1. t = [i \in 1 .. Len(t) |-> t[i]]
    BY <1>2
  <2>2. t \in [1 .. Len(t) -> Range(t)]
    BY <1>3, <2>1
  <2> QED BY <1>2, <2>2
<1> QED BY <1>2, <1>4 DEF IsList, t
-----------------------------------------------------------------------------
(* What holds of a document, and of one that follows it                    *)

\* What addMember, patch and the evidence transitions leave alone
SameScore(d, n) ==
  /\ n.regions = d.regions /\ n.takes = d.takes /\ n.takeIds = d.takeIds
  /\ n.preferred = d.preferred /\ n.comments = d.comments /\ n.tracks = d.tracks

\* What the transitions of tracks, takes, regions and comments leave alone
SameEvidence(d, n) ==
  /\ n.versions = d.versions /\ n.snapshots = d.snapshots /\ n.releases = d.releases
  /\ n.artifacts = d.artifacts /\ n.subjects = d.subjects /\ n.policies = d.policies

\* The invariants of aggregate-invariants.ts about the score, and the shape of
\* a comment
ScoreHolds(d) ==
  /\ ValidRegions(d) /\ TakeCoherence(d) /\ CommentAnchors(d)
  /\ \A k \in DOMAIN d.comments : {"region", "track"} \subseteq DOMAIN d.comments[k]

\* Those about the evidence, and the ids of generated snapshots
EvidenceHolds(d) ==
  /\ IsList(d.versions) /\ IsList(d.snapshots) /\ IsList(d.releases)
  /\ IdsKnown(d)
  /\ VersionNamesUnique(d) /\ UniqueIds(d.releases) /\ UniqueIds(d.snapshots)
  /\ SubjectReferences(d) /\ ArtifactReferences(d) /\ VersionSnapshotReferences(d)

\* The documents that occur
Good(d) == DOMAIN d = Fields /\ ScoreHolds(d) /\ EvidenceHolds(d)

\* What no later change takes away
Stands(d, n) ==
  /\ \A i \in DOMAIN d.versions :
       /\ i \in DOMAIN n.versions /\ n.versions[i] = d.versions[i]
       /\ Snapshot(n, d.versions[i].ref) = Snapshot(d, d.versions[i].ref)
  /\ \A p \in DOMAIN d.policies :
       p \in DOMAIN n.policies /\ n.policies[p] = d.policies[p]

\* A document that may come after d
Follows(d, n) == Good(n) /\ Stands(d, n)

\* The two ways a transition changes a document
ScoreChange(d, n) == DOMAIN n = Fields /\ SameEvidence(d, n) /\ ScoreHolds(n)
EvidenceChange(d, n) ==
  DOMAIN n = Fields /\ SameScore(d, n) /\ EvidenceHolds(n) /\ Stands(d, n)

\* A document with the same score has a sound one.
LEMMA SameScoreHolds ==
  ASSUME NEW d, NEW n, ScoreHolds(d), SameScore(d, n)
  PROVE  ScoreHolds(n)
<1>1. ValidRegions(n)
  BY DEF ScoreHolds, SameScore, ValidRegions
<1>2. TakeCoherence(n)
  BY DEF ScoreHolds, SameScore, TakeCoherence
<1>3. CommentAnchors(n)
  BY DEF ScoreHolds, SameScore, CommentAnchors
<1> QED BY <1>1, <1>2, <1>3 DEF ScoreHolds, SameScore

\* A document with the same evidence has sound evidence, and nothing is taken away.
LEMMA SameEvidenceHolds ==
  ASSUME NEW d, NEW n, EvidenceHolds(d), SameEvidence(d, n)
  PROVE  EvidenceHolds(n) /\ Stands(d, n)
<1>1. SubjectReferences(n)
  BY DEF EvidenceHolds, SameEvidence, SubjectReferences
<1>2. ArtifactReferences(n)
  BY DEF EvidenceHolds, SameEvidence, ArtifactReferences
<1>3. VersionSnapshotReferences(n)
  BY DEF EvidenceHolds, SameEvidence, VersionSnapshotReferences
<1>4. VersionNamesUnique(n)
  BY DEF EvidenceHolds, SameEvidence, VersionNamesUnique
<1>5. IdsKnown(n)
  BY DEF EvidenceHolds, SameEvidence, IdsKnown
<1>6. Stands(d, n)
  BY DEF SameEvidence, Stands, Snapshot
<1> QED BY <1>1, <1>2, <1>3, <1>4, <1>5, <1>6 DEF EvidenceHolds, SameEvidence

\* Either change of a good document gives one that follows it.
LEMMA ChangesFollow ==
  ASSUME NEW d, NEW n, Good(d), ScoreChange(d, n) \/ EvidenceChange(d, n)
  PROVE  Follows(d, n)
BY SameScoreHolds, SameEvidenceHolds DEF Good, Follows, ScoreChange, EvidenceChange

\* A transition that is refused yields the document it was given.
LEMMA UnchangedScore ==
  ASSUME NEW d, Good(d)
  PROVE  ScoreChange(d, d)
BY DEF ScoreChange, SameEvidence, Good

\* The same, as a change of the evidence
LEMMA UnchangedEvidence ==
  ASSUME NEW d, Good(d)
  PROVE  EvidenceChange(d, d)
BY DEF EvidenceChange, SameScore, Good, Stands

-----------------------------------------------------------------------------
(* Transitions of tracks, takes, regions and comments                      *)

\* Tracks added or retyped leave every comment its track.
LEMMA TracksChange ==
  ASSUME NEW d, Good(d), NEW tracks, DOMAIN d.tracks \subseteq DOMAIN tracks
  PROVE  ScoreChange(d, [d EXCEPT !.tracks = tracks])
<1> DEFINE n == [d EXCEPT !.tracks = tracks]
<1>1. /\ DOMAIN n = Fields /\ SameEvidence(d, n) /\ n.tracks = tracks
      /\ n.regions = d.regions /\ n.takes = d.takes /\ n.takeIds = d.takeIds
      /\ n.preferred = d.preferred /\ n.comments = d.comments
  BY DEF Good, Fields, SameEvidence
<1> HIDE DEF n
<1>2. ValidRegions(n) /\ TakeCoherence(n)
  BY <1>1 DEF Good, ScoreHolds, ValidRegions, TakeCoherence
<1>3. CommentAnchors(n)
  BY <1>1 DEF Good, ScoreHolds, CommentAnchors
<1>4. ScoreHolds(n)
  BY <1>1, <1>2, <1>3 DEF Good, ScoreHolds
<1> QED BY <1>1, <1>4 DEF ScoreChange, n

\* addTrack keeps the score sound.
LEMMA TrackAdded ==
  ASSUME NEW d, Good(d), NEW c
  PROVE  ScoreChange(d, addTrack(d, c).record)
<1>1. DOMAIN d.tracks \subseteq DOMAIN Put(d.tracks, c.id, c.track)
  BY DEF Put
<1>2. ScoreChange(d, [d EXCEPT !.tracks = Put(d.tracks, c.id, c.track)])
  BY <1>1, TracksChange
<1> QED BY <1>2, UnchangedScore DEF addTrack, Done, Throws

\* So do the adders that replace a track of their own type,
LEMMA TrackPut ==
  ASSUME NEW d, Good(d), NEW id, NEW type
  PROVE  ScoreChange(d, PutTrack(d, id, type).record)
<1>1. DOMAIN d.tracks \subseteq DOMAIN Put(d.tracks, id, type)
  BY DEF Put
<1>2. ScoreChange(d, [d EXCEPT !.tracks = Put(d.tracks, id, type)])
  BY <1>1, TracksChange
<1> QED BY <1>2, UnchangedScore DEF PutTrack, Done, Throws

\* and attachMveiMotifTrack, which also raises the capability.
LEMMA MotifTrackAttached ==
  ASSUME NEW d, Good(d), NEW c
  PROVE  ScoreChange(d, attachMveiMotifTrack(d, c).record)
<1>1. PICK put : put = PutTrack(d, c.id, "movement_notation")
  OBVIOUS
<1>2. ScoreChange(d, put.record)
  BY <1>1, TrackPut
<1>3. ASSUME NEW x PROVE ScoreChange(d, [put.record EXCEPT !.capability = x])
  <2>1. PICK n : n = [put.record EXCEPT !.capability = x]
    OBVIOUS
  <2>2. DOMAIN n = Fields /\ SameScore(put.record, n) /\ SameEvidence(put.record, n)
    BY <1>2, <2>1 DEF ScoreChange, Fields, SameScore, SameEvidence
  <2>3. ScoreHolds(n)
    BY <1>2, <2>2, SameScoreHolds DEF ScoreChange
  <2> QED BY <1>2, <2>1, <2>2, <2>3 DEF ScoreChange, SameEvidence
<1>4. attachMveiMotifTrack(d, c).record = put.record
        \/ \E x : attachMveiMotifTrack(d, c).record = [put.record EXCEPT !.capability = x]
  BY <1>1 DEF attachMveiMotifTrack, Done
<1> QED BY <1>2, <1>3, <1>4

\* addTake adds the id with the take, or merges the take of a known id.
LEMMA TakeAdded ==
  ASSUME NEW d, Good(d), NEW c
  PROVE  ScoreChange(d, addTake(d, c).record)
<1>1. PICK n : n = addTake(d, c).record
  OBVIOUS
<1>2. /\ DOMAIN n = Fields /\ SameEvidence(d, n) /\ n.tracks = d.tracks
      /\ n.regions = d.regions /\ n.takeIds = d.takeIds \union {c.id}
      /\ DOMAIN n.takes = DOMAIN d.takes \union {c.id}
      /\ n.preferred = d.preferred /\ n.comments = d.comments
  BY <1>1 DEF addTake, Done, Put, Good, Fields, SameEvidence
<1>3. ValidRegions(n) /\ CommentAnchors(n)
  BY <1>2 DEF Good, ScoreHolds, ValidRegions, CommentAnchors
<1>4. TakeCoherence(n)
  BY <1>2 DEF Good, ScoreHolds, TakeCoherence
<1>5. ScoreHolds(n)
  BY <1>2, <1>3, <1>4 DEF Good, ScoreHolds
<1> QED BY <1>1, <1>2, <1>5 DEF ScoreChange

\* setPreferredTake accepts a known take only.
LEMMA PreferredTakeSet ==
  ASSUME NEW d, Good(d), NEW c
  PROVE  ScoreChange(d, setPreferredTake(d, c).record)
<1>1. CASE c.id \notin d.takeIds
  BY <1>1, UnchangedScore DEF setPreferredTake, Throws
<1>2. CASE c.id \in d.takeIds
  <2>1. PICK n : n = [d EXCEPT !.preferred = c.id]
    OBVIOUS
  <2>2. /\ DOMAIN n = Fields /\ SameEvidence(d, n) /\ n.tracks = d.tracks
        /\ n.regions = d.regions /\ n.takeIds = d.takeIds /\ n.takes = d.takes
        /\ n.preferred = c.id /\ n.comments = d.comments
    BY <2>1 DEF Good, Fields, SameEvidence
  <2>3. ValidRegions(n) /\ CommentAnchors(n)
    BY <2>2 DEF Good, ScoreHolds, ValidRegions, CommentAnchors
  <2>4. TakeCoherence(n)
    BY <1>2, <2>2 DEF Good, ScoreHolds, TakeCoherence
  <2>5. ScoreHolds(n)
    BY <2>2, <2>3, <2>4 DEF Good, ScoreHolds
  <2>6. setPreferredTake(d, c).record = n
    BY <1>2, <2>1 DEF setPreferredTake, Done
  <2> QED BY <2>2, <2>5, <2>6 DEF ScoreChange
<1> QED BY <1>1, <1>2

\* addRegion accepts an ordered region of a new id, and leaves every comment its own.
LEMMA RegionAdded ==
  ASSUME NEW d, Good(d), NEW c, c.start \in Int, c.end \in Int
  PROVE  ScoreChange(d, addRegion(d, c).record)
<1>1. CASE c.start < 0 \/ c.end <= c.start \/ c.id \in DOMAIN d.regions
  BY <1>1, UnchangedScore DEF addRegion, Throws
<1>2. CASE ~(c.start < 0 \/ c.end <= c.start \/ c.id \in DOMAIN d.regions)
  <2>1. PICK n : n = [d EXCEPT !.regions = Put(@, c.id, [start |-> c.start, end |-> c.end])]
    OBVIOUS
  <2>2. /\ DOMAIN n = Fields /\ SameEvidence(d, n) /\ n.tracks = d.tracks
        /\ n.regions = Put(d.regions, c.id, [start |-> c.start, end |-> c.end])
        /\ n.takeIds = d.takeIds /\ n.takes = d.takes
        /\ n.preferred = d.preferred /\ n.comments = d.comments
    BY <2>1 DEF Good, Fields, SameEvidence
  <2>3. /\ DOMAIN n.regions = DOMAIN d.regions \union {c.id}
        /\ \A g \in DOMAIN d.regions : n.regions[g] = d.regions[g]
        /\ n.regions[c.id].start = c.start /\ n.regions[c.id].end = c.end
    BY <1>2, <2>2 DEF Put
  <2>4. ValidRegions(n)
    BY <1>2, <2>3 DEF Good, ScoreHolds, ValidRegions
  <2>5. CommentAnchors(n)
    BY <2>2, <2>3 DEF Good, ScoreHolds, CommentAnchors
  <2>6. TakeCoherence(n)
    BY <2>2 DEF Good, ScoreHolds, TakeCoherence
  <2>7. ScoreHolds(n)
    BY <2>2, <2>4, <2>5, <2>6 DEF Good, ScoreHolds
  <2>8. addRegion(d, c).record = n
    BY <1>2, <2>1 DEF addRegion, Done
  <2> QED BY <2>2, <2>7, <2>8 DEF ScoreChange
<1> QED BY <1>1, <1>2

\* addComment anchors the comment at a region, and a track, that are there.
LEMMA CommentAdded ==
  ASSUME NEW d, Good(d), NEW c, NEW author
  PROVE  ScoreChange(d, addComment(d, c, author).record)
<1>1. CASE addComment(d, c, author).record = d
  BY <1>1, UnchangedScore
<1>2. CASE addComment(d, c, author).record # d
  <2>1. PICK id, n :
          /\ n = [d EXCEPT !.comments = Put(@, id, [region |-> c.region, track |-> c.track,
                                                    author |-> author, resolved |-> FALSE])]
          /\ addComment(d, c, author).record = n
          /\ c.region \in DOMAIN d.regions
          /\ c.track # Unset => c.track \in DOMAIN d.tracks
    BY <1>2 DEF addComment, Done, Throws
  <2>2. /\ DOMAIN n = Fields /\ SameEvidence(d, n) /\ n.tracks = d.tracks
        /\ n.comments = Put(d.comments, id, [region |-> c.region, track |-> c.track,
                                             author |-> author, resolved |-> FALSE])
        /\ n.takeIds = d.takeIds /\ n.takes = d.takes
        /\ n.preferred = d.preferred /\ n.regions = d.regions
    BY <2>1 DEF Good, Fields, SameEvidence
  <2>3. /\ DOMAIN n.comments = DOMAIN d.comments \union {id}
        /\ \A k \in DOMAIN n.comments :
             n.comments[k] = IF k = id THEN [region |-> c.region, track |-> c.track,
                                             author |-> author, resolved |-> FALSE]
                             ELSE d.comments[k]
    BY <2>2 DEF Put
  <2>4. CommentAnchors(n)
    <3>1. ASSUME NEW k \in DOMAIN n.comments
          PROVE  /\ n.comments[k].region \in DOMAIN d.regions
                 /\ n.comments[k].track # Unset => n.comments[k].track \in DOMAIN d.tracks
      <4>1. CASE k = id
        <5>1. n.comments[k] = [region |-> c.region, track |-> c.track,
                               author |-> author, resolved |-> FALSE]
          BY <2>3, <4>1
        <5>2. n.comments[k].region = c.region /\ n.comments[k].track = c.track
          BY <5>1
        <5> QED BY <2>1, <5>2
      <4>2. CASE k # id
        BY <2>3, <4>2 DEF Good, ScoreHolds, CommentAnchors
      <4> QED BY <4>1, <4>2
    <3> QED BY <2>2, <3>1 DEF CommentAnchors
  <2>5. ValidRegions(n) /\ TakeCoherence(n)
    BY <2>2 DEF Good, ScoreHolds, ValidRegions, TakeCoherence
  <2>6. \A k \in DOMAIN n.comments : {"region", "track"} \subseteq DOMAIN n.comments[k]
    BY <2>3 DEF Good, ScoreHolds
  <2>7. ScoreHolds(n)
    BY <2>4, <2>5, <2>6 DEF ScoreHolds
  <2> QED BY <2>1, <2>2, <2>7 DEF ScoreChange
<1> QED BY <1>1, <1>2

\* resolveComment leaves a comment at its anchors.
LEMMA CommentResolved ==
  ASSUME NEW d, Good(d), NEW c
  PROVE  ScoreChange(d, resolveComment(d, c).record)
<1>1. CASE c.id \notin DOMAIN d.comments
  BY <1>1, UnchangedScore DEF resolveComment, Throws
<1>2. CASE c.id \in DOMAIN d.comments
  <2>1. PICK n : n = [d EXCEPT !.comments[c.id].resolved = TRUE]
    OBVIOUS
  <2>2. /\ DOMAIN n = Fields /\ SameEvidence(d, n) /\ n.tracks = d.tracks
        /\ n.comments = [d.comments EXCEPT ![c.id].resolved = TRUE]
        /\ n.takeIds = d.takeIds /\ n.takes = d.takes
        /\ n.preferred = d.preferred /\ n.regions = d.regions
    BY <2>1 DEF Good, Fields, SameEvidence
  <2>3. /\ DOMAIN n.comments = DOMAIN d.comments
        /\ \A k \in DOMAIN d.comments :
             /\ DOMAIN n.comments[k] = DOMAIN d.comments[k]
             /\ n.comments[k].region = d.comments[k].region
             /\ n.comments[k].track = d.comments[k].track
    BY <2>2 DEF Good, ScoreHolds
  <2>4. CommentAnchors(n)
    BY <2>2, <2>3 DEF Good, ScoreHolds, CommentAnchors
  <2>5. ValidRegions(n) /\ TakeCoherence(n)
    BY <2>2 DEF Good, ScoreHolds, ValidRegions, TakeCoherence
  <2>6. ScoreHolds(n)
    BY <2>3, <2>4, <2>5 DEF Good, ScoreHolds
  <2>7. resolveComment(d, c).record = n
    BY <1>2, <2>1 DEF resolveComment, Done
  <2> QED BY <2>2, <2>6, <2>7 DEF ScoreChange
<1> QED BY <1>1, <1>2

-----------------------------------------------------------------------------
(* Transitions of the evidence                                             *)

\* attachUsePolicySnapshot appends a release of a new id.
LEMMA ReleaseAttached ==
  ASSUME NEW d, Good(d), NEW c, NEW subject
  PROVE  EvidenceChange(d, attachUsePolicySnapshot(d, c, subject).record)
<1>1. CASE \E i \in DOMAIN d.releases : d.releases[i].id = c.id
  BY <1>1, UnchangedEvidence DEF attachUsePolicySnapshot, Throws
<1>2. CASE ~\E i \in DOMAIN d.releases : d.releases[i].id = c.id
  <2>1. PICK e : e = [id |-> c.id, subject |-> subject, allowed |-> c.allowed]
    OBVIOUS
  <2>2. PICK n : n = [d EXCEPT !.releases = Append(@, e)]
    OBVIOUS
  <2>3. /\ DOMAIN n = Fields /\ SameScore(d, n) /\ n.releases = Append(d.releases, e)
        /\ n.versions = d.versions /\ n.snapshots = d.snapshots
        /\ n.artifacts = d.artifacts /\ n.subjects = d.subjects /\ n.policies = d.policies
    BY <2>2 DEF Good, Fields, SameScore
  <2>4. IsList(d.releases) /\ UniqueIds(d.releases)
    BY DEF Good, EvidenceHolds
  <2>5. UniqueIds(n.releases) /\ IsList(n.releases)
    <3>1. PICK s, t : s = d.releases /\ t = n.releases
      OBVIOUS
    <3>2. /\ IsList(t) /\ Len(s) \in Nat
          /\ DOMAIN s = 1 .. Len(s) /\ DOMAIN t = 1 .. Len(s) + 1
          /\ \A i \in DOMAIN s : t[i] = s[i]
          /\ t[Len(s) + 1] = e
      BY <2>3, <2>4, <3>1, Appended
    <3>3. e.id = c.id /\ \A i \in DOMAIN s : s[i].id # c.id
      BY <1>2, <2>1, <3>1
    <3>4. ASSUME NEW i \in DOMAIN t, NEW j \in DOMAIN t, t[i].id = t[j].id PROVE i = j
      <4>1. /\ i \in DOMAIN s \/ i = Len(s) + 1
            /\ j \in DOMAIN s \/ j = Len(s) + 1
        BY <3>2
      <4>2. CASE i \in DOMAIN s /\ j \in DOMAIN s
        <5>1. s[i].id = s[j].id
          BY <3>2, <3>4, <4>2
        <5> QED BY <2>4, <3>1, <4>2, <5>1 DEF UniqueIds
      <4>3. ~(i \in DOMAIN s /\ j = Len(s) + 1) /\ ~(j \in DOMAIN s /\ i = Len(s) + 1)
        BY <3>2, <3>3, <3>4
      <4> QED BY <4>1, <4>2, <4>3
    <3> QED BY <3>1, <3>2, <3>4 DEF UniqueIds
  <2>6. SubjectReferences(n) /\ ArtifactReferences(n) /\ VersionSnapshotReferences(n)
        /\ VersionNamesUnique(n)
    BY <2>3 DEF Good, EvidenceHolds, SubjectReferences, ArtifactReferences,
                VersionSnapshotReferences, VersionNamesUnique
  <2>7. IdsKnown(n) /\ Stands(d, n)
    BY <2>3 DEF Good, EvidenceHolds, IdsKnown, Stands, Snapshot
  <2>8. EvidenceHolds(n)
    BY <2>3, <2>5, <2>6, <2>7 DEF Good, EvidenceHolds
  <2>9. attachUsePolicySnapshot(d, c, subject).record = n
    BY <1>2, <2>1, <2>2 DEF attachUsePolicySnapshot, Done
  <2> QED BY <2>3, <2>7, <2>8, <2>9 DEF EvidenceChange
<1> QED BY <1>1, <1>2

\* addRepresentedSubject only adds to the subjects that others refer to.
LEMMA SubjectAdded ==
  ASSUME NEW d, Good(d), NEW c
  PROVE  EvidenceChange(d, addRepresentedSubject(d, c).record)
<1>1. CASE c.id \in d.subjects
  BY <1>1, UnchangedEvidence DEF addRepresentedSubject, Throws
<1>2. CASE c.id \notin d.subjects
  <2>1. PICK n : n = [d EXCEPT !.subjects = @ \union {c.id}]
    OBVIOUS
  <2>2. /\ DOMAIN n = Fields /\ SameScore(d, n) /\ n.subjects = d.subjects \union {c.id}
        /\ n.versions = d.versions /\ n.snapshots = d.snapshots
        /\ n.artifacts = d.artifacts /\ n.releases = d.releases /\ n.policies = d.policies
    BY <2>1 DEF Good, Fields, SameScore
  <2>3. SubjectReferences(n)
    BY <2>2 DEF Good, EvidenceHolds, SubjectReferences
  <2>4. ArtifactReferences(n) /\ VersionSnapshotReferences(n) /\ VersionNamesUnique(n)
    BY <2>2 DEF Good, EvidenceHolds, ArtifactReferences, VersionSnapshotReferences,
                VersionNamesUnique
  <2>5. IdsKnown(n) /\ Stands(d, n)
    BY <2>2 DEF Good, EvidenceHolds, IdsKnown, Stands, Snapshot
  <2>6. EvidenceHolds(n)
    BY <2>2, <2>3, <2>4, <2>5 DEF Good, EvidenceHolds
  <2>7. addRepresentedSubject(d, c).record = n
    BY <1>2, <2>1 DEF addRepresentedSubject, Done
  <2> QED BY <2>2, <2>5, <2>6, <2>7 DEF EvidenceChange
<1> QED BY <1>1, <1>2

\* addArtifact refers to known subjects, and leaves every snapshot its artifacts.
LEMMA ArtifactAdded ==
  ASSUME NEW d, Good(d), NEW c
  PROVE  EvidenceChange(d, addArtifact(d, c).record)
<1>1. CASE addArtifact(d, c).record = d
  BY <1>1, UnchangedEvidence
<1>2. CASE addArtifact(d, c).record # d
  <2>1. PICK a : a = [subjects |-> c.subjects, preserve |-> c.preserve, hashed |-> c.hashed]
    OBVIOUS
  <2>2. PICK n : n = [d EXCEPT !.artifacts = Put(@, c.id, a)]
    OBVIOUS
  <2>3. /\ c.id \notin DOMAIN d.artifacts /\ c.subjects \subseteq d.subjects
        /\ addArtifact(d, c).record = n
    BY <1>2, <2>1, <2>2 DEF addArtifact, Done, Throws
  <2>4. /\ DOMAIN n = Fields /\ SameScore(d, n) /\ n.artifacts = Put(d.artifacts, c.id, a)
        /\ n.versions = d.versions /\ n.snapshots = d.snapshots
        /\ n.subjects = d.subjects /\ n.releases = d.releases /\ n.policies = d.policies
    BY <2>2 DEF Good, Fields, SameScore
  <2>5. /\ DOMAIN n.artifacts = DOMAIN d.artifacts \union {c.id}
        /\ \A k \in DOMAIN n.artifacts :
             n.artifacts[k] = IF k = c.id THEN a ELSE d.artifacts[k]
    BY <2>4 DEF Put
  <2>6. SubjectReferences(n)
    <3>1. ASSUME NEW k \in DOMAIN n.artifacts PROVE n.artifacts[k].subjects \subseteq n.subjects
      <4>1. CASE k = c.id
        BY <2>1, <2>3, <2>4, <2>5, <4>1
      <4>2. CASE k # c.id
        BY <2>4, <2>5, <4>2 DEF Good, EvidenceHolds, SubjectReferences
      <4> QED BY <4>1, <4>2
    <3> QED BY <2>4, <3>1 DEF Good, EvidenceHolds, SubjectReferences
  <2>7. ArtifactReferences(n)
    BY <2>4, <2>5 DEF Good, EvidenceHolds, ArtifactReferences
  <2>8. VersionSnapshotReferences(n) /\ VersionNamesUnique(n)
    BY <2>4 DEF Good, EvidenceHolds, VersionSnapshotReferences, VersionNamesUnique
  <2>9. IdsKnown(n) /\ Stands(d, n)
    BY <2>4 DEF Good, EvidenceHolds, IdsKnown, Stands, Snapshot
  <2>10. EvidenceHolds(n)
    BY <2>4, <2>6, <2>7, <2>8, <2>9 DEF Good, EvidenceHolds
  <2> QED BY <2>3, <2>4, <2>9, <2>10 DEF EvidenceChange
<1> QED BY <1>1, <1>2

\* addUsePolicy refers to a known subject, and never replaces a policy.
LEMMA PolicyAdded ==
  ASSUME NEW d, Good(d), NEW c
  PROVE  EvidenceChange(d, addUsePolicy(d, c).record)
<1>1. CASE addUsePolicy(d, c).record = d
  BY <1>1, UnchangedEvidence
<1>2. CASE addUsePolicy(d, c).record # d
  <2>1. PICK p : p = [subject |-> c.subject, use |-> c.use, state |-> c.state]
    OBVIOUS
  <2>2. PICK n : n = [d EXCEPT !.policies = Put(@, c.id, p)]
    OBVIOUS
  <2>3. /\ c.id \notin DOMAIN d.policies /\ c.subject \in d.subjects
        /\ addUsePolicy(d, c).record = n
    BY <1>2, <2>1, <2>2 DEF addUsePolicy, Done, Throws
  <2>4. /\ DOMAIN n = Fields /\ SameScore(d, n) /\ n.policies = Put(d.policies, c.id, p)
        /\ n.versions = d.versions /\ n.snapshots = d.snapshots
        /\ n.subjects = d.subjects /\ n.releases = d.releases /\ n.artifacts = d.artifacts
    BY <2>2 DEF Good, Fields, SameScore
  <2>5. /\ DOMAIN n.policies = DOMAIN d.policies \union {c.id}
        /\ \A k \in DOMAIN n.policies :
             n.policies[k] = IF k = c.id THEN p ELSE d.policies[k]
    BY <2>4 DEF Put
  <2>6. SubjectReferences(n)
    <3>1. ASSUME NEW k \in DOMAIN n.policies PROVE n.policies[k].subject \in n.subjects
      <4>1. CASE k = c.id
        BY <2>1, <2>3, <2>4, <2>5, <4>1
      <4>2. CASE k # c.id
        BY <2>4, <2>5, <4>2 DEF Good, EvidenceHolds, SubjectReferences
      <4> QED BY <4>1, <4>2
    <3> QED BY <2>4, <3>1 DEF Good, EvidenceHolds, SubjectReferences
  <2>7. ArtifactReferences(n) /\ VersionSnapshotReferences(n) /\ VersionNamesUnique(n)
    BY <2>4 DEF Good, EvidenceHolds, ArtifactReferences, VersionSnapshotReferences,
                VersionNamesUnique
  <2>8. IdsKnown(n)
    BY <2>4 DEF Good, EvidenceHolds, IdsKnown
  <2>9. Stands(d, n)
    BY <2>3, <2>4, <2>5 DEF Stands, Snapshot
  <2>10. EvidenceHolds(n)
    BY <2>4, <2>6, <2>7, <2>8 DEF Good, EvidenceHolds
  <2> QED BY <2>3, <2>4, <2>9, <2>10 DEF EvidenceChange
<1> QED BY <1>1, <1>2

\* The list t is the list s with one element more.
Extends(t, s, e) == t = Append(s, e)

\* The snapshots t are those of d and one of the given id.
OneMore(d, id, t) ==
  /\ IsList(t) /\ UniqueIds(t)
  /\ \A i \in DOMAIN t : t[i].artifacts \subseteq DOMAIN d.artifacts
  /\ \A i \in DOMAIN d.snapshots : i \in DOMAIN t /\ t[i] = d.snapshots[i]
  /\ \A i \in DOMAIN t : t[i].id = id \/ i \in DOMAIN d.snapshots
  /\ \E i \in DOMAIN t : t[i].id = id

\* A snapshot of a new id, of the artifacts there are
LEMMA SnapshotAppended ==
  ASSUME NEW d, Good(d), NEW id, NEW e, NEW t,
         \A i \in DOMAIN d.snapshots : d.snapshots[i].id # id,
         e.id = id, e.artifacts = DOMAIN d.artifacts, Extends(t, d.snapshots, e)
  PROVE  OneMore(d, id, t)
<1>1. PICK s : s = d.snapshots
  OBVIOUS
<1>2. IsList(s) /\ UniqueIds(s) /\ \A i \in DOMAIN s : s[i].artifacts \subseteq DOMAIN d.artifacts
  BY <1>1 DEF Good, EvidenceHolds, ArtifactReferences
<1>3. /\ IsList(t) /\ Len(s) \in Nat
      /\ DOMAIN s = 1 .. Len(s) /\ DOMAIN t = 1 .. Len(s) + 1
      /\ \A i \in DOMAIN s : t[i] = s[i]
      /\ t[Len(s) + 1] = e
  BY <1>1, <1>2, Appended DEF Extends
<1>4. e.id = id /\ e.artifacts = DOMAIN d.artifacts /\ \A i \in DOMAIN s : s[i].id # id
  BY <1>1
<1>5. ASSUME NEW i \in DOMAIN t, NEW j \in DOMAIN t, t[i].id = t[j].id PROVE i = j
  BY <1>2, <1>3, <1>4, <1>5 DEF UniqueIds
<1>6. \A i \in DOMAIN t : t[i].artifacts \subseteq DOMAIN d.artifacts
  BY <1>2, <1>3, <1>4
<1>7. \A i \in DOMAIN t : i = Len(s) + 1 \/ i \in DOMAIN s
  BY <1>3
<1>8. Len(s) + 1 \in DOMAIN t /\ \A i \in DOMAIN s : i \in DOMAIN t
  BY <1>3
<1> QED BY <1>1, <1>3, <1>4, <1>5, <1>6, <1>7, <1>8 DEF OneMore, UniqueIds

\* A snapshot that no version names takes nothing from those that are named
LEMMA NamedSnapshotsStand ==
  ASSUME NEW d, Good(d), NEW n, NEW id,
         \A i \in DOMAIN d.snapshots : d.snapshots[i].id # id,
         \A i \in DOMAIN d.snapshots : i \in DOMAIN n.snapshots /\ n.snapshots[i] = d.snapshots[i],
         \A i \in DOMAIN n.snapshots : n.snapshots[i].id = id \/ i \in DOMAIN d.snapshots
  PROVE  \A i \in DOMAIN d.versions :
           Snapshot(n, d.versions[i].ref) = Snapshot(d, d.versions[i].ref)
<1> SUFFICES ASSUME NEW v \in DOMAIN d.versions
             PROVE  Snapshot(n, d.versions[v].ref) = Snapshot(d, d.versions[v].ref)
  OBVIOUS
<1>1. PICK ref : ref = d.versions[v].ref
  OBVIOUS
<1>2. ref # id
  BY <1>1 DEF Good, EvidenceHolds, VersionSnapshotReferences
<1>3. \A i : i \in DOMAIN n.snapshots /\ n.snapshots[i].id = ref
               <=> i \in DOMAIN d.snapshots /\ d.snapshots[i].id = ref
  BY <1>2
<1>4. {j \in DOMAIN n.snapshots : n.snapshots[j].id = ref}
        = {j \in DOMAIN d.snapshots : d.snapshots[j].id = ref}
  BY <1>3
<1>5. \A j \in {i \in DOMAIN d.snapshots : d.snapshots[i].id = ref} :
        n.snapshots[j].artifacts = d.snapshots[j].artifacts
  OBVIOUS
<1>6. Snapshot(n, ref) = Snapshot(d, ref)
  BY <1>4, <1>5 DEF Snapshot
<1> QED BY <1>1, <1>6

\* addSnapshot takes no id that a submit generates, now or later.
LEMMA SnapshotAdded ==
  ASSUME NEW d, Good(d), NEW c \in Commands, c.type = "add-snapshot", OwnSnapshotIds
  PROVE  EvidenceChange(d, addSnapshot(d, c).record)
<1>1. CASE \E i \in DOMAIN d.snapshots : d.snapshots[i].id = c.id
  BY <1>1, UnchangedEvidence DEF addSnapshot, Throws
<1>2. CASE ~\E i \in DOMAIN d.snapshots : d.snapshots[i].id = c.id
  <2>1. PICK t : t = Append(d.snapshots, [id |-> c.id, artifacts |-> DOMAIN d.artifacts])
    OBVIOUS
  <2>2. PICK n : n = [d EXCEPT !.snapshots = t]
    OBVIOUS
  <2>3. addSnapshot(d, c).record = n
    BY <1>2, <2>1, <2>2 DEF addSnapshot, Done
  <2>4. /\ DOMAIN n = Fields /\ SameScore(d, n) /\ n.snapshots = t
        /\ n.versions = d.versions /\ n.policies = d.policies
        /\ n.subjects = d.subjects /\ n.releases = d.releases /\ n.artifacts = d.artifacts
    BY <2>2 DEF Good, Fields, SameScore
  <2>5. /\ IsList(t) /\ UniqueIds(t)
        /\ \A i \in DOMAIN t : t[i].artifacts \subseteq DOMAIN d.artifacts
        /\ \A i \in DOMAIN d.snapshots : i \in DOMAIN t /\ t[i] = d.snapshots[i]
        /\ \A i \in DOMAIN t : t[i].id = c.id \/ i \in DOMAIN d.snapshots
    <3>1. PICK id : id = c.id
      OBVIOUS
    <3>2. \A i \in DOMAIN d.snapshots : d.snapshots[i].id # id
      BY <1>2, <3>1
    <3>3. PICK e : e = [id |-> id, artifacts |-> DOMAIN d.artifacts]
      OBVIOUS
    <3>4. e.id = id /\ e.artifacts = DOMAIN d.artifacts /\ Extends(t, d.snapshots, e)
      BY <2>1, <3>1, <3>3 DEF Extends
    <3>5. OneMore(d, id, t)
      BY <3>2, <3>4, SnapshotAppended
    <3> QED BY <3>1, <3>5 DEF OneMore
  <2>6. SubjectReferences(n) /\ VersionNamesUnique(n)
    BY <2>4 DEF Good, EvidenceHolds, SubjectReferences, VersionNamesUnique
  <2>7. ArtifactReferences(n)
    BY <2>4, <2>5 DEF ArtifactReferences
  <2>8. VersionSnapshotReferences(n)
    BY <2>4, <2>5 DEF Good, EvidenceHolds, VersionSnapshotReferences
  <2>9. IdsKnown(n)
    <3>1. ASSUME NEW i \in DOMAIN t, t[i].id \in VersionNames \X Nat
          PROVE  t[i].id[2] < Len(d.versions)
      <4>1. t[i].id # c.id
        BY <3>1 DEF OwnSnapshotIds
      <4>2. i \in DOMAIN d.snapshots /\ t[i].id = d.snapshots[i].id
        BY <2>5, <4>1
      <4> QED BY <3>1, <4>2 DEF Good, EvidenceHolds, IdsKnown
    <3> QED BY <2>4, <3>1 DEF IdsKnown
  <2>10. Stands(d, n)
    <3>1. \A i \in DOMAIN d.versions :
            Snapshot(n, d.versions[i].ref) = Snapshot(d, d.versions[i].ref)
      <4>1. PICK id : id = c.id
        OBVIOUS
      <4>2. \A i \in DOMAIN d.snapshots : d.snapshots[i].id # id
        BY <1>2, <4>1
      <4>3. /\ \A i \in DOMAIN d.snapshots :
                 i \in DOMAIN n.snapshots /\ n.snapshots[i] = d.snapshots[i]
            /\ \A i \in DOMAIN n.snapshots : n.snapshots[i].id = id \/ i \in DOMAIN d.snapshots
        BY <2>4, <2>5, <4>1
      <4> QED BY <4>2, <4>3, NamedSnapshotsStand
    <3> QED BY <2>4, <3>1 DEF Stands
  <2>11. EvidenceHolds(n)
    BY <2>4, <2>5, <2>6, <2>7, <2>8, <2>9 DEF Good, EvidenceHolds
  <2> QED BY <2>3, <2>4, <2>10, <2>11 DEF EvidenceChange
<1> QED BY <1>1, <1>2

\* The ids of commands do not collide with the one that a submit generates now
LEMMA GeneratedIsNew ==
  ASSUME NEW d, Good(d), NEW name \in VersionNames
  PROVE  \A i \in DOMAIN d.snapshots : d.snapshots[i].id # <<name, Len(d.versions)>>
<1>1. Len(d.versions) \in Nat
  BY DEF Good, EvidenceHolds, IsList
<1>2. ASSUME NEW i \in DOMAIN d.snapshots, d.snapshots[i].id = <<name, Len(d.versions)>>
      PROVE  FALSE
  <2>1. PICK id : id = d.snapshots[i].id
    OBVIOUS
  <2>2. id \in VersionNames \X Nat /\ id[2] = Len(d.versions)
    BY <1>1, <1>2, <2>1
  <2>3. id[2] < Len(d.versions)
    BY <2>1, <2>2 DEF Good, EvidenceHolds, IdsKnown
  <2> QED BY <1>1, <2>2, <2>3
<1> QED BY <1>2

\* submitVersion gives a new name its version, with a snapshot of its own.
LEMMA VersionSubmitted ==
  ASSUME NEW d, Good(d), NEW c \in Commands, c.type = "submit-version"
  PROVE  /\ EvidenceChange(d, submitVersion(d, c).record)
         /\ \E i \in DOMAIN submitVersion(d, c).record.versions :
              submitVersion(d, c).record.versions[i].name = c.name
<1>1. CASE \E i \in DOMAIN d.versions : d.versions[i].name = c.name
  BY <1>1, UnchangedEvidence DEF submitVersion, Done
<1>2. CASE ~\E i \in DOMAIN d.versions : d.versions[i].name = c.name
  <2>1. PICK ref : ref = <<c.name, Len(d.versions)>>
    OBVIOUS
  <2>2. PICK t, e, vs : /\ t = Append(d.snapshots, [id |-> ref, artifacts |-> DOMAIN d.artifacts])
                        /\ e = [name |-> c.name, ref |-> ref]
                        /\ vs = Append(d.versions, e)
    OBVIOUS
  <2>3. PICK n : n = [d EXCEPT !.versions = vs, !.snapshots = t]
    OBVIOUS
  <2>4. submitVersion(d, c).record = n
    BY <1>2, <2>1, <2>2, <2>3 DEF submitVersion, Done, Good, Fields
  <2>5. /\ DOMAIN n = Fields /\ SameScore(d, n) /\ n.snapshots = t /\ n.versions = vs
        /\ n.policies = d.policies
        /\ n.subjects = d.subjects /\ n.releases = d.releases /\ n.artifacts = d.artifacts
    BY <2>3 DEF Good, Fields, SameScore
  <2>6. \A i \in DOMAIN d.snapshots : d.snapshots[i].id # ref
    <3>1. PICK name : name = c.name
      OBVIOUS
    <3>2. name \in VersionNames
      BY <3>1 DEF VersionNames
    <3> QED BY <2>1, <3>1, <3>2, GeneratedIsNew
  <2>7. /\ IsList(t) /\ UniqueIds(t)
        /\ \A i \in DOMAIN t : t[i].artifacts \subseteq DOMAIN d.artifacts
        /\ \A i \in DOMAIN d.snapshots : i \in DOMAIN t /\ t[i] = d.snapshots[i]
        /\ \A i \in DOMAIN t : t[i].id = ref \/ i \in DOMAIN d.snapshots
        /\ \E i \in DOMAIN t : t[i].id = ref
    <3>1. PICK s : s = [id |-> ref, artifacts |-> DOMAIN d.artifacts]
      OBVIOUS
    <3>2. s.id = ref /\ s.artifacts = DOMAIN d.artifacts /\ Extends(t, d.snapshots, s)
      BY <2>2, <3>1 DEF Extends
    <3>3. OneMore(d, ref, t)
      BY <2>6, <3>2, SnapshotAppended
    <3> QED BY <3>3 DEF OneMore
  <2>8. IsList(d.versions) /\ VersionNamesUnique(d)
    BY DEF Good, EvidenceHolds
  <2>9. /\ IsList(vs) /\ Len(d.versions) \in Nat /\ Len(vs) = Len(d.versions) + 1
        /\ DOMAIN d.versions = 1 .. Len(d.versions) /\ DOMAIN vs = 1 .. Len(d.versions) + 1
        /\ \A i \in DOMAIN d.versions : vs[i] = d.versions[i]
        /\ vs[Len(d.versions) + 1] = e
    BY <2>2, <2>8, Appended
  <2>10. e.name = c.name /\ e.ref = ref
    BY <2>2
  <2>11. VersionNamesUnique(n)
    <3>1. ASSUME NEW i \in DOMAIN vs, NEW j \in DOMAIN vs, vs[i].name = vs[j].name PROVE i = j
      <4>1. i = Len(d.versions) + 1 \/ i \in DOMAIN d.versions
        BY <2>9
      <4>2. j = Len(d.versions) + 1 \/ j \in DOMAIN d.versions
        BY <2>9
      <4> QED BY <1>2, <2>8, <2>9, <2>10, <3>1, <4>1, <4>2 DEF VersionNamesUnique
    <3> QED BY <2>5, <3>1 DEF VersionNamesUnique
  <2>12. VersionSnapshotReferences(n)
    <3>1. ASSUME NEW i \in DOMAIN vs PROVE \E j \in DOMAIN t : t[j].id = vs[i].ref
      <4>1. CASE i = Len(d.versions) + 1
        BY <2>7, <2>9, <2>10, <4>1
      <4>2. CASE i \in DOMAIN d.versions
        <5>1. vs[i] = d.versions[i]
          BY <2>9, <4>2
        <5>2. PICK j \in DOMAIN d.snapshots : d.snapshots[j].id = d.versions[i].ref
          BY <4>2 DEF Good, EvidenceHolds, VersionSnapshotReferences
        <5> QED BY <2>7, <5>1, <5>2
      <4> QED BY <2>9, <4>1, <4>2
    <3> QED BY <2>5, <3>1 DEF VersionSnapshotReferences
  <2>13. SubjectReferences(n) /\ ArtifactReferences(n)
    BY <2>5, <2>7 DEF Good, EvidenceHolds, SubjectReferences, ArtifactReferences
  <2>14. IdsKnown(n)
    <3>1. ASSUME NEW i \in DOMAIN t, t[i].id \in VersionNames \X Nat
          PROVE  t[i].id[2] < Len(vs)
      <4>1. CASE i \in DOMAIN d.snapshots
        <5>1. PICK id : id = d.snapshots[i].id /\ id = t[i].id
          BY <2>7, <4>1
        <5>2. id[2] < Len(d.versions)
          BY <3>1, <4>1, <5>1 DEF Good, EvidenceHolds, IdsKnown
        <5>3. id[2] \in Nat
          BY <3>1, <5>1
        <5> QED BY <2>9, <5>1, <5>2, <5>3
      <4>2. CASE t[i].id = ref
        BY <2>1, <2>9, <4>2
      <4> QED BY <2>7, <4>1, <4>2
    <3> QED BY <2>5, <3>1 DEF IdsKnown
  <2>15. Stands(d, n)
    <3>1. \A i \in DOMAIN d.versions :
            Snapshot(n, d.versions[i].ref) = Snapshot(d, d.versions[i].ref)
      <4>1. /\ \A i \in DOMAIN d.snapshots :
                 i \in DOMAIN n.snapshots /\ n.snapshots[i] = d.snapshots[i]
            /\ \A i \in DOMAIN n.snapshots : n.snapshots[i].id = ref \/ i \in DOMAIN d.snapshots
        BY <2>5, <2>7
      <4> QED BY <2>6, <4>1, NamedSnapshotsStand
    <3>2. \A i \in DOMAIN d.versions : i \in DOMAIN vs
      BY <2>9
    <3> QED BY <2>5, <2>9, <3>1, <3>2 DEF Stands
  <2>16. EvidenceHolds(n)
    BY <2>5, <2>7, <2>9, <2>11, <2>12, <2>13, <2>14 DEF Good, EvidenceHolds
  <2>17. \E i \in DOMAIN n.versions : n.versions[i].name = c.name
    BY <2>5, <2>9, <2>10
  <2> QED BY <2>4, <2>5, <2>15, <2>16, <2>17 DEF EvidenceChange
<1> QED BY <1>1, <1>2

-----------------------------------------------------------------------------
(* Imports                                                                 *)

\* One step of an import: the next part, unless an earlier one was refused.
Added(kind, done, part) ==
  IF done.error # "none" THEN done ELSE AddPart(kind, done.record, part)

\* AddAll adds one part after the other.
LEMMA AddedInOrder ==
  ASSUME NEW kind, NEW start, NEW parts, Len(parts) \in Nat
  PROVE  \E f : /\ f[0] = start
                /\ \A n \in 1 .. Len(parts) : f[n] = Added(kind, f[n - 1], parts[n])
                /\ AddAll(kind, start, parts) = f[Len(parts)]
<1> DEFINE Up(f, m) == f = [n \in 0 .. m |->
                              IF n = 0 THEN start
                              ELSE IF f[n - 1].error # "none" THEN f[n - 1]
                              ELSE AddPart(kind, f[n - 1].record, parts[n])]
           K == {m \in Nat : \E f : Up(f, m)}
<1>1. 0 \in K
  <2> DEFINE g == [n \in 0 .. 0 |-> start]
  <2>1. Up(g, 0)
    OBVIOUS
  <2> QED BY <2>1
<1>2. ASSUME NEW m \in Nat, m \in K PROVE m + 1 \in K
  <2>1. PICK f : Up(f, m)
    BY <1>2
  <2> DEFINE next == IF f[m].error # "none" THEN f[m] ELSE AddPart(kind, f[m].record, parts[m + 1])
             g == [n \in 0 .. m + 1 |-> IF n = m + 1 THEN next ELSE f[n]]
  <2>2. ASSUME NEW n \in 0 .. m PROVE g[n] = f[n]
    OBVIOUS
  <2>3. g[m + 1] = next
    OBVIOUS
  <2>4. ASSUME NEW n \in 0 .. m + 1
        PROVE  g[n] = IF n = 0 THEN start
                      ELSE IF g[n - 1].error # "none" THEN g[n - 1]
                      ELSE AddPart(kind, g[n - 1].record, parts[n])
    <3> HIDE DEF g
    <3>1. CASE n = m + 1
      BY <2>2, <2>3, <3>1
    <3>2. CASE n # m + 1
      <4>1. n \in 0 .. m
        BY <3>2
      <4>2. g[n] = f[n] /\ (n # 0 => g[n - 1] = f[n - 1])
        BY <2>2, <4>1
      <4>3. f[n] = IF n = 0 THEN start
                   ELSE IF f[n - 1].error # "none" THEN f[n - 1]
                   ELSE AddPart(kind, f[n - 1].record, parts[n])
        BY <2>1, <4>1
      <4> QED BY <4>2, <4>3
    <3> QED BY <3>1, <3>2
  <2>5. g = [n \in 0 .. m + 1 |-> g[n]]
    OBVIOUS
  <2>6. Up(g, m + 1)
    <3> HIDE DEF g
    <3> QED BY <2>4, <2>5
  <2>7. m + 1 \in Nat /\ \E h : Up(h, m + 1)
    <3> HIDE DEF g, Up
    <3> QED BY <2>6
  <2> QED BY <2>7
<1>3. Len(parts) \in K
  <2> HIDE DEF K
  <2> QED BY <1>1, <1>2, NumbersByInduction
<1>4. \E f : Up(f, Len(parts))
  BY <1>3
<1> DEFINE f == CHOOSE g : Up(g, Len(parts))
<1>5. Up(f, Len(parts))
  <2> HIDE DEF Up
  <2> QED BY <1>4
<1>6. AddAll(kind, start, parts) = f[Len(parts)]
  BY DEF AddAll
<1> HIDE DEF f
<1>7. /\ f[0] = start
      /\ \A n \in 1 .. Len(parts) : f[n] = Added(kind, f[n - 1], parts[n])
  BY <1>5 DEF Added
<1> QED BY <1>6, <1>7

\* The parts that imports are made of
Kinds == {"region", "comment", "track", "take"}

\* The times of a region are numbers.
PartFits(kind, part) == kind = "region" => part.start \in Int /\ part.end \in Int

\* Two changes of the score are one.
LEMMA ScoreChangesChain ==
  ASSUME NEW d, Good(d), NEW x, ScoreChange(d, x)
  PROVE  /\ Good(x)
         /\ \A y : ScoreChange(x, y) => ScoreChange(d, y)
<1>1. Good(x)
  BY SameEvidenceHolds DEF ScoreChange, Good
<1>2. ASSUME NEW y, ScoreChange(x, y) PROVE ScoreChange(d, y)
  BY <1>2 DEF ScoreChange, SameEvidence
<1> QED BY <1>1, <1>2

\* A part of an import changes the score,
LEMMA PartAdded ==
  ASSUME NEW d, Good(d), NEW kind \in Kinds, NEW part, PartFits(kind, part)
  PROVE  ScoreChange(d, AddPart(kind, d, part).record)
<1>1. CASE kind = "region"
  BY <1>1, RegionAdded DEF PartFits, AddPart
<1>2. CASE kind = "comment"
  BY <1>2, CommentAdded DEF AddPart
<1>3. CASE kind = "track"
  BY <1>3, TrackAdded, UnchangedScore DEF AddPart, Done
<1>4. CASE kind = "take"
  BY <1>4, TakeAdded, UnchangedScore DEF AddPart, Done
<1> QED BY <1>1, <1>2, <1>3, <1>4 DEF Kinds

\* and so do all of them, one after the other.
LEMMA PartsAdded ==
  ASSUME NEW d, Good(d), NEW start, ScoreChange(d, start.record), NEW kind \in Kinds,
         NEW parts, IsList(parts), \A i \in DOMAIN parts : PartFits(kind, parts[i])
  PROVE  ScoreChange(d, AddAll(kind, start, parts).record)
<1>1. Len(parts) \in Nat /\ DOMAIN parts = 1 .. Len(parts)
  BY DEF IsList
<1>2. PICK f : /\ f[0] = start
               /\ \A n \in 1 .. Len(parts) : f[n] = Added(kind, f[n - 1], parts[n])
               /\ AddAll(kind, start, parts) = f[Len(parts)]
  BY <1>1, AddedInOrder
<1> DEFINE K == {n \in Nat : n <= Len(parts) => ScoreChange(d, f[n].record)}
<1>3. 0 \in K
  BY <1>2
<1>4. ASSUME NEW n \in Nat, n \in K PROVE n + 1 \in K
  <2>1. SUFFICES ASSUME n + 1 <= Len(parts) PROVE ScoreChange(d, f[n + 1].record)
    OBVIOUS
  <2>2. ScoreChange(d, f[n].record) /\ n + 1 \in 1 .. Len(parts) /\ (n + 1) - 1 = n
    BY <1>1, <1>4, <2>1
  <2>3. f[n + 1] = Added(kind, f[n], parts[n + 1])
    BY <1>2, <2>2
  <2>4. PICK x : x = f[n].record
    OBVIOUS
  <2>5. Good(x) /\ \A y : ScoreChange(x, y) => ScoreChange(d, y)
    BY <2>2, <2>4, ScoreChangesChain
  <2>6. PICK part : part = parts[n + 1] /\ PartFits(kind, part)
    BY <1>1, <2>2
  <2>7. ScoreChange(x, AddPart(kind, x, part).record)
    BY <2>5, <2>6, PartAdded
  <2> QED BY <2>2, <2>3, <2>4, <2>5, <2>6, <2>7 DEF Added
<1>5. Len(parts) \in K
  <2> HIDE DEF K
  <2> QED BY <1>1, <1>3, <1>4, NumbersByInduction
<1> QED BY <1>1, <1>2, <1>5

\* importEaf keeps the score sound, and the evidence as it is.
LEMMA EafImported ==
  ASSUME NEW d, Good(d), NEW c, c.type = "import-eaf", IsCommand(c)
  PROVE  ScoreChange(d, importEaf(d, c).record)
<1>1. /\ IsList(c.regions) /\ IsList(c.comments)
      /\ \A i \in DOMAIN c.regions : PartFits("region", c.regions[i])
      /\ \A i \in DOMAIN c.comments : PartFits("comment", c.comments[i])
  BY DEF IsCommand, IsList, PartFits
<1>2. PICK start : start = Done(d)
  OBVIOUS
<1>3. ScoreChange(d, start.record)
  BY <1>2, UnchangedScore DEF Done
<1>4. PICK mid : mid = AddAll("region", start, c.regions)
  OBVIOUS
<1>5. ScoreChange(d, mid.record)
  BY <1>1, <1>3, <1>4, PartsAdded DEF Kinds
<1>6. ScoreChange(d, AddAll("comment", mid, c.comments).record)
  BY <1>1, <1>5, PartsAdded DEF Kinds
<1> QED BY <1>2, <1>4, <1>6 DEF importEaf

\* So does importOtio.
LEMMA OtioImported ==
  ASSUME NEW d, Good(d), NEW c, c.type = "import-otio", IsCommand(c)
  PROVE  ScoreChange(d, importOtio(d, c).record)
<1>1. /\ IsList(c.tracks) /\ IsList(c.takes)
      /\ \A i \in DOMAIN c.tracks : PartFits("track", c.tracks[i])
      /\ \A i \in DOMAIN c.takes : PartFits("take", c.takes[i])
  BY DEF IsCommand, IsList, PartFits
<1>2. PICK start : start = Done(d)
  OBVIOUS
<1>3. ScoreChange(d, start.record)
  BY <1>2, UnchangedScore DEF Done
<1>4. PICK mid : mid = AddAll("track", start, c.tracks)
  OBVIOUS
<1>5. ScoreChange(d, mid.record)
  BY <1>1, <1>3, <1>4, PartsAdded DEF Kinds
<1>6. ScoreChange(d, AddAll("take", mid, c.takes).record)
  BY <1>1, <1>5, PartsAdded DEF Kinds
<1> QED BY <1>2, <1>4, <1>6 DEF importOtio

-----------------------------------------------------------------------------
(* Every command                                                           *)

\* A change of the members concerns neither the score nor the evidence.
LEMMA MemberAdded ==
  ASSUME NEW d, Good(d), NEW members
  PROVE  ScoreChange(d, [d EXCEPT !.members = members])
<1>1. PICK n : n = [d EXCEPT !.members = members]
  OBVIOUS
<1>2. DOMAIN n = Fields /\ SameEvidence(d, n) /\ SameScore(d, n)
  BY <1>1 DEF Good, Fields, SameEvidence, SameScore
<1>3. ScoreHolds(n)
  BY <1>2, SameScoreHolds DEF Good
<1> QED BY <1>1, <1>2, <1>3 DEF ScoreChange

\* Nor does patch,
LEMMA Patched ==
  ASSUME NEW d, Good(d), NEW c
  PROVE  ScoreChange(d, patch(d, c).record)
<1>1. PICK n : n = patch(d, c).record
  OBVIOUS
<1>2. DOMAIN n = Fields /\ SameEvidence(d, n) /\ SameScore(d, n)
  BY <1>1 DEF Good, Fields, SameEvidence, SameScore, patch, Done
<1>3. ScoreHolds(n)
  BY <1>2, SameScoreHolds DEF Good
<1> QED BY <1>1, <1>2, <1>3 DEF ScoreChange

\* nor an annotation.
LEMMA AnnotationAdded ==
  ASSUME NEW d, Good(d)
  PROVE  ScoreChange(d, addAnnotation(d).record)
<1>1. PICK n : n = addAnnotation(d).record
  OBVIOUS
<1>2. DOMAIN n = Fields /\ SameEvidence(d, n) /\ SameScore(d, n)
  BY <1>1 DEF Good, Fields, SameEvidence, SameScore, addAnnotation, Done
<1>3. ScoreHolds(n)
  BY <1>2, SameScoreHolds DEF Good
<1> QED BY <1>1, <1>2, <1>3 DEF ScoreChange

\* Every command changes the score or the evidence.
LEMMA TransitionChanges ==
  ASSUME NEW d, Good(d), NEW c \in Commands, IsCommand(c), OwnSnapshotIds, NEW actor
  PROVE  LET n == transitionWorkRecord(d, c, actor).record
         IN  ScoreChange(d, n) \/ EvidenceChange(d, n)
<1>1. CASE c.type = "add-track"
  BY <1>1, TrackAdded DEF transitionWorkRecord
<1>2. CASE c.type = "add-analysis-track"
  BY <1>2, TrackPut, UnchangedScore DEF transitionWorkRecord, addAnalysisTrack, Throws
<1>3. CASE c.type = "attach-mvei-motif-track"
  BY <1>3, MotifTrackAttached DEF transitionWorkRecord
<1>4. CASE c.type = "attach-music-notation-track"
  BY <1>4, TrackPut DEF transitionWorkRecord, attachMusicNotationTrack
<1>5. CASE c.type = "add-take"
  BY <1>5, TakeAdded DEF transitionWorkRecord
<1>6. CASE c.type = "set-preferred-take"
  BY <1>6, PreferredTakeSet DEF transitionWorkRecord
<1>7. CASE c.type = "add-region"
  BY <1>7, RegionAdded DEF transitionWorkRecord, IsCommand
<1>8. CASE c.type = "add-comment"
  BY <1>8, CommentAdded DEF transitionWorkRecord
<1>9. CASE c.type = "resolve-comment"
  BY <1>9, CommentResolved DEF transitionWorkRecord
<1>10. CASE c.type = "attach-use-policy-snapshot"
  BY <1>10, ReleaseAttached DEF transitionWorkRecord
<1>11. CASE c.type = "submit-version"
  BY <1>11, VersionSubmitted DEF transitionWorkRecord
<1>12. CASE c.type = "add-subject"
  BY <1>12, SubjectAdded DEF transitionWorkRecord
<1>13. CASE c.type = "add-artifact"
  BY <1>13, ArtifactAdded DEF transitionWorkRecord
<1>14. CASE c.type = "add-annotation"
  BY <1>14, AnnotationAdded DEF transitionWorkRecord
<1>15. CASE c.type = "add-use-policy"
  BY <1>15, PolicyAdded DEF transitionWorkRecord
<1>16. CASE c.type = "add-snapshot"
  BY <1>16, SnapshotAdded DEF transitionWorkRecord
<1>17. CASE c.type = "add-member"
  BY <1>17, MemberAdded DEF transitionWorkRecord, addMember, Done
<1>18. CASE c.type = "patch"
  BY <1>18, Patched DEF transitionWorkRecord
<1>19. CASE c.type = "import-eaf"
  BY <1>19, EafImported DEF transitionWorkRecord
<1>20. CASE c.type = "import-otio"
  BY <1>20, OtioImported DEF transitionWorkRecord
<1> QED BY <1>1, <1>2, <1>3, <1>4, <1>5, <1>6, <1>7, <1>8, <1>9, <1>10, <1>11, <1>12,
           <1>13, <1>14, <1>15, <1>16, <1>17, <1>18, <1>19, <1>20
        DEF IsCommand, CommandTypes

\* What a command makes of a good document follows it.
LEMMA TransitionFollows ==
  ASSUME NEW d, Good(d), NEW c \in Commands, IsCommand(c), OwnSnapshotIds, NEW actor
  PROVE  Follows(d, transitionWorkRecord(d, c, actor).record)
<1>1. PICK n : n = transitionWorkRecord(d, c, actor).record
  OBVIOUS
<1>2. ScoreChange(d, n) \/ EvidenceChange(d, n)
  BY <1>1, TransitionChanges
<1> QED BY <1>1, <1>2, ChangesFollow

\* A good document satisfies what aggregate-invariants.ts checks.
LEMMA GoodDocumentsParse ==
  ASSUME NEW d, Good(d)
  PROVE  AggregateInvariants(d)
BY DEF Good, ScoreHolds, EvidenceHolds, AggregateInvariants

\* The document of createEmptyRecord and its first member is good.
LEMMA FirstDocumentIsGood ==
  ASSUME NEW user
  PROVE  Good(addMember(createEmptyRecord("Untitled"), user, AccountRole[user]))
<1>1. PICK d : d = addMember(createEmptyRecord("Untitled"), user, AccountRole[user])
  OBVIOUS
<1>2. /\ DOMAIN d = Fields /\ d.regions = <<>> /\ d.takes = <<>> /\ d.takeIds = {}
      /\ d.preferred = Unset /\ d.comments = <<>> /\ d.versions = <<>> /\ d.snapshots = <<>>
      /\ d.releases = <<>> /\ d.subjects = {} /\ d.artifacts = <<>> /\ d.policies = <<>>
  BY <1>1 DEF addMember, createEmptyRecord, Fields
<1>3. DOMAIN <<>> = {}
  OBVIOUS
<1>4. ScoreHolds(d)
  BY <1>2, <1>3 DEF ScoreHolds, ValidRegions, TakeCoherence, CommentAnchors
<1>5. IsList(<<>>)
  BY DEF IsList
<1>6. EvidenceHolds(d)
  BY <1>2, <1>3, <1>5 DEF EvidenceHolds, IdsKnown, VersionNamesUnique, UniqueIds,
                         SubjectReferences, ArtifactReferences, VersionSnapshotReferences
<1> QED BY <1>1, <1>2, <1>4, <1>6 DEF Good

\* The revision that a store gives a document changes nothing else.
LEMMA WrittenFollows ==
  ASSUME NEW d, NEW n, Follows(d, n)
  PROVE  Follows(d, Written(n, d))
<1>1. PICK w : w = Written(n, d)
  OBVIOUS
<1>2. DOMAIN w = Fields /\ SameEvidence(n, w) /\ SameScore(n, w)
  BY <1>1 DEF Written, Follows, Good, Fields, SameEvidence, SameScore
<1>3. ScoreHolds(w) /\ EvidenceHolds(w)
  BY <1>2, SameScoreHolds, SameEvidenceHolds DEF Follows, Good
<1>4. Stands(d, w)
  <2>1. w.versions = n.versions /\ w.policies = n.policies
    BY <1>2 DEF SameEvidence
  <2>2. \A ref : Snapshot(w, ref) = Snapshot(n, ref)
    BY <1>2 DEF SameEvidence, Snapshot
  <2> QED BY <2>1, <2>2 DEF Follows, Stands
<1> QED BY <1>1, <1>2, <1>3, <1>4 DEF Follows, Good

-----------------------------------------------------------------------------
(* The stored record                                                       *)

\* The commands of clients are parsed, and their snapshot ids are their own.
CommandsFit == (\A c \in Commands : IsCommand(c)) /\ OwnSnapshotIds

\* The stored document is good.
IInv == record # NoRecord => Good(record)

\* What any step leaves in the store follows what was there.
LEMMA StepFollows ==
  ASSUME CommandsFit, IInv, record # NoRecord, [Next]_vars
  PROVE  Follows(record, record')
<1>1. Good(record)
  BY DEF IInv
<1>2. ASSUME NEW user \in Users, NEW c \in Commands, Change(user, c)
      PROVE  Follows(record, record')
  <2>1. PICK n : n = transitionWorkRecord(record, c, user).record
    OBVIOUS
  <2>2. Follows(record, n)
    BY <1>1, <2>1, TransitionFollows DEF CommandsFit
  <2>3. record' = Written(n, record)
    BY <1>2, <2>1 DEF Change
  <2> QED BY <2>2, <2>3, WrittenFollows
<1>3. CASE UNCHANGED vars
  <2>1. record' = record
    BY <1>3 DEF vars
  <2>2. Follows(record, record)
    BY <1>1, UnchangedScore, ChangesFollow
  <2> QED BY <2>1, <2>2
<1>4. ASSUME NEW user, Create(user) PROVE FALSE
  BY <1>4 DEF Create
<1> QED BY <1>2, <1>3, <1>4 DEF Next

\* The stored document is good at every time, through any commands of anybody
\* (transitionWorkRecord, addMember, patch, importEaf, importOtio).
THEOREM DocumentsStayGood ==
  ASSUME CommandsFit
  PROVE  Spec => []IInv
<1>1. Init => IInv
  BY DEF Init, IInv
<1>2. IInv /\ [Next]_vars => IInv'
  <2> SUFFICES ASSUME IInv, [Next]_vars PROVE IInv'
    OBVIOUS
  <2>1. CASE record # NoRecord
    BY <2>1, StepFollows DEF Follows, IInv
  <2>2. CASE record = NoRecord
    <3>1. ASSUME NEW user, Create(user) PROVE Good(record')
      BY <3>1, FirstDocumentIsGood DEF Create
    <3>2. ASSUME NEW user, NEW c, Change(user, c) PROVE FALSE
      BY <2>2, <3>2 DEF Change
    <3>3. CASE UNCHANGED vars
      BY <2>2, <3>3 DEF vars, IInv
    <3> QED BY <3>1, <3>2, <3>3 DEF Next, IInv
  <2> QED BY <2>1, <2>2
<1> QED BY <1>1, <1>2, PTL DEF Spec

\* No command fails after it was found legal: what a transition accepts, the check
\* of aggregate-invariants.ts before it is stored accepts (TransitionsParse).
THEOREM EveryCommandParses ==
  ASSUME CommandsFit
  PROVE  Spec => []TransitionsParse
<1>1. IInv => TransitionsParse
  <2> SUFFICES ASSUME IInv, record # NoRecord, NEW user \in DOMAIN record.members,
                      NEW c \in Commands
               PROVE  AggregateInvariants(transitionWorkRecord(record, c, user).record)
    BY DEF TransitionsParse
  <2>1. Good(record)
    BY DEF IInv
  <2>2. Follows(record, transitionWorkRecord(record, c, user).record)
    BY <2>1, TransitionFollows DEF CommandsFit
  <2> QED BY <2>2, GoodDocumentsParse DEF Follows
<1> QED BY <1>1, DocumentsStayGood, PTL

\* A submit of a new name always creates its version and a document that can be
\* stored, when no client chooses a snapshot id that a submit generates: the only
\* way submitVersion goes wrong is the collision that record_submit shows.
THEOREM SubmitsTakeEffect ==
  ASSUME CommandsFit
  PROVE  Spec => []SubmitCreatesVersion
<1>1. IInv => SubmitCreatesVersion
  <2> SUFFICES ASSUME IInv, record # NoRecord, NEW c \in Commands, c.type = "submit-version"
               PROVE  LET next == submitVersion(record, c).record
                      IN /\ AggregateInvariants(next)
                         /\ \E i \in DOMAIN next.versions : next.versions[i].name = c.name
    BY DEF SubmitCreatesVersion
  <2>1. Good(record)
    BY DEF IInv
  <2>2. PICK n : n = submitVersion(record, c).record
    OBVIOUS
  <2>3. EvidenceChange(record, n) /\ \E i \in DOMAIN n.versions : n.versions[i].name = c.name
    BY <2>1, <2>2, VersionSubmitted
  <2>4. AggregateInvariants(n)
    BY <2>1, <2>3, ChangesFollow, GoodDocumentsParse DEF Follows
  <2> QED BY <2>2, <2>3, <2>4
<1> QED BY <1>1, DocumentsStayGood, PTL

\* A policy that refuses a use, and that stands, keeps evidence of its subject in.
LEMMA RefusedStaysRefused ==
  ASSUME NEW d, NEW n, Stands(d, n), NEW s, NEW use, Refused(d, s, use), Shows(n, s)
  PROVE  ~evaluateExportPolicy(n, "explicit", use)
<1> SUFFICES ASSUME ExplicitGrant(n, use) PROVE FALSE
  BY DEF evaluateExportPolicy
<1>1. PICK p \in DOMAIN d.policies :
        /\ d.policies[p].subject = s /\ d.policies[p].use = use
        /\ d.policies[p].state \in {"denied", "withdrawn"}
  BY DEF Refused
<1>2. p \in DOMAIN n.policies /\ n.policies[p] = d.policies[p]
  BY DEF Stands
<1>3. PICK a \in DOMAIN n.artifacts : s \in n.artifacts[a].subjects
  BY DEF Shows
<1>4. PICK states :
        /\ states = {n.policies[q].state : q \in
                       {r \in DOMAIN n.policies :
                          n.policies[r].subject = s /\ n.policies[r].use = use}}
        /\ states \intersect {"denied", "withdrawn"} = {}
  BY <1>3 DEF ExplicitGrant
<1>5. n.policies[p].state \in states
  BY <1>1, <1>2, <1>4
<1> QED BY <1>1, <1>2, <1>4, <1>5

\* Submitted versions with their snapshots, and refusals of a use, stand through any
\* later command of anybody (submitVersion, addSnapshot, addUsePolicy,
\* evaluateExplicitRequest).
THEOREM HistoryAlwaysStands ==
  ASSUME CommandsFit
  PROVE  Spec => HistoryStands
<1>1. IInv /\ [Next]_vars =>
        [ record # NoRecord =>
            \A i \in DOMAIN record.versions :
              /\ i \in DOMAIN record'.versions
              /\ record'.versions[i] = record.versions[i]
              /\ Snapshot(record', record.versions[i].ref) =
                   Snapshot(record, record.versions[i].ref) ]_vars
  BY StepFollows DEF Follows, Stands
<1>2. IInv /\ [Next]_vars =>
        [ record # NoRecord =>
            \A s \in record.subjects, use \in {"assessment", "archive"} :
              Refused(record, s, use) /\ Shows(record', s) =>
                ~evaluateExportPolicy(record', "explicit", use) ]_vars
  BY StepFollows, RefusedStaysRefused DEF Follows
<1>3. Spec => VersionsStand
  BY <1>1, DocumentsStayGood, PTL DEF Spec, VersionsStand
<1>4. Spec => RefusalStands
  BY <1>2, DocumentsStayGood, PTL DEF Spec, RefusalStands
<1> QED BY <1>3, <1>4 DEF HistoryStands
===============================================================================
