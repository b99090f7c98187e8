------------------------------ MODULE WorkRecord ------------------------------
(***************************************************************************)
(* The WorkRecord aggregate (packages/work-record): pure transitions of    *)
(* one document, the roles that permit them, the invariants a document is  *)
(* parsed against, and the policies that let it leave the system.          *)
(*                                                                         *)
(* A transition yields [error, record]: error is "none", or the class of   *)
(* the exception the code throws ("invalid", "duplicate").  Collections    *)
(* whose adder refuses a known id are partial functions from ids; versions,*)
(* snapshots and releases, whose order or generated ids matter, are        *)
(* sequences.  Text is abstracted to the identifiers that are compared.    *)
(***************************************************************************)
EXTENDS Integers, SequencesExt

Roles == {"student", "faculty", "admin", "guest"}

AllMutations ==
  { "edit_record", "edit_members", "invite_faculty", "add_track", "add_take",
    "set_preferred_take", "add_region", "add_comment", "resolve_comment",
    "attach_use_policy", "submit", "export", "import", "lti", "share",
    "analysis", "attach_mvei", "admin", "add_subject", "add_artifact",
    "add_annotation", "manage_policy", "create_snapshot" }

RolePermissions ==
  [ admin   |-> AllMutations,
    faculty |-> AllMutations \ {"admin"},
    student |-> { "invite_faculty", "add_take", "set_preferred_take",
                  "add_comment", "resolve_comment", "attach_use_policy",
                  "export", "share", "attach_mvei", "add_subject",
                  "add_artifact", "add_annotation", "create_snapshot",
                  "submit" },
    guest   |-> {} ]

CommandTypes ==
  { "add-track", "add-analysis-track", "attach-mvei-motif-track",
    "attach-music-notation-track", "add-take", "set-preferred-take",
    "add-region", "add-comment", "resolve-comment",
    "attach-use-policy-snapshot", "submit-version", "add-subject",
    "add-artifact", "add-annotation", "add-use-policy", "add-snapshot" }

CommandPermissions ==
  [ type \in CommandTypes |->
      CASE type \in {"add-track", "attach-music-notation-track"} -> "add_track"
        [] type = "add-analysis-track"         -> "analysis"
        [] type = "attach-mvei-motif-track"    -> "attach_mvei"
        [] type = "add-take"                   -> "add_take"
        [] type = "set-preferred-take"         -> "set_preferred_take"
        [] type = "add-region"                 -> "add_region"
        [] type = "add-comment"                -> "add_comment"
        [] type = "resolve-comment"            -> "resolve_comment"
        [] type = "attach-use-policy-snapshot" -> "attach_use_policy"
        [] type = "submit-version"             -> "submit"
        [] type = "add-subject"                -> "add_subject"
        [] type = "add-artifact"               -> "add_artifact"
        [] type = "add-annotation"             -> "add_annotation"
        [] type = "add-use-policy"             -> "manage_policy"
        [] type = "add-snapshot"               -> "create_snapshot" ]

\* canMutate: membership is the sole source of authorisation.
CanMutate(record, user, mutation) ==
  user \in DOMAIN record.members
    /\ mutation \in RolePermissions[record.members[user]]

\* What a store has under an id without a record.
NoRecord == [revision |-> -1]

\* The partial function f with a value under one key.
Put(f, key, value) ==
  [k \in DOMAIN f \union {key} |-> IF k = key THEN value ELSE f[k]]

Done(record) == [error |-> "none", record |-> record]
Throws(error, record) == [error |-> error, record |-> record]

-----------------------------------------------------------------------------
(* The empty record and its transitions.                                   *)

Unset == "none"

createEmptyRecord(title) ==
  [ revision |-> 0, title |-> title, members |-> <<>>, tracks |-> <<>>,
    takeIds |-> {}, takes |-> <<>>, preferred |-> Unset, regions |-> <<>>,
    comments |-> <<>>, versions |-> <<>>, snapshots |-> <<>>,
    releases |-> <<>>, subjects |-> {}, artifacts |-> <<>>,
    policies |-> <<>>, annotations |-> 0, capability |-> "annotation" ]

addMember(record, user, role) ==
  [record EXCEPT !.members = Put(@, user, role)]

addTrack(record, c) ==
  IF c.id \in DOMAIN record.tracks THEN Throws("duplicate", record)
  ELSE Done([record EXCEPT !.tracks = Put(@, c.id, c.track)])

\* The three adders that replace a track of their own type and no other.
PutTrack(record, id, type) ==
  IF id \in DOMAIN record.tracks /\ record.tracks[id] # type
  THEN Throws("invalid", record)
  ELSE Done([record EXCEPT !.tracks = Put(@, id, type)])

addAnalysisTrack(record, c) ==
  IF c.track # "analysis" THEN Throws("invalid", record)
  ELSE PutTrack(record, c.id, "analysis")

attachMveiMotifTrack(record, c) ==
  LET put == PutTrack(record, c.id, "movement_notation")
  IN IF put.error # "none" THEN put
     ELSE Done([put.record EXCEPT
                  !.capability = IF @ \in {"none", "annotation"}
                                 THEN "mvei_view" ELSE @])

attachMusicNotationTrack(record, c) ==
  PutTrack(record, c.id, "music_notation")

\* A known take is merged: what the command does not name is kept, and the
\* commands of the API name the label only.
addTake(record, c) ==
  Done([record EXCEPT
    !.takeIds = @ \union {c.id},
    !.takes = Put(@, c.id, [label |-> c.label,
                            media |-> IF c.id \in DOMAIN @ THEN @[c.id].media
                                      ELSE Unset])])

\* Mutant: the preferred take is not looked up.
setPreferredTake_Unchecked(record, c) ==
  Done([record EXCEPT !.preferred = c.id])

setPreferredTake(record, c) ==
  IF c.id \notin record.takeIds THEN Throws("invalid", record)
  ELSE Done([record EXCEPT !.preferred = c.id])

addRegion(record, c) ==
  IF c.start < 0 \/ c.end <= c.start THEN Throws("invalid", record)
  ELSE IF c.id \in DOMAIN record.regions THEN Throws("duplicate", record)
  ELSE Done([record EXCEPT
               !.regions = Put(@, c.id, [start |-> c.start, end |-> c.end])])

\* Generated comment ids are cmt-<n>: the number stands for the id.
nextCommentId(comments) ==
  CHOOSE n \in Cardinality(DOMAIN comments) + 1 ..
               2 * Cardinality(DOMAIN comments) + 1 :
    /\ n \notin DOMAIN comments
    /\ \A m \in Cardinality(DOMAIN comments) + 1 .. n - 1 :
         m \in DOMAIN comments

addComment(record, c, author) ==
  LET id == IF c.id = 0 THEN nextCommentId(record.comments) ELSE c.id
  IN IF \/ c.region \notin DOMAIN record.regions
        \/ c.track # Unset /\ c.track \notin DOMAIN record.tracks
     THEN Throws("invalid", record)
     ELSE IF id \in DOMAIN record.comments THEN Throws("duplicate", record)
     ELSE Done([record EXCEPT
                  !.comments = Put(@, id, [region |-> c.region,
                                           track |-> c.track,
                                           author |-> author,
                                           resolved |-> FALSE])])

resolveComment(record, c) ==
  IF c.id \notin DOMAIN record.comments THEN Throws("invalid", record)
  ELSE Done([record EXCEPT !.comments[c.id].resolved = TRUE])

attachUsePolicySnapshot(record, c, subject) ==
  IF \E i \in DOMAIN record.releases : record.releases[i].id = c.id
  THEN Throws("duplicate", record)
  ELSE Done([record EXCEPT
               !.releases = Append(@, [id |-> c.id, subject |-> subject,
                                       allowed |-> c.allowed])])

\* Mutant: a version of a known name is submitted again, and replaces it.
submitVersion_Again(record, c) ==
  LET ref == <<c.name, Len(record.versions)>>
  IN Done([record EXCEPT
             !.versions = Append(SelectSeq(@, LAMBDA v : v.name # c.name),
                                 [name |-> c.name, ref |-> ref]),
             !.snapshots = Append(SelectSeq(@, LAMBDA t : t.id # ref),
                                  [id |-> ref,
                                   artifacts |-> DOMAIN record.artifacts])])

\* A generated snapshot id is snapshot-<name>-<n>: the pair stands for it.
submitVersion(record, c) ==
  IF \E i \in DOMAIN record.versions : record.versions[i].name = c.name
  THEN Done(record)
  ELSE LET ref == <<c.name, Len(record.versions)>>
       IN Done([record EXCEPT
                  !.versions = Append(@, [name |-> c.name, ref |-> ref]),
                  !.snapshots = Append(@,
                    [id |-> ref, artifacts |-> DOMAIN record.artifacts])])

addRepresentedSubject(record, c) ==
  IF c.id \in record.subjects THEN Throws("duplicate", record)
  ELSE Done([record EXCEPT !.subjects = @ \union {c.id}])

addArtifact(record, c) ==
  IF c.id \in DOMAIN record.artifacts THEN Throws("duplicate", record)
  ELSE IF \/ c.preserve /\ ~c.hashed
          \/ ~(c.subjects \subseteq record.subjects)
       THEN Throws("invalid", record)
  ELSE Done([record EXCEPT
               !.artifacts = Put(@, c.id, [subjects |-> c.subjects,
                                           preserve |-> c.preserve,
                                           hashed |-> c.hashed])])

addAnnotation(record) == Done([record EXCEPT !.annotations = @ + 1])

\* Mutant: a policy replaces the one of its id.
addUsePolicy_Replaces(record, c) ==
  IF c.subject \notin record.subjects THEN Throws("invalid", record)
  ELSE Done([record EXCEPT
               !.policies = Put(@, c.id, [subject |-> c.subject, use |-> c.use,
                                          state |-> c.state])])

addUsePolicy(record, c) ==
  IF c.subject \notin record.subjects THEN Throws("invalid", record)
  ELSE IF c.id \in DOMAIN record.policies THEN Throws("duplicate", record)
  ELSE Done([record EXCEPT
               !.policies = Put(@, c.id, [subject |-> c.subject, use |-> c.use,
                                          state |-> c.state])])

\* The route fills in the artifacts of the record it changes.
addSnapshot(record, c) ==
  IF \E i \in DOMAIN record.snapshots : record.snapshots[i].id = c.id
  THEN Throws("duplicate", record)
  ELSE Done([record EXCEPT
               !.snapshots = Append(@, [id |-> c.id,
                                        artifacts |-> DOMAIN record.artifacts])])

\* PATCH: what the body names replaces what the latest record has.
patch(record, c) ==
  Done([record EXCEPT
          !.title   = IF "title" \in c.fields THEN c.title ELSE @,
          !.members = IF "members" \in c.fields THEN c.members ELSE @])

\* One part of an import: regions, and the comments on them, which keep the
\* authors of the document; a track or take that the record knows is left alone,
\* and a take never brings a media path with it.
AddPart(kind, record, part) ==
  CASE kind = "region"  -> addRegion(record, part)
    [] kind = "comment" -> addComment(record, part, part.author)
    [] kind = "track"   -> IF part.id \in DOMAIN record.tracks THEN Done(record)
                           ELSE addTrack(record, part)
    [] kind = "take"    -> IF part.id \in record.takeIds THEN Done(record)
                           ELSE addTake(record, part)

\* The parts are added one after the other, up to the first that is refused.
AddAll(kind, start, parts) ==
  LET after[n \in 0 .. Len(parts)] ==
        IF n = 0 THEN start
        ELSE IF after[n - 1].error # "none" THEN after[n - 1]
        ELSE AddPart(kind, after[n - 1].record, parts[n])
  IN after[Len(parts)]

importEaf(record, c) ==
  AddAll("comment", AddAll("region", Done(record), c.regions), c.comments)

importOtio(record, c) ==
  AddAll("take", AddAll("track", Done(record), c.tracks), c.takes)

\* A command that its route parses: a known type, times that are numbers, and
\* imports that are lists.
IsCommand(c) ==
  /\ c.type \in CommandTypes \union {"add-member", "patch", "import-eaf", "import-otio"}
  /\ c.type = "add-region" => c.start \in Int /\ c.end \in Int
  /\ c.type = "patch" => c.fields \subseteq {"title", "members"}
  /\ c.type = "import-eaf" =>
       /\ c.regions \in Seq(Range(c.regions)) /\ c.comments \in Seq(Range(c.comments))
       /\ \A i \in DOMAIN c.regions : c.regions[i].start \in Int /\ c.regions[i].end \in Int
  /\ c.type = "import-otio" =>
       c.tracks \in Seq(Range(c.tracks)) /\ c.takes \in Seq(Range(c.takes))

transitionWorkRecord(record, c, actor) ==
  CASE c.type = "add-track"                   -> addTrack(record, c)
    [] c.type = "add-analysis-track"          -> addAnalysisTrack(record, c)
    [] c.type = "attach-mvei-motif-track"     -> attachMveiMotifTrack(record, c)
    [] c.type = "attach-music-notation-track" -> attachMusicNotationTrack(record, c)
    [] c.type = "add-take"                    -> addTake(record, c)
    [] c.type = "set-preferred-take"          -> setPreferredTake(record, c)
    [] c.type = "add-region"                  -> addRegion(record, c)
    [] c.type = "add-comment"                 -> addComment(record, c, actor)
    [] c.type = "resolve-comment"             -> resolveComment(record, c)
    [] c.type = "attach-use-policy-snapshot"  -> attachUsePolicySnapshot(record, c, actor)
    [] c.type = "submit-version"              -> submitVersion(record, c)
    [] c.type = "add-subject"                 -> addRepresentedSubject(record, c)
    [] c.type = "add-artifact"                -> addArtifact(record, c)
    [] c.type = "add-annotation"              -> addAnnotation(record)
    [] c.type = "add-use-policy"              -> addUsePolicy(record, c)
    [] c.type = "add-snapshot"                -> addSnapshot(record, c)
    [] c.type = "add-member"                  -> Done(addMember(record, c.user, c.role))
    [] c.type = "patch"                       -> patch(record, c)
    [] c.type = "import-eaf"                  -> importEaf(record, c)
    [] c.type = "import-otio"                 -> importOtio(record, c)

-----------------------------------------------------------------------------
(* What a parsed document satisfies (aggregate-invariants.ts).             *)

UniqueIds(seq) ==
  \A i, j \in DOMAIN seq : seq[i].id = seq[j].id => i = j

SubjectReferences(record) ==
  /\ \A a \in DOMAIN record.artifacts :
       record.artifacts[a].subjects \subseteq record.subjects
  /\ \A p \in DOMAIN record.policies :
       record.policies[p].subject \in record.subjects

ValidRegions(record) ==
  \A g \in DOMAIN record.regions :
    0 <= record.regions[g].start /\ record.regions[g].start < record.regions[g].end

TakeCoherence(record) ==
  /\ DOMAIN record.takes \subseteq record.takeIds
  /\ record.preferred # Unset => record.preferred \in record.takeIds

CommentAnchors(record) ==
  \A k \in DOMAIN record.comments :
    /\ record.comments[k].region \in DOMAIN record.regions
    /\ record.comments[k].track # Unset =>
         record.comments[k].track \in DOMAIN record.tracks

ArtifactReferences(record) ==
  \A i \in DOMAIN record.snapshots :
    record.snapshots[i].artifacts \subseteq DOMAIN record.artifacts

VersionSnapshotReferences(record) ==
  \A i \in DOMAIN record.versions :
    \E j \in DOMAIN record.snapshots :
      record.snapshots[j].id = record.versions[i].ref

VersionNamesUnique(record) ==
  \A i, j \in DOMAIN record.versions :
    record.versions[i].name = record.versions[j].name => i = j

AggregateInvariants(record) ==
  /\ ValidRegions(record)
  /\ TakeCoherence(record)
  /\ CommentAnchors(record)
  /\ VersionNamesUnique(record)
  /\ UniqueIds(record.releases)
  /\ UniqueIds(record.snapshots)
  /\ SubjectReferences(record)
  /\ ArtifactReferences(record)
  /\ VersionSnapshotReferences(record)

-----------------------------------------------------------------------------
(* Policies (policy/use-policy.ts, policy/export-policy.ts).               *)

LastRelease(record, subject) ==
  {i \in DOMAIN record.releases :
     /\ record.releases[i].subject = subject
     /\ \A j \in DOMAIN record.releases :
          record.releases[j].subject = subject => j <= i}

Exportable(record, subject) ==
  \E i \in LastRelease(record, subject) : record.releases[i].allowed

hasExportableUsePolicy(record) ==
  LET students == {u \in DOMAIN record.members : record.members[u] = "student"}
      subjects == {record.releases[i].subject : i \in DOMAIN record.releases}
  IN IF students # {} THEN \A s \in students : Exportable(record, s)
     ELSE \E s \in subjects : Exportable(record, s)

PreservationHolds(record) ==
  \A a \in DOMAIN record.artifacts :
    record.artifacts[a].preserve => record.artifacts[a].hashed

\* Every subject an artifact shows has granted this use and nobody's grant
\* is denied or withdrawn.
ExplicitGrant(record, use) ==
  /\ use # Unset
  /\ DOMAIN record.artifacts # {}
  /\ \A p \in DOMAIN record.policies :
       record.policies[p].subject \in record.subjects
  /\ \A a \in DOMAIN record.artifacts :
       /\ record.artifacts[a].subjects # {}
       /\ \A s \in record.artifacts[a].subjects :
            LET states == {record.policies[p].state : p \in
                            {q \in DOMAIN record.policies :
                               record.policies[q].subject = s
                                 /\ record.policies[q].use = use}}
            IN /\ s \in record.subjects
               /\ states \intersect {"denied", "withdrawn"} = {}
               /\ "granted" \in states

evaluateExportPolicy(record, mode, use) ==
  /\ PreservationHolds(record)
  /\ IF mode = "record-release" THEN hasExportableUsePolicy(record)
     ELSE ExplicitGrant(record, use)
=============================================================================
