-------------------------------- MODULE Interop --------------------------------
(***************************************************************************)
(* The exchange formats of a work record (packages/handoff, projections):  *)
(* a released record is projected to OTIO, EAF, an OSC cue map or MusicXML *)
(* references, with a statement of the fields that the format omits; and   *)
(* an OTIO document, an export or one of another tool, is imported with    *)
(* warnings of what it loses, and saved to a record.  A name, an id or a   *)
(* text is a value; the order of the members of an object is left out.     *)
(***************************************************************************)
EXTENDS Integers, Sequences, SequencesExt, FiniteSetsExt

CONSTANTS Records,     \* records to export
          Documents,   \* OTIO documents of other tools
          Present,     \* sets of what earlier imports left in the record that imports
          MaxNodes,    \* MAX_OTIO_NODES
          None         \* an absent label, reference, name, kind or duration

InteropAssumption == MaxNodes \in Nat

VARIABLES
  record,    \* the record that is exported, or None
  format,    \* the format asked for, or None
  body,      \* what was exported or is to be imported
  losses,    \* the fields the export states as omitted
  imported,  \* [tracks, takes, duration] of an import; place i stands for otio-tr-i or otio-take-i
  warnings,  \* set of [code, track, child]
  there,     \* the places that the importing record has already
  gained,    \* [tracks, takes]: the places it got
  outcome    \* "asked", "sent", "linked", "given", "read", "saved", "refused"

vars == <<record, format, body, losses, imported, warnings, there, gained, outcome>>

ExportFormats == {"otio-json", "eaf", "osc-cue-map", "musicxml-ref"}
TrackTypes ==
  {"audio", "video", "music_notation", "movement_annotation", "movement_notation", "media_cues",
   "text", "assessment", "analysis"}

-----------------------------------------------------------------------------
(* What a format carries.                                                  *)
Labelled(x) == IF x.label = None THEN x.id ELSE x.label
OrElse(x, y) == IF x = None THEN y ELSE x

\* Mutant: a track without a reference refers to its id.
Clip_Refers(rec, track) ==
  [schema |-> "Clip", name |-> OrElse(track.ref, track.id), ref |-> OrElse(track.ref, track.id),
   duration |-> rec.duration]

Clip(rec, track) ==
  [schema |-> "Clip", name |-> OrElse(track.ref, track.id), ref |-> track.ref, duration |-> rec.duration]

projectOtioJson(rec) ==
  [name |-> rec.title, id |-> rec.id, preferred |-> rec.preferred, deep |-> FALSE,
   tracks |-> [i \in DOMAIN rec.tracks |->
     [name |-> Labelled(rec.tracks[i]), kind |-> rec.tracks[i].type, children |-> <<Clip(rec, rec.tracks[i])>>]],
   markers |-> [i \in DOMAIN rec.regions |->
     [name |-> Labelled(rec.regions[i]), start |-> rec.regions[i].start,
      duration |-> rec.regions[i].end - rec.regions[i].start]]]

\* A comment has a region of its record.
PlaceOf(rec, comment) == CHOOSE i \in DOMAIN rec.regions : rec.regions[i].id = comment.region
RegionOf(rec, comment) == rec.regions[PlaceOf(rec, comment)]

\* Mutant: a region shows its id.
projectEaf_Ids(rec) ==
  [id |-> rec.id,
   regions |-> [i \in DOMAIN rec.regions |->
     [start |-> rec.regions[i].start, end |-> rec.regions[i].end, value |-> rec.regions[i].id]],
   comments |-> [i \in DOMAIN rec.comments |->
     LET region == RegionOf(rec, rec.comments[i])
     IN [start |-> region.start, end |-> region.end,
         value |-> <<rec.comments[i].author, rec.comments[i].body>>]]]

projectEaf(rec) ==
  [id |-> rec.id,
   regions |-> [i \in DOMAIN rec.regions |->
     [start |-> rec.regions[i].start, end |-> rec.regions[i].end, value |-> Labelled(rec.regions[i])]],
   comments |-> [i \in DOMAIN rec.comments |->
     LET region == RegionOf(rec, rec.comments[i])
     IN [start |-> region.start, end |-> region.end,
         value |-> <<rec.comments[i].author, rec.comments[i].body>>]]]

\* projectOscBundle: messages by time, those of one time as they came (legacy) or by address.
Rank(message) == CASE message.address = "preferred_take" -> 1 [] message.address = "region" -> 2 [] OTHER -> 3
InTime(messages, legacy) ==
  LET Before(i, j) ==
        \/ messages[i].t < messages[j].t
        \/ /\ messages[i].t = messages[j].t
           /\ \/ ~legacy /\ Rank(messages[i]) < Rank(messages[j])
              \/ (legacy \/ Rank(messages[i]) = Rank(messages[j])) /\ i < j
      order == SetToSortSeq(DOMAIN messages, Before)
  IN [i \in DOMAIN messages |-> messages[order[i]]]

regionMessages(rec, legacy) ==
  [i \in DOMAIN rec.regions |->
    [t |-> rec.regions[i].start, address |-> "region",
     args |-> <<rec.regions[i].id, OrElse(rec.regions[i].label, "")>>
              \o (IF legacy THEN <<>> ELSE <<rec.regions[i].end>>)]]

trackMessages(rec, legacy) ==
  LET told == SelectSeq(rec.tracks, LAMBDA track : ~legacy \/ track.type = "media_cues")
  IN [i \in DOMAIN told |->
       [t |-> 0, address |-> "track",
        args |-> <<told[i].id, told[i].type, OrElse(told[i].ref, "")>>
                 \o (IF legacy THEN <<>> ELSE <<OrElse(told[i].label, "")>>)]]

preferredTakeMessages(rec) ==
  IF rec.preferred = None THEN <<>>
  ELSE <<[t |-> 0, address |-> "preferred_take", args |-> <<rec.preferred>>]>>

projectOscBundle(rec, legacy) ==
  InTime(regionMessages(rec, legacy) \o trackMessages(rec, legacy)
           \o (IF legacy THEN <<>> ELSE preferredTakeMessages(rec)), legacy)

projectOscCueMap(rec) == [id |-> rec.id, title |-> rec.title, cues |-> projectOscBundle(rec, TRUE)]

projectMusicxmlRef(rec) ==
  LET music == SelectSeq(rec.tracks, LAMBDA track : track.type = "music_notation")
      referring == SelectSeq(music, LAMBDA track : track.ref # None)
  IN [id |-> rec.id, title |-> rec.title, refs |-> music,
      ref |-> IF referring = <<>> THEN None ELSE referring[1].ref]

Projected(f, rec) ==
  CASE f = "otio-json" -> projectOtioJson(rec) [] f = "eaf" -> projectEaf(rec)
    [] f = "osc-cue-map" -> projectOscCueMap(rec) [] f = "musicxml-ref" -> projectMusicxmlRef(rec)

-----------------------------------------------------------------------------
(* EXPORT_LOSSES: what a format states that it omits.                      *)
Documentary ==
  {"schemaVersion", "profile", "revision", "members", "actors", "representedSubjects", "takes",
   "versions", "usePolicySnapshots", "movementCapability", "artifacts", "relations", "iterations",
   "annotations", "views", "usePolicies", "provenance", "snapshots"}
OfSpine == {"spine.schemaVersion", "spine.mode", "spine.markers", "spine.meter"}

\* Mutant: the cue map does not state the comments.
exportLosses_NoComments(f) ==
  CASE f = "otio-json" -> Documentary \cup OfSpine \cup {"comments", "spine.regions[].id", "tracks[].id"}
    [] f = "eaf" -> Documentary \cup OfSpine \cup
         {"title", "tracks", "preferredTakeId", "takeIds", "spine.durationMs", "spine.regions[].id",
          "comments[].id", "comments[].trackId", "comments[].resolved", "comments[].createdAt"}
    [] f = "osc-cue-map" -> Documentary \cup OfSpine \cup
         {"preferredTakeId", "takeIds", "spine.durationMs", "spine.regions[].endMs", "tracks[non-cue]"}
    [] f = "musicxml-ref" -> Documentary \cup
         {"spine", "preferredTakeId", "takeIds", "comments", "tracks[non-music]"}

exportLosses(f) ==
  CASE f = "otio-json" -> Documentary \cup OfSpine \cup {"comments", "spine.regions[].id", "tracks[].id"}
    [] f = "eaf" -> Documentary \cup OfSpine \cup
         {"title", "tracks", "preferredTakeId", "takeIds", "spine.durationMs", "spine.regions[].id",
          "comments[].id", "comments[].trackId", "comments[].resolved", "comments[].createdAt"}
    [] f = "osc-cue-map" -> Documentary \cup OfSpine \cup
         {"preferredTakeId", "takeIds", "comments", "spine.durationMs", "spine.regions[].endMs",
          "tracks[non-cue]"}
    [] f = "musicxml-ref" -> Documentary \cup
         {"spine", "preferredTakeId", "takeIds", "comments", "tracks[non-music]"}

\* The release policy is asked of the whole record before anything is projected.
exportRecord(f) ==
  /\ outcome = "asked" /\ format' = f
  /\ IF record.released
     THEN body' = Projected(f, record) /\ losses' = exportLosses(f) /\ outcome' = "sent"
     ELSE outcome' = "refused" /\ UNCHANGED <<body, losses>>
  /\ UNCHANGED <<record, imported, warnings, there, gained>>

\* The cues for other show tools, which carry more than the map and, unlike it, state no loss.
buildOscDeepLinkProjection ==
  /\ outcome = "asked"
  /\ IF record.released
     THEN body' = projectOscBundle(record, FALSE) /\ outcome' = "linked"
     ELSE outcome' = "refused" /\ UNCHANGED body
  /\ UNCHANGED <<record, format, losses, imported, warnings, there, gained>>

-----------------------------------------------------------------------------
(* The import of OTIO.                                                     *)

Sum(seq) == FoldLeft(+, 0, seq)
\* The values of a document, of the shape of an export, that the search for schemas visits.
NodesOf(child) ==
  IF child.schema # "Clip" THEN 2 ELSE 13 + (IF child.ref = None THEN 1 ELSE 3)
Nodes(document) ==
  11 + 13 * Len(document.markers)
     + Sum([i \in DOMAIN document.tracks |->
             LET children == document.tracks[i].children
             IN 5 + Sum([j \in DOMAIN children |-> NodesOf(children[j])])])

collectOtioSchemas(document) == Nodes(document) <= MaxNodes /\ ~document.deep

Clips(track) == {j \in DOMAIN track.children : track.children[j].schema = "Clip"}

\* Mutant: nothing behind the first clip is looked at.
Passed_First(track) == {j \in DOMAIN track.children : \A k \in Clips(track) : j <= k}

\* firstOtioClip passes all children.
Passed(track) == DOMAIN track.children

Warning(code, i, j) == [code |-> code, track |-> i, child |-> j]

\* A duration that is no number, negative or of no rate counts as none.
rationalTimeDurationMs(clip) == IF clip = None THEN 0 ELSE OrElse(clip.duration, 0)

\* One track of the import for each of the document, with its first clip.
importOtioTrack(i, track) ==
  LET first == IF Clips(track) = {} THEN None ELSE track.children[Min(Clips(track))]
      ref == IF first = None THEN None ELSE first.ref
      skipped == [Gap |-> "GAP_SKIPPED", Transition |-> "TRANSITION_SKIPPED"]
  IN [track |-> [type |-> OrElse(track.kind, "video"), label |-> OrElse(track.name, <<"track-", i - 1>>), ref |-> ref],
      duration |-> rationalTimeDurationMs(first),
      warnings |->
        {Warning(skipped[track.children[j].schema], i, j) :
           j \in {k \in Passed(track) : track.children[k].schema \in {"Gap", "Transition"}}}
        \cup (IF first # None /\ ref = None THEN {Warning("MISSING_MEDIA", i, 0)} ELSE {})]

warnUnsupportedOtioSchemas(document) ==
  {Warning("UNSUPPORTED_OTIO_NODE", 0, 0) : t \in
     {i \in DOMAIN document.tracks : \E j \in DOMAIN document.tracks[i].children :
        document.tracks[i].children[j].schema = "Other"}}

addOtioDocumentWarnings(document) ==
  (IF document.markers # <<>> THEN {Warning("MARKERS_NOT_IMPORTED", 0, 0)} ELSE {})
  \cup (IF document.tracks = <<>> THEN {Warning("EMPTY_DOCUMENT", 0, 0)} ELSE {})

importOtioToRecordParts ==
  /\ outcome = "given" \/ (outcome = "sent" /\ format = "otio-json")
  /\ IF collectOtioSchemas(body)
     THEN LET parts == [i \in DOMAIN body.tracks |-> importOtioTrack(i, body.tracks[i])]
          IN /\ imported' = [tracks |-> [i \in DOMAIN parts |-> parts[i].track],
                             takes |-> {i \in DOMAIN parts : parts[i].track.ref # None},
                             duration |-> Max({0} \cup {parts[i].duration : i \in DOMAIN parts})]
             /\ warnings' = warnUnsupportedOtioSchemas(body) \cup addOtioDocumentWarnings(body)
                              \cup UNION {parts[i].warnings : i \in DOMAIN parts}
             /\ outcome' = "read"
     ELSE outcome' = "refused" /\ UNCHANGED <<imported, warnings>>
  /\ UNCHANGED <<record, format, body, losses, there, gained>>

\* Mutant: a track of any type is added.
Known_Unasked == TRUE

\* assertTrack, of what the record has not got.
Known == \A i \in DOMAIN imported.tracks \ there.tracks : imported.tracks[i].type \in TrackTypes

saveOtioImport ==
  /\ outcome = "read"
  /\ IF Known
     THEN /\ gained' = [tracks |-> DOMAIN imported.tracks \ there.tracks, takes |-> imported.takes \ there.takes]
          /\ outcome' = "saved"
     ELSE outcome' = "refused" /\ UNCHANGED gained
  /\ UNCHANGED <<record, format, body, losses, imported, warnings, there>>

NothingImported == [tracks |-> <<>>, takes |-> {}, duration |-> 0]
NothingGained == [tracks |-> {}, takes |-> {}]
Init ==
  /\ \/ record \in Records /\ body = None /\ outcome = "asked"
     \/ record = None /\ body \in Documents /\ outcome = "given"
  /\ there \in Present
  /\ format = None /\ losses = {} /\ imported = NothingImported /\ warnings = {}
  /\ gained = NothingGained

Next ==
  \/ \E f \in ExportFormats : exportRecord(f)
  \/ buildOscDeepLinkProjection \/ importOtioToRecordParts \/ saveOtioImport

Spec == Init /\ [][Next]_vars

-----------------------------------------------------------------------------
(* The fields of a record with the statements that cover each: its own or  *)
(* one of something wider.  `rest` stands for all that no format carries.  *)

Field(by, value) == <<by, value>>
Apart(track) ==
  {"tracks"} \cup (IF track.type = "media_cues" THEN {} ELSE {"tracks[non-cue]"})
             \cup (IF track.type = "music_notation" THEN {} ELSE {"tracks[non-music]"})

FieldsOf(rec) ==
  LET InSpine(x, value) == Field({"spine", "spine." \o x}, value)
      OfRegion(i, x, value) == InSpine("regions[]." \o x, <<i, value>>)
      OfComment(i, x, value) == Field({"comments", "comments[]." \o x}, <<i, value>>)
      OfTrack(i, x, value) == Field(Apart(rec.tracks[i]) \cup {"tracks[]." \o x}, <<i, value>>)
  IN {Field({"title"}, rec.title), Field({"preferredTakeId"}, rec.preferred),
      Field({"takeIds"}, rec.takeIds), Field(Documentary, rec.rest),
      InSpine("durationMs", rec.duration), InSpine("meter", rec.meter)}
     \cup UNION {LET r == rec.regions[i] IN
            {OfRegion(i, "id", r.id), OfRegion(i, "startMs", r.start), OfRegion(i, "endMs", r.end),
             OfRegion(i, "label", Labelled(r))} : i \in DOMAIN rec.regions}
     \cup UNION {LET t == rec.tracks[i] IN
            {OfTrack(i, "id", t.id), OfTrack(i, "type", t.type), OfTrack(i, "label", Labelled(t)),
             OfTrack(i, "ref", t.ref)} : i \in DOMAIN rec.tracks}
     \cup UNION {LET c == rec.comments[i] IN
            {OfComment(i, "id", c.id), OfComment(i, "regionId", PlaceOf(rec, c)),
             OfComment(i, "authorId", c.author), OfComment(i, "body", c.body),
             OfComment(i, "trackId", c.track)} : i \in DOMAIN rec.comments}

Differences(a, b) == (FieldsOf(a) \ FieldsOf(b)) \cup (FieldsOf(b) \ FieldsOf(a))

\* What the code loses and does not state, although the documentation promises it (see below).
Unstated(f, rec) ==
  CASE f = "otio-json" -> {"takeIds"} \cup (IF rec.tracks = <<>> THEN {"spine.durationMs"} ELSE {})
    [] f = "eaf" -> {"comments[].regionId"}
    [] f = "osc-cue-map" -> {"tracks[].label"}
    [] f = "musicxml-ref" -> {}

\* docs/relay/api-and-contracts.md:29 has it that every result carries its losses with the
\* omittedFields.  It carries all but four.  Two records that an export does not tell apart
\* differ in nothing but fields that it states as omitted and those four (Unstated); and
\* nothing of a record that is not released is sent.
LossesAreKnown ==
  /\ outcome = "sent" =>
       \A other \in Records : Projected(format, other) = body =>
         \A x \in Differences(record, other) : x[1] \cap (losses \cup Unstated(format, record)) # {}
  /\ record # None /\ body # None => record.released

\* The four are lost indeed, and no statement covers them: what is exported does not change
\* with the takes, with the duration of a record without tracks, with the region of a comment
\* (of two regions of one interval), with the label of a track of cues.
Hides(other) ==
  Projected(format, other) = body /\ \E x \in Differences(record, other) : x[1] \cap losses = {}
FourAreLost ==
  outcome = "sent" =>
    CASE format = "otio-json" ->
           /\ Hides([record EXCEPT !.takeIds = IF @ = {} THEN {"t"} ELSE {}])
           /\ record.tracks = <<>> => Hides([record EXCEPT !.duration = @ + 1])
      [] format = "eaf" ->
           \A i \in DOMAIN record.comments, j, k \in DOMAIN record.regions :
             LET g == record.regions[j]  h == record.regions[k]
             IN g.id = record.comments[i].region /\ h.id # g.id /\ <<g.start, g.end>> = <<h.start, h.end>>
                => Hides([record EXCEPT !.comments[i].region = h.id])
      [] format = "osc-cue-map" ->
           \A i \in DOMAIN record.tracks :
             record.tracks[i].type = "media_cues" => Hides([record EXCEPT !.tracks[i].label = "no label"])
      [] format = "musicxml-ref" -> TRUE

\* The cue map is what the cues for other tools say, without the last argument of each, the take
\* and the tracks that are no cues, in the same order.
MapIsAPart ==
  outcome = "linked" =>
    LET told == SelectSeq(body, LAMBDA m : m.address = "region"
                                  \/ (m.address = "track" /\ m.args[2] = "media_cues"))
    IN projectOscBundle(record, TRUE) = [i \in DOMAIN told |-> [told[i] EXCEPT !.args = Front(@)]]

\* Each child of an imported track is the clip that was taken, or warned of, or a clip behind
\* the one that was taken.  Those are dropped in silence, although packages/handoff/README.md:24
\* has it that imports report what they do not support as warnings.
WarnsOfLoss ==
  outcome \in {"read", "saved"} =>
    /\ \A i \in DOMAIN body.tracks : LET track == body.tracks[i] IN
         \A j \in DOMAIN track.children :
           \/ \E w \in warnings : w.track = i /\ w.child = j
           \/ track.children[j].schema = "Other" /\ \E w \in warnings : w.code = "UNSUPPORTED_OTIO_NODE"
           \/ j \in Clips(track) /\ imported.tracks[i].ref = track.children[Min(Clips(track))].ref
    /\ body.markers # <<>> => \E w \in warnings : w.code = "MARKERS_NOT_IMPORTED"
    /\ \A w \in warnings : w.child # 0 => body.tracks[w.track].children[w.child].schema # "Clip"
    /\ warnings = {} =>
         imported.tracks # <<>> /\ imported.takes = {i \in DOMAIN body.tracks : body.tracks[i].children # <<>>}

\* An export comes back: the type, name and reference of each track, a take of each that has a
\* reference, and the duration; and it is refused for nothing but its size.
OtioComesBack ==
  format = "otio-json" =>
    /\ outcome \in {"read", "saved"} =>
         /\ imported.tracks = [i \in DOMAIN record.tracks |->
              LET t == record.tracks[i] IN [type |-> t.type, label |-> Labelled(t), ref |-> t.ref]]
         /\ imported.takes = {i \in DOMAIN record.tracks : record.tracks[i].ref # None}
         /\ record.tracks # <<>> => imported.duration = record.duration
    /\ outcome = "refused" /\ record.released => Nodes(body) > MaxNodes

\* A saved import is in the record whole, what it had there already aside: a take has a track of
\* its place, and no track of a type that no record knows is added.
SavesWhole ==
  outcome = "saved" =>
    /\ gained.takes \cup there.takes \subseteq gained.tracks \cup there.tracks
    /\ imported.takes \subseteq gained.takes \cup there.takes
    /\ \A i \in gained.tracks : imported.tracks[i].type \in TrackTypes

\* What the exchange formats promise.
InteropIsSound == SavesWhole /\ LossesAreKnown /\ FourAreLost /\ MapIsAPart /\ WarnsOfLoss /\ OtioComesBack
=============================================================================
