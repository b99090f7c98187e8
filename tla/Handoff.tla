------------------------------ MODULE Handoff ------------------------------
(***************************************************************************)
(* The packages a record leaves in (packages/handoff): the work-record     *)
(* package with its manifest, its RO-Crate graph and its ZIP archive, the   *)
(* evidence crate of approved artifacts, and the complete transport.        *)
(*                                                                          *)
(* A path and the @id of an entity are tuples of segments.  The archive     *)
(* keeps its layout: headers at offsets, the sizes of headers, names and    *)
(* data, the central directory and the end record; checksums are left out.  *)
(***************************************************************************)
EXTENDS Integers, Sequences, SequencesExt, FiniteSetsExt

CONSTANTS Records,        \* records a package may be asked of: see Record below
          Extras,         \* extra files: [path, data, key], data being their size
          MaxExtras,
          LocalHeader, CentralHeader, EndRecord,   \* sizes of the ZIP headers
          MaxName, MaxArchive                      \* what their fields can count

HandoffAssumption ==
  /\ {LocalHeader, CentralHeader, EndRecord} \subseteq Nat \ {0}
  /\ MaxExtras \in Nat /\ MaxName \in Nat /\ MaxArchive \in Nat

VARIABLES record,     \* the record: [released, tracks, takes, takeIds, artifacts, subjects]
          extras,     \* the extra files of a ZIP, in the order given
          kind,       \* "json", "zip", "evidence" or "transport"
          manifest,   \* the files the manifest names, in order
          crate,      \* the RO-Crate: [entities, refs]
          archive,    \* the ZIP: headers by offset, and its length
          outcome     \* "asked", "built", "written" or "refused"

vars == <<record, extras, kind, manifest, crate, archive, outcome>>

ManifestPath == <<"manifest.json">>
MetadataPath == <<"ro-crate-metadata.json">>
Root == <<".">>
NoCrate == [entities |-> {}, refs |-> {}]
NoArchive == [at |-> <<>>, length |-> 0]

-----------------------------------------------------------------------------
(* Entries of an archive: paths that are one when case is folded are a duplicate *)
Key(path) == IF \E x \in Extras : x.path = path THEN (CHOOSE x \in Extras : x.path = path).key
             ELSE path
Unique(paths) == \A i, j \in DOMAIN paths : Key(paths[i]) = Key(paths[j]) => i = j
PathsOf(entries) == [i \in DOMAIN entries |-> entries[i].path]
normalizeStoreZipEntries(entries) ==
  /\ \A i \in DOMAIN entries : entries[i].path # <<>>
  /\ Unique(PathsOf(entries))

(* Manifest: its own file and the metadata, then the extras with their digests *)
Inventory(files) ==
  <<[path |-> ManifestPath, sha |-> 0], [path |-> MetadataPath, sha |-> 0]>>
    \o [i \in DOMAIN files |-> [path |-> files[i].path, sha |-> files[i].data]]

packageTakes(rec) == IF rec.takes # {} THEN rec.takes ELSE rec.takeIds

(* RO-Crate of a package: the root has every track, take and file as a part *)
buildRoCrateMetadata(rec, files) ==
  LET tracks == {<<"tracks", t>> : t \in rec.tracks}
      takes == {<<"takes", t>> : t \in packageTakes(rec)}
      paths == {files[i].path : i \in DOMAIN files}
  IN [entities |-> {MetadataPath, Root} \cup (paths \ {MetadataPath}) \cup tracks \cup takes,
      refs |-> {Root} \cup tracks \cup takes \cup paths]

(* RO-Crate of approved artifacts: they and the subjects they represent, and no one else *)
Represented(rec, ids) == UNION {rec.artifacts[a] : a \in ids}
writeEvidenceRoCrate13(rec, ids) ==
  LET artifacts == {<<"#artifact", a>> : a \in ids}
  IN [entities |-> {MetadataPath, Root} \cup artifacts
                     \cup {<<"#subject", s>> : s \in Represented(rec, ids) \cap rec.subjects},
      refs |-> {Root} \cup artifacts \cup {<<"#subject", s>> : s \in Represented(rec, ids)}]

(* The complete transport: its graph is the descriptor and the root, whose main entity is *)
(* the file beside it, of which the graph has no entity *)
MainEntity == <<"work-record.json">>
writeRoCrate13 == [entities |-> {MetadataPath, Root}, refs |-> {Root, MainEntity}]

-----------------------------------------------------------------------------
(* Where the local header of an entry is: after the headers, names and data before it *)
Span(entry) == LocalHeader + Len(entry.path) + entry.data
(* Mutant: the name is not counted *)
localOffset_Nameless(entries, i) ==
  FoldLeft(LAMBDA sum, e: sum + LocalHeader + e.data, 0, SubSeq(entries, 1, i - 1))
localOffset(entries, i) == FoldLeft(LAMBDA sum, e: sum + Span(e), 0, SubSeq(entries, 1, i - 1))
centralOffset(entries, i) ==
  FoldLeft(LAMBDA sum, e: sum + CentralHeader + Len(e.path),
           localOffset(entries, Len(entries) + 1), SubSeq(entries, 1, i - 1))

Fits(entries) ==
  /\ \A i \in DOMAIN entries : Len(entries[i].path) <= MaxName
  /\ localOffset(entries, Len(entries) + 1) <= MaxArchive

buildStoreZip(entries) ==
  LET n == Len(entries)
      end == centralOffset(entries, n + 1)
      locals == {<<localOffset(entries, i), [name |-> entries[i].path, size |-> entries[i].data]>> :
                   i \in 1..n}
      centrals == {<<centralOffset(entries, i),
                     [name |-> entries[i].path, size |-> entries[i].data,
                      local |-> localOffset(entries, i)]>> : i \in 1..n}
      last == <<end, [count |-> n, central |-> centralOffset(entries, 1)]>>
      headers == locals \cup centrals \cup {last}
  IN [at |-> [o \in {h[1] : h \in headers} |-> (CHOOSE h \in headers : h[1] = o)[2]],
      length |-> end + EndRecord]

-----------------------------------------------------------------------------
Files == <<[path |-> ManifestPath, data |-> 1], [path |-> MetadataPath, data |-> 1]>> \o extras

Refuse == outcome' = "refused" /\ UNCHANGED <<record, extras, kind, manifest, crate, archive>>

(* Mutant: the crate is built before the extras are in the manifest *)
Described_Before == Inventory(<<>>)
(* What the crate describes: the manifest with the extras in it *)
Described == Inventory(extras)

(* exportWorkRecordPackage(Zip): paths, then consent, then manifest and crate *)
BuildPackage ==
  /\ outcome = "asked" /\ kind \in {"json", "zip"}
  /\ IF normalizeStoreZipEntries(Files) /\ record.released
     THEN /\ manifest' = Inventory(extras)
          /\ crate' = buildRoCrateMetadata(record, Described)
          /\ outcome' = IF kind = "zip" THEN "built" ELSE "written"
          /\ UNCHANGED <<record, extras, kind, archive>>
     ELSE Refuse

WriteZip ==
  /\ outcome = "built"
  /\ IF Fits(Files)
     THEN /\ archive' = buildStoreZip(Files)
          /\ outcome' = "written"
          /\ UNCHANGED <<record, extras, kind, manifest, crate>>
     ELSE Refuse

(* An explicit grant includes every artifact, and each has a subject *)
ExportEvidence ==
  /\ outcome = "asked" /\ kind = "evidence"
  /\ IF DOMAIN record.artifacts # {} /\ \A a \in DOMAIN record.artifacts : record.artifacts[a] # {}
     THEN /\ crate' = writeEvidenceRoCrate13(record, DOMAIN record.artifacts)
          /\ outcome' = "written"
          /\ UNCHANGED <<record, extras, kind, manifest, archive>>
     ELSE Refuse

Transport ==
  /\ outcome = "asked" /\ kind = "transport"
  /\ crate' = writeRoCrate13
  /\ outcome' = "written"
  /\ UNCHANGED <<record, extras, kind, manifest, archive>>

Init ==
  /\ record \in Records
  /\ kind \in {"json", "zip", "evidence", "transport"}
  /\ \E n \in 0..(IF kind = "zip" THEN MaxExtras ELSE 0) : extras \in [1..n -> Extras]
  /\ manifest = <<>> /\ crate = NoCrate /\ archive = NoArchive /\ outcome = "asked"

Next == BuildPackage \/ WriteZip \/ ExportEvidence \/ Transport

Spec == Init /\ [][Next]_vars

-----------------------------------------------------------------------------
(* Who reads the archive from its end, through the central directory to   *)
(* the local headers, finds the files that were put in, in their order,   *)
(* whatever their names and sizes, and they are the manifest's files.     *)
ReadNext(zip, read) ==
  LET central == zip.at[read.at]
      local == zip.at[central.local]
  IN [at |-> read.at + CentralHeader + Len(central.name),
      files |-> Append(read.files, [path |-> local.name, data |-> local.size])]
ReadFrom(zip, at, n) ==
  FoldLeft(LAMBDA read, i: ReadNext(zip, read), [at |-> at, files |-> <<>>],
           [i \in 1..n |-> i]).files
Apart(zip) ==
  \A o, p \in DOMAIN zip.at :
    (o < p /\ DOMAIN zip.at[o] = {"name", "size"}) =>
      o + LocalHeader + Len(zip.at[o].name) + zip.at[o].size <= p
ArchiveReadsBack ==
  archive # NoArchive =>
    LET end == archive.at[archive.length - EndRecord]
        read == ReadFrom(archive, end.central, end.count)
    IN /\ Apart(archive)
       /\ PathsOf(read) = PathsOf(manifest)
       /\ \A i \in 3..Len(read) : read[i].data = manifest[i].sha

(* Every entity that the crate of a package or of an evidence export      *)
(* refers to is in its graph, and every file of a package is an entity of *)
(* it; the crate of an evidence export names no track, take or member's   *)
(* file beside the artifacts and their subjects.  The crate of a complete *)
(* transport is not closed: of its main entity, the record beside it, its *)
(* graph has nothing (ro-crate-record.ts:28, :36).                        *)
GraphIsClosed ==
  outcome = "written" =>
    /\ crate.refs \ crate.entities \subseteq (IF kind = "transport" THEN {MainEntity} ELSE {})
    /\ \A i \in DOMAIN manifest : manifest[i].path \in crate.entities
    /\ kind = "evidence" =>
         crate.entities \ {Root, MetadataPath} \subseteq
           {<<"#artifact", a>> : a \in DOMAIN record.artifacts}
             \cup {<<"#subject", s>> : s \in record.subjects}

(* An archive can be read back; packages and evidence describe all that    *)
(* they refer to.                                                          *)
PackagesAreWhole == ArchiveReadsBack /\ GraphIsClosed
=============================================================================
