--------------------------- MODULE EafProjection ---------------------------
(***************************************************************************)
(* The ELAN projection of a work record (packages/handoff, projections): a  *)
(* record exported to an EAF document with a tier of regions and a tier of  *)
(* comments, and the import that binds every comment annotation to a region *)
(* and adds both to a record, all or nothing.  The import finds the region  *)
(* of a comment by a sweep over the regions by start and a tree of minima   *)
(* over their ends; the model keeps the sweep and the tree.                 *)
(*                                                                          *)
(* A document comes from the export or from elsewhere ("lab"), where an     *)
(* annotation may end before it starts.  A time of Fractions has a          *)
(* TIME_SLOT that the import does not read, and counts as 0.                *)
(***************************************************************************)
EXTENDS Integers, Sequences, SequencesExt, FiniteSetsExt

CONSTANTS Times,          \* the milliseconds of a spine
          Fractions,      \* those of them that are no whole number
          LabRegions,     \* region annotations of other tools
          LabComments,    \* comment annotations of other tools
          MaxRegions, MaxComments

TimesAssumption == Times \subseteq Nat /\ 0 \in Times /\ Fractions \subseteq Times

VARIABLES
  record,      \* the record that was exported, or Unexported
  regions,     \* the regions the import read, in the order of the document
  comments,    \* the comment annotations it read
  tree,        \* least region by position of the tree, Unset where there is none
  cursor,      \* how many regions, by start, the sweep has passed
  swept,       \* how many comments, by start, it has answered
  overlaps,    \* the region found for a comment, where there is one
  outcome      \* "reading", "sweeping", "saved", "refused"

vars == <<record, regions, comments, tree, cursor, swept, overlaps, outcome>>

SeqsUpTo(S, n) == UNION {[1..k -> S] : k \in 0..n}
Unexported == [regions |-> <<>>, comments |-> <<>>, exported |-> FALSE]

(* What an annotation or a region says may be blank: then said is FALSE *)
Annotations == [start: Times, end: Times, said: BOOLEAN]

(* Export: a region shows its label or, without one, its id; a comment shows its author *)
(* and body, at the interval of its region                                              *)
projectEaf(rec) ==
  [regions |-> rec.regions,
   comments |-> [i \in DOMAIN rec.comments |->
                  [rec.regions[rec.comments[i]] EXCEPT !.said = TRUE]]]

Slot(ms) == IF ms \in Fractions THEN 0 ELSE ms
Timed(a) == [a EXCEPT !.start = Slot(@), !.end = Slot(@)]

ReadRegions(document) ==
  LET labelled == SelectSeq(document.regions, LAMBDA r: r.said)
  IN [i \in DOMAIN labelled |-> Timed(labelled[i])]
ReadComments(document) == [i \in DOMAIN document.comments |-> Timed(document.comments[i])]

(* The sweep: the order of regions and of comments, and the tree over the ends *)
ByStart(annotations) ==
  SetToSortSeq(DOMAIN annotations,
               LAMBDA i, j: \/ annotations[i].start < annotations[j].start
                            \/ annotations[i].start = annotations[j].start /\ i < j)

Ends == SetToSortSeq({regions[i].end : i \in DOMAIN regions}, <)
treeSize == Min({n \in {1, 2, 4, 8} : n >= Len(Ends)})
Unset == MaxRegions + 1
Lesser(a, b) == IF a <= b THEN a ELSE b

Position(end) == treeSize + Cardinality({e \in ToSet(Ends) : e < end})
updateEndSearch(t, i) ==
  LET leaf == Position(regions[i].end)
      path == {leaf \div n : n \in {1, 2, 4, 8}}
  IN [p \in DOMAIN t |-> IF p \in path THEN Lesser(t[p], i) ELSE t[p]]

(* The search climbs from both sides of [left, right) to their common root; a tree of *)
(* at most eight leaves has five levels                                              *)
Climb(s) ==
  IF s.left >= s.right THEN s
  ELSE LET l == IF s.left % 2 = 1 THEN tree'[s.left] ELSE Unset
           r == IF s.right % 2 = 1 THEN tree'[s.right - 1] ELSE Unset
       IN [left |-> (s.left + 1) \div 2, right |-> s.right \div 2,
           least |-> Lesser(s.least, Lesser(l, r))]
Least(left, right) ==
  FoldLeft(LAMBDA s, level: Climb(s), [left |-> left, right |-> right, least |-> Unset],
           <<1, 2, 3, 4, 5>>).least

(* Mutant: a comment that starts where its region starts does not meet it *)
Reached_Before(comment) ==
  {i \in (cursor + 1)..Len(regions) : regions[ByStart(regions)[i]].start < comment.start}
(* The regions the sweep passes before it answers a comment *)
Reached(comment) ==
  {i \in (cursor + 1)..Len(regions) : regions[ByStart(regions)[i]].start <= comment.start}

activateRegionsThrough(comment) ==
  /\ cursor' = cursor + Cardinality(Reached(comment))
  /\ tree' = FoldLeft(LAMBDA t, i: updateEndSearch(t, ByStart(regions)[i]), tree,
                      SetToSortSeq(Reached(comment), <))

firstEndingAtOrAfter(end) == Least(Position(end), treeSize + Len(Ends))

Sweep ==
  LET i == ByStart(comments)[swept + 1]
      found == firstEndingAtOrAfter(comments[i].end)
  IN /\ outcome = "sweeping" /\ swept < Len(comments)
     /\ activateRegionsThrough(comments[i])
     /\ overlaps' = [overlaps EXCEPT ![i] = found]
     /\ swept' = swept + 1
     /\ UNCHANGED <<record, regions, comments, outcome>>

Exact(comment) == {i \in DOMAIN regions : /\ regions[i].start = comment.start
                                          /\ regions[i].end = comment.end}
(* Mutant: the sweep's answer goes before a region with the very interval *)
BoundTo_Swept(i) ==
  IF overlaps[i] # Unset \/ Exact(comments[i]) = {} THEN overlaps[i] ELSE Min(Exact(comments[i]))
(* The region of a comment: the first with its very interval, else the sweep's *)
BoundTo(i) == IF Exact(comments[i]) # {} THEN Min(Exact(comments[i])) ELSE overlaps[i]

(* A blank annotation is dropped, one without a region has a region id that no region has *)
Kept == {i \in DOMAIN comments : comments[i].said}
Orphans == {i \in Kept : BoundTo(i) = Unset}

(* addRegion and addComment in one mutation of the record: one refusal refuses all *)
Save ==
  /\ outcome = "sweeping" /\ swept = Len(comments)
  /\ outcome' = IF Orphans = {} /\ \A i \in DOMAIN regions : regions[i].start < regions[i].end
                THEN "saved" ELSE "refused"
  /\ UNCHANGED <<record, regions, comments, tree, cursor, swept, overlaps>>

importEafToRecordParts(document) ==
  /\ regions' = ReadRegions(document)
  /\ comments' = ReadComments(document)
  /\ tree' = [p \in 1..15 |-> Unset]
  /\ overlaps' = [i \in DOMAIN document.comments |-> Unset]
  /\ outcome' = "sweeping"
  /\ UNCHANGED <<record, cursor, swept>>

ImportExport == outcome = "reading" /\ record.exported /\ importEafToRecordParts(projectEaf(record))

ImportLab ==
  /\ outcome = "reading" /\ ~record.exported
  /\ \E rs \in SeqsUpTo(LabRegions, MaxRegions), cs \in SeqsUpTo(LabComments, MaxComments) :
        importEafToRecordParts([regions |-> rs, comments |-> cs])

Init ==
  /\ \/ record = Unexported
     \/ \E rs \in SeqsUpTo({a \in Annotations : a.start < a.end}, MaxRegions) :
          \E cs \in SeqsUpTo(DOMAIN rs, MaxComments) :
             record = [regions |-> rs, comments |-> cs, exported |-> TRUE]
  /\ regions = <<>> /\ comments = <<>> /\ tree = <<>> /\ overlaps = <<>>
  /\ cursor = 0 /\ swept = 0 /\ outcome = "reading"

Next == ImportExport \/ ImportLab \/ Sweep \/ Save

Spec == Init /\ [][Next]_vars

(* The sweep and its tree answer every comment as a search through all    *)
(* regions would: with the first region of the document that starts no    *)
(* later and ends no earlier than the comment.                            *)
Around(comment) ==
  {i \in DOMAIN regions : regions[i].start <= comment.start /\ comment.end <= regions[i].end}
SweepFindsFirst ==
  outcome # "reading" =>
    \A k \in 1..swept :
      LET i == ByStart(comments)[k]
      IN overlaps[i] = IF Around(comments[i]) = {} THEN Unset ELSE Min(Around(comments[i]))

(* A record whose times are whole and whose labels are not blank comes    *)
(* back from its own export: the import is saved, with every region at    *)
(* its interval and every comment on a region with the interval its own   *)
(* had, though an earlier region may lie around it.                       *)
Plain(rec) == \A i \in DOMAIN rec.regions :
  LET r == rec.regions[i] IN r.said /\ {r.start, r.end} \cap Fractions = {}
ExportComesBack ==
  (record.exported /\ Plain(record) /\ outcome \in {"saved", "refused"}) =>
    /\ outcome = "saved"
    /\ Len(regions) = Len(record.regions)
    /\ \A i \in DOMAIN regions : /\ regions[i].start = record.regions[i].start
                                 /\ regions[i].end = record.regions[i].end
    /\ \A i \in DOMAIN record.comments :
         LET was == record.regions[record.comments[i]]
             now == regions[BoundTo(i)]
         IN now.start = was.start /\ now.end = was.end

(* The import finds the regions that a plain search would, and loses       *)
(* nothing that the export wrote.                                          *)
ImportIsSound == SweepFindsFirst /\ ExportComesBack
=============================================================================
