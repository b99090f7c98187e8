---------------------------- MODULE MovementEditor ----------------------------
(***************************************************************************)
(* The movement editor that the studio mounts for one record               *)
(* (apps/relay-web/src/studio/movement-editor.mjs, movement-tools.mjs):    *)
(* its undo history, the selected item, the field of its time anchor, a    *)
(* file that is being read, and the draft that the page keeps of it.  The  *)
(* editor may be taken down while the file is read.                        *)
(***************************************************************************)
EXTENDS Motif

CONSTANTS Starts, Files, \* documents it is mounted with; those that are stored, or in files
          Symbols,     \* a part of the vocabulary to choose from
          Times,       \* time anchors that are typed
          Garbage,     \* text that is no time
          HistoryLimit,
          MaxItems, MaxEdits  \* bounds on a document and on edits and imports

EditorAssumption ==
  /\ Symbols \subseteq Vocabulary /\ HistoryLimit \in Nat \ {0}
  /\ MaxItems \in Nat /\ MaxEdits \in Nat

VARIABLES past, present, future,  \* createMotifHistory
          selected,               \* a place in the array
          field,                  \* the text of the time field
          invalid,                \* it is no time
          offered,                \* the buttons that can be pressed
          reading,                \* the content of the file that is read, or None
          draft,                  \* the document that the page keeps, or None
          alive,
          edits                   \* how many edits and imports were made

vars == <<past, present, future, selected, field, invalid, offered, reading, draft, alive, edits>>
history == <<past, present, future, edits>>

Documents == {past[i] : i \in DOMAIN past} \cup {present} \cup {future[i] : i \in DOMAIN future}
UsedIds == UNION {Ids(d) : d \in Documents}
Second(doc) == IF Len(doc) > 1 THEN 2 ELSE 1
PlaceOfId(doc, id) == First(doc, LAMBDA item : item.id = id)

-----------------------------------------------------------------------------
(* What the buttons offer: they are set with every change of the document  *)
(* or of the selection.                                                    *)
Offers(doc, i, before, after) ==
  [undo |-> before # <<>>, redo |-> after # <<>>, remove |-> doc # <<>>,
   earlier |-> i \in DOMAIN doc /\ PlaceOf(doc, i) > 1,
   later |-> i \in DOMAIN doc /\ PlaceOf(doc, i) < Len(doc)]

TimeOf(doc, i) == IF i \in DOMAIN doc THEN doc[i].at ELSE None

\* Mutant: the selection stays where it was, there or not.
Kept_Anyway(doc, i) == i

Kept(doc, i) ==
  IF i \in DOMAIN doc THEN i
  ELSE IF doc = <<>> THEN 1 ELSE Len(doc)

\* render: the selection is put on an item that is there, the fields show it.
Render(i) ==
  /\ selected' = Kept(present', i)
  /\ field' = TimeOf(present', selected')
  /\ invalid' = FALSE
  /\ offered' = Offers(present', selected', past', future')

Publish == draft' = present'

\* Mutant: what was undone can still be redone after an edit.
push_KeepsFuture(doc) ==
  /\ past' = Append(past, present) /\ present' = doc /\ future' = future
  /\ edits < MaxEdits /\ edits' = edits + 1

push(doc) ==
  /\ past' = LET all == Append(past, present)
             IN IF Len(all) > HistoryLimit THEN Tail(all) ELSE all
  /\ present' = doc /\ future' = <<>>
  /\ edits < MaxEdits /\ edits' = edits + 1

\* An edit is published to the page.
Edits(doc) ==
  /\ alive /\ ~invalid
  /\ Len(doc) <= MaxItems
  /\ push(doc) /\ Publish
  /\ UNCHANGED <<reading, alive>>

Init ==
  /\ past = <<>> /\ present \in Starts /\ future = <<>>
  /\ Valid(present)
  /\ selected = Second(present) /\ field = TimeOf(present, selected) /\ invalid = FALSE
  /\ offered = Offers(present, selected, <<>>, <<>>)
  /\ reading = None /\ draft = None /\ alive = TRUE /\ edits = 0

-----------------------------------------------------------------------------
(* A click on a tile; with a text that is no time it only moves the focus. *)
Select(i) ==
  /\ alive /\ ~invalid /\ i \in DOMAIN present /\ i # selected
  /\ UNCHANGED history
  /\ Render(i)
  /\ UNCHANGED <<reading, draft, alive>>

ChangeSymbol(s) ==
  /\ selected \in DOMAIN present /\ s # present[selected].symbol
  /\ Edits(updateMotifItem(present, selected, [present[selected] EXCEPT !.symbol = s]))
  /\ Render(selected)

\* Every keystroke that leaves a time is an edit; the page is told of one that does not.
TypeTime(text) ==
  /\ alive /\ selected \in DOMAIN present /\ text # field
  /\ push(updateMotifItem(present, selected, [present[selected] EXCEPT !.at = text]))
  /\ offered' = Offers(present', selected, past', future')
  /\ field' = text /\ invalid' = FALSE
  /\ Publish
  /\ UNCHANGED <<selected, reading, alive>>

TypeGarbage ==
  /\ alive /\ selected \in DOMAIN present /\ ~invalid
  /\ field' = Garbage /\ invalid' = TRUE
  /\ UNCHANGED history
  /\ Publish
  /\ UNCHANGED <<selected, offered, reading, alive>>

\* crypto.randomUUID: an id that no document of the session has.
Add ==
  LET id == CHOOSE n \in 1 .. Cardinality(UsedIds) + 1 : n \notin UsedIds
  IN /\ Edits(appendMotifItem(present, id))
     /\ Render(Len(present) + 1)

RemoveSelected ==
  /\ offered.remove
  /\ Edits(removeMotifItem(present, selected))
  /\ Render(selected)

\* The selection follows the first item of the moved one's id.
Move(offset) ==
  /\ IF offset < 0 THEN offered.earlier ELSE offered.later
  /\ Edits(moveMotifItem(present, selected, offset))
  /\ Render(PlaceOfId(present', present[selected].id))

\* Mutant: the selection stays at its place, whatever item is there.
Reselected_InPlace(doc) == selected

\* The selection follows the id of the selected item, as far as it is there.
Reselected(doc) ==
  LET place == IF selected \in DOMAIN present THEN PlaceOfId(doc, present[selected].id) ELSE 0
  IN IF place = 0 THEN selected ELSE place

Undo ==
  /\ alive /\ offered.undo
  /\ future' = Append(future, present) /\ present' = Last(past) /\ past' = Front(past)
  /\ Render(Reselected(present')) /\ Publish
  /\ UNCHANGED <<reading, alive, edits>>

Redo ==
  /\ alive /\ offered.redo
  /\ past' = Append(past, present) /\ present' = Last(future) /\ future' = Front(future)
  /\ Render(Reselected(present')) /\ Publish
  /\ UNCHANGED <<reading, alive, edits>>

-----------------------------------------------------------------------------
ChooseFile(doc) ==
  /\ alive /\ reading = None
  /\ reading' = doc
  /\ UNCHANGED <<history, selected, field, invalid, offered, draft, alive>>

\* Mutant: a file that was read is imported, though the editor was taken down.
Heard_Late == TRUE

Heard == alive

FileIsRead ==
  /\ reading # None
  /\ reading' = None
  /\ IF Heard /\ Valid(reading) /\ edits < MaxEdits
     THEN push(reading) /\ Render(Second(reading)) /\ Publish
     ELSE UNCHANGED <<history, selected, field, invalid, offered, draft>>
  /\ UNCHANGED alive

\* The stored document arrives before the first edit; the page keeps it as a draft.
setDocument(doc) ==
  /\ alive /\ draft = None /\ Valid(doc)
  /\ past' = <<>> /\ present' = doc /\ future' = <<>>
  /\ Render(Second(doc))
  /\ draft' = doc
  /\ UNCHANGED <<reading, alive, edits>>

\* The user signs out: the page drops its drafts and takes the editor down.
destroy ==
  /\ alive
  /\ alive' = FALSE /\ draft' = None
  /\ UNCHANGED <<history, selected, field, invalid, offered, reading>>

Next ==
  \/ \E i \in 1 .. MaxItems : Select(i)
  \/ \E s \in Symbols : ChangeSymbol(s)
  \/ \E t \in Times \cup {None} : TypeTime(t)
  \/ \E doc \in Files : ChooseFile(doc) \/ setDocument(doc)
  \/ \E offset \in {-1, 1} : Move(offset)
  \/ TypeGarbage \/ Add \/ RemoveSelected \/ Undo \/ Redo
  \/ FileIsRead \/ destroy

Spec == Init /\ [][Next]_vars

-----------------------------------------------------------------------------
(* What an author relies on.                                               *)

\* The history of the editor is a line of documents with a cursor, however
\* edits, imports, undo and redo follow each other (createMotifHistory).
Line == INSTANCE EditLine WITH
  Limit <- HistoryLimit, line <- past \o <<present>> \o Reverse(future), at <- Len(past) + 1
ImplementsEditLine == Line!Spec

\* What is shown is what is there: the fields are those of an item of the document,
\* the buttons offer what can be done with it, and the staff reads the phrase in the
\* order of its tiles (render, refresh).
ShowsDocument ==
  alive =>
    /\ selected \in DOMAIN present \/ (present = <<>> /\ selected = 1)
    /\ IF invalid THEN field = Garbage ELSE field = TimeOf(present, selected)
    /\ offered = Offers(present, selected, past, future)
    /\ StaffReadsBack(Shown(present))

\* The draft of the page is the document of the editor from the first edit on, and
\* nothing of it comes back once the user has signed out (publish, onImport, destroy).
DraftFollows ==
  /\ alive => draft \in {None, present} /\ (draft = None => past = <<>> /\ future = <<>>)
  /\ ~alive => draft = None

\* A new item is shown last, a move swaps two neighbours as they are shown, and the
\* selection stays with its item over a move, an undo and a redo as long as ids differ.
ItemAt(doc, i) == [doc[i] EXCEPT !.order = 0]
Order(its) == [k \in DOMAIN its |-> Shown(its)[k].id]
EditIsExact ==
  /\ Add => Order(present') = Append(Order(present), present'[selected'].id)
  /\ \A offset \in {-1, 1} : Move(offset) =>
       LET k == PlaceOf(present, selected)
       IN /\ Order(present') = [j \in DOMAIN present |->
               Order(present)[CASE j = k -> k + offset [] j = k + offset -> k [] OTHER -> j]]
          /\ IdsDiffer(present) => ItemAt(present', selected') = ItemAt(present, selected)
  /\ (Undo \/ Redo) /\ selected \in DOMAIN present /\ present[selected].id \in Ids(present') /\ IdsDiffer(present') =>
       present'[selected'].id = present[selected].id
EditsAreExact == [][EditIsExact]_vars
=============================================================================
