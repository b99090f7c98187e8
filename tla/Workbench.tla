------------------------------ MODULE Workbench ------------------------------
(***************************************************************************)
(* The page of the movement workbench (apps/movement-workbench): a Motif   *)
(* document, its canvas of tiles with one selected, and the session in the *)
(* storage of the browser, which others who use the library of the         *)
(* workbench edit too.                                                     *)
(***************************************************************************)
EXTENDS Motif

CONSTANTS Shells,      \* documents of the shell, or written to the storage as they are
          Palette,     \* a part of the vocabulary to choose from
          Orders,      \* orders that a patch sets
          Captures,    \* recordings: whether the dancer moved, frame by frame
          MaxItems, MaxTurns  \* bounds on a document and on edits

WorkbenchAssumption == Palette \subseteq Vocabulary /\ Orders \subseteq Nat /\ MaxItems \in Nat /\ MaxTurns \in Nat

VARIABLES doc,      \* the items of the document
          chosen,   \* session.selectedId, or None
          saved,    \* the items in the storage, or None
          turns,    \* how many edits were made
          loose     \* per copy: removals since its last addition or move, and whether
                    \* an item was added after two of them, the copy was written so or
                    \* an order was set by hand

vars == <<doc, chosen, saved, turns, loose>>

Tight == [removals |-> 0, apart |-> FALSE]
Foreign == [removals |-> 0, apart |-> TRUE]

orderedItemIds(items) == [k \in DOMAIN items |-> Shown(items)[k].id]
FirstShown(items) == IF items = <<>> THEN None ELSE orderedItemIds(items)[1]

Keys == {"ArrowRight", "ArrowLeft", "Home", "End"}

selectedTileIndex(ids, id) ==
  LET place == First(ids, LAMBDA other : other = id) IN IF place = 0 THEN 1 ELSE place

\* Mutant: the last tile is not reached.
tileNavigationIndex_Short(length, index, key) ==
  CASE key = "ArrowRight" -> IF index + 1 < length THEN index + 1 ELSE index
    [] key = "ArrowLeft" -> IF index > 1 THEN index - 1 ELSE 1
    [] key = "Home" -> 1
    [] key = "End" -> length

tileNavigationIndex(length, index, key) ==
  CASE key = "ArrowRight" -> IF index < length THEN index + 1 ELSE length
    [] key = "ArrowLeft" -> IF index > 1 THEN index - 1 ELSE 1
    [] key = "Home" -> 1
    [] key = "End" -> length

navigateTiles(items, id, key) ==
  LET ids == orderedItemIds(items)
  IN IF items = <<>> THEN None
     ELSE ids[tileNavigationIndex(Len(ids), selectedTileIndex(ids, id), key)]

\* The tiles that Tab reaches: those of the selected id, or of the first tile.
TabStops(items, id) ==
  LET ids == orderedItemIds(items)
      stop == IF id \in Ids(items) THEN id ELSE ids[1]
  IN {k \in DOMAIN ids : ids[k] = stop}

-----------------------------------------------------------------------------
Init ==
  /\ doc \in {s \in Shells : Valid(s)}
  /\ chosen = FirstShown(doc)
  /\ saved = None /\ turns = 0
  /\ loose = [doc |-> Foreign, saved |-> Foreign]

Turn == turns < MaxTurns /\ turns' = turns + 1

\* What an addition and a removal do to the orders of a copy.
Added(l) == [removals |-> 0, apart |-> l.apart \/ l.removals > 1]
Dropped(l) == [l EXCEPT !.removals = @ + 1]

FreshId == CHOOSE n \in 1 .. MaxItems * 2 + 1 :
             n \notin Ids(doc) \cup (IF saved = None THEN {} ELSE Ids(saved))

addFromPalette(symbol) ==
  /\ Turn /\ Len(doc) < MaxItems
  /\ doc' = addItem(doc, FreshId, symbol)
  /\ chosen' = Last(doc').id
  /\ loose' = [loose EXCEPT !.doc = Added(@)]
  /\ UNCHANGED saved

Click(id) ==
  /\ id \in Ids(doc) /\ chosen' = id
  /\ UNCHANGED <<doc, saved, turns, loose>>

Press(key) ==
  /\ chosen' = navigateTiles(doc, chosen, key)
  /\ UNCHANGED <<doc, saved, turns, loose>>

saveSession ==
  /\ Valid(doc)
  /\ saved' = doc /\ loose' = [loose EXCEPT !.saved = loose.doc]
  /\ UNCHANGED <<doc, chosen, turns>>

\* Mutant: the storage is taken at its word.
Readable_Anyway(items) == items # None

Readable(items) == IF items = None THEN FALSE ELSE Valid(items)

\* What cannot be read is announced, and the page keeps its document.
loadSession ==
  /\ Readable(saved)
  /\ doc' = saved /\ chosen' = FirstShown(saved)
  /\ loose' = [loose EXCEPT !.doc = loose.saved]
  /\ UNCHANGED <<saved, turns>>

\* Another user of the storage writes a document of its own, or edits the one there
\* with the library; an edit that is refused leaves it as it is.
Written(items, l) ==
  /\ Turn
  /\ saved' = items /\ loose' = [loose EXCEPT !.saved = l]
  /\ UNCHANGED <<doc, chosen>>

WriteSession(items) == Written(items, Foreign)

\* A sketch of a recording, an item between each two of its frames.
annotationToMotifSketch(moved) ==
  [i \in DOMAIN moved |-> [id |-> i, symbol |-> IF moved[i] THEN "travel" ELSE "stillness",
                           order |-> i - 1, at |-> None]]

createSketchMotif == \E moved \in Captures : Written(annotationToMotifSketch(moved), Tight)

EditSession(id) ==
  /\ Readable(saved) /\ id \in Ids(saved)
  /\ \/ Written(removeItem(saved, id), Dropped(loose.saved))
     \/ \E s \in Palette : Written(updateItem(saved, id, [symbol |-> s]), loose.saved)
     \/ \E o \in Orders : Written(updateItem(saved, id, [order |-> o]), Foreign)

MoveInSession(from, to) ==
  /\ Readable(saved) /\ {from, to} \subseteq DOMAIN saved /\ from # to
  /\ moveItem(saved, from, to) # None
  /\ Written(moveItem(saved, from, to), Tight)

Next ==
  \/ \E s \in Palette : addFromPalette(s)
  \/ \E id \in 1 .. MaxItems * 2 + 1 : Click(id) \/ EditSession(id)
  \/ \E key \in Keys : Press(key)
  \/ saveSession \/ loadSession
  \/ \E items \in Shells : WriteSession(items)
  \/ createSketchMotif
  \/ \E from, to \in 1 .. MaxItems : MoveInSession(from, to)

Spec == Init /\ [][Next]_vars

-----------------------------------------------------------------------------
\* Whatever was stored, the page shows a document that it can save again, one of its
\* tiles is selected, and a keyboard reaches all of them: Tab one, Home and the arrows
\* each of the others.  Ids that repeat are exempt: the arrows then return to the first
\* tile of an id, and each of its tiles is a tab stop (navigateTiles, rovingTabindexState).
Walked == [k \in 1 .. Len(doc) |->
  LET Walk[n \in 1 .. Len(doc)] ==
        IF n = 1 THEN navigateTiles(doc, chosen, "Home") ELSE navigateTiles(doc, Walk[n - 1], "ArrowRight")
  IN Walk[k]]
TilesAreReached ==
  /\ Valid(doc)
  /\ IF doc = <<>> THEN chosen = None ELSE chosen \in Ids(doc)
  /\ IdsDiffer(doc) /\ doc # <<>> =>
       Cardinality(TabStops(doc, chosen)) = 1 /\ Walked = orderedItemIds(doc)

\* The tiles stand in the order of the list and of the projection, as long as no order was
\* set by hand (updateItem) and no item was added after two removals: a new item takes the
\* number of items for its order, which after two removals is below the order of the last
\* one (addItem, reorderItems).
CanvasReadsAsList == ~loose.doc.apart => Shown(doc) = doc

\* A phrase of any length is engraved whole, whatever the size of a tile and of a row.
Fits == [n \in 0 .. MaxItems |-> \A size \in {1, 64}, perRow \in 1 .. 3 : EngravingFits(n, size, perRow)]
IsEngraved == Fits[Len(doc)]

WorkbenchIsSound == TilesAreReached /\ CanvasReadsAsList /\ IsEngraved
=============================================================================
