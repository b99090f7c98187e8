-------------------------------- MODULE Motif --------------------------------
(***************************************************************************)
(* Motif documents and what is computed from them: which are valid, the    *)
(* order in which their items are shown, the edits of the two editors (the *)
(* studio of apps/relay-web and the movement workbench), and the           *)
(* projection of a phrase on a staff.                                      *)
(*                                                                         *)
(* A document is the sequence of its items, in the order of the array; an  *)
(* item has an order of its own and a time anchor or None.  Symbols are    *)
(* those of the vocabulary; "unknown" stands for any other text.           *)
(***************************************************************************)
EXTENDS Integers, Sequences, FiniteSets, SequencesExt

CONSTANT None

Steps == {"walk", "run"}
LevelChanges == {"jump", "fall", "rise"}
Gestures == {"gesture_arm", "gesture_leg"}
Turns == {"turn", "twist"}
Pauses == {"stillness", "balance", "phrase_begin", "phrase_end"}
Efforts == {"effort_strong", "effort_light"}
Vocabulary == Steps \cup LevelChanges \cup Gestures \cup Turns \cup Pauses \cup Efforts \cup {"travel"}

\* What the parser accepts: neither is an id unique, nor are the orders dense.
Valid(items) == \A i \in DOMAIN items : items[i].symbol \in Vocabulary /\ items[i].order >= 0

Ids(items) == {items[i].id : i \in DOMAIN items}
IdsDiffer(items) == Cardinality(Ids(items)) = Len(items)

\* The places of the items in the array, in the order they are shown (a stable sort).
Before(items, i, j) ==
  items[i].order < items[j].order \/ (items[i].order = items[j].order /\ i < j)
Displayed(items) == SetToSortSeq(DOMAIN items, LAMBDA i, j : Before(items, i, j))
Shown(items) == [k \in DOMAIN items |-> items[Displayed(items)[k]]]
PlaceOf(items, i) == CHOOSE k \in DOMAIN items : Displayed(items)[k] = i

\* findIndex and indexOf: the first of several, 0 for none.
First(seq, Is(_)) ==
  LET hits == {i \in DOMAIN seq : Is(seq[i])}
  IN IF hits = {} THEN 0 ELSE CHOOSE i \in hits : \A j \in hits : i <= j

\* Mutant: items keep the orders they had.
Reindexed_Kept(items) == items

Reindexed(items) == [k \in DOMAIN items |-> [items[k] EXCEPT !.order = k - 1]]

\* The element at `from` is taken out and put back at `to`.
Spliced(seq, from, to) == InsertAt(RemoveAt(seq, from), to, seq[from])

-----------------------------------------------------------------------------
(* The edits of the studio's editor, which names an item by its place in   *)
(* the array (packages/movement/browser/authoring.mjs).                    *)
updateMotifItem(items, i, item) == [items EXCEPT ![i] = [item EXCEPT !.id = items[i].id]]

\* Mutant: the order of a new item is the number of items.
appendMotifItem_Count(items, id) ==
  Append(items, [id |-> id, symbol |-> "walk", order |-> Len(items), at |-> None])

appendMotifItem(items, id) ==
  LET orders == {items[i].order : i \in DOMAIN items}
      next == IF orders = {} THEN 0 ELSE 1 + (CHOOSE o \in orders : \A p \in orders : p <= o)
  IN Append(items, [id |-> id, symbol |-> "walk", order |-> next, at |-> None])

removeMotifItem(items, i) == RemoveAt(items, i)

\* Mutant: the item moves in the array, whatever is shown.
moveMotifItem_InArray(items, i, offset) ==
  IF i + offset \in DOMAIN items THEN Reindexed(Spliced(items, i, i + offset)) ELSE items

moveMotifItem(items, i, offset) ==
  Reindexed(Spliced(Shown(items), PlaceOf(items, i), PlaceOf(items, i) + offset))

-----------------------------------------------------------------------------
(* The edits of the workbench, which names an item by its id               *)
(* (apps/movement-workbench/src/motif.mjs, canvas.mjs).                    *)
addItem(items, id, symbol) ==
  Append(items, [id |-> id, symbol |-> symbol, order |-> Len(items), at |-> None])

removeItem(items, id) == SelectSeq(items, LAMBDA item : item.id # id)

\* The fields of an item that a patch names; the id is no such field.
updateItem(items, id, patch) ==
  [i \in DOMAIN items |-> IF items[i].id = id THEN patch @@ items[i] ELSE items[i]]

\* Refused (None) when two items have one id: reorderItems names them by id.
moveItem(items, from, to) ==
  IF IdsDiffer(items) THEN Reindexed(Spliced(items, from, to)) ELSE None

-----------------------------------------------------------------------------
(* The projection on a staff (packages/movement/browser/transforms.mjs).   *)
Supports(items, i) ==
  Cardinality({j \in 1 .. i - 1 : items[j].symbol \in Steps \cup LevelChanges})

\* Mutant: the side of a step is that of its place in the phrase.
Column_ByPlace(items, i) ==
  IF items[i].symbol \in Steps
  THEN IF i % 2 = 1 THEN "support_right" ELSE "support_left" ELSE "body"

Column(items, i) ==
  LET symbol == items[i].symbol
  IN CASE symbol \in Steps -> IF Supports(items, i) % 2 = 0 THEN "support_right" ELSE "support_left"
       [] symbol \in LevelChanges -> "support_right"
       [] symbol = "gesture_leg" -> "leg_right"
       [] symbol = "gesture_arm" -> "arm_right"
       [] OTHER -> "body"

Beats == 4
Measures(items) == 0 .. (IF items = <<>> THEN 1 ELSE (Len(items) + 1) \div 2) - 1

\* Mutant: the third item of a phrase is put in its first measure.
Placed_Late(items, i) ==
  [id |-> items[i].id, column |-> Column(items, i),
   measure |-> i \div 2, beat |-> (i % 2) * 2, lasts |-> 2]

Placed(items, i) ==
  [id |-> items[i].id, column |-> Column(items, i),
   measure |-> (i - 1) \div 2, beat |-> ((i - 1) % 2) * 2, lasts |-> 2]

motifToLabanSubset(items) == [i \in DOMAIN items |-> Placed(items, i)]

\* A phrase is read on the staff as it was written: every item in a measure that is
\* there and within its beats, one after the other, and two steps that follow each
\* other, whatever gestures and turns lie between them, fall on two sides.
StaffReadsBack(items) ==
  LET staff == motifToLabanSubset(items)
      Start(i) == staff[i].measure * Beats + staff[i].beat
  IN /\ \A i \in DOMAIN items : /\ staff[i].measure \in Measures(items)
                                /\ staff[i].beat + staff[i].lasts <= Beats
     /\ \A i, j \in DOMAIN items : i < j => Start(i) + staff[i].lasts <= Start(j)
     /\ \A i, j \in DOMAIN items :
          /\ i < j /\ items[i].symbol \in Steps /\ items[j].symbol \in Steps
          /\ \A k \in i + 1 .. j - 1 : items[k].symbol \notin Steps \cup LevelChanges
          => staff[i].column # staff[j].column
-----------------------------------------------------------------------------
(* The engraving of a phrase: tiles in rows, with their labels             *)
(* (packages/movement-toolkit/src/engraver).  Lengths are pixels.          *)
PadX == 12
TitleH == 20
Gap == 4
LabelBand == 22
OrderLabel == 18   \* its baseline, below the tile
Lesser(a, b) == IF a < b THEN a ELSE b
Greater(a, b) == IF a > b THEN a ELSE b

resolveCellSize(size) == Greater(48, size)

\* Mutant: the items of a last row that is not full have none.
EngravingRows_Full(n, perRow) == Greater(1, n \div perRow)

EngravingRows(n, perRow) == Greater(1, (n + perRow - 1) \div perRow)

createEngravingLayout(n, size, perRow) ==
  LET cell == resolveCellSize(size)
      tile == cell - 8
      rows == EngravingRows(n, perRow)
      cols == Lesser(Greater(n, 1), perRow)
      stride == cell + Gap
      rowH == tile + LabelBand + 10
  IN [tile |-> tile, perRow |-> perRow, rows |-> rows, cols |-> cols, stride |-> stride, rowH |-> rowH,
      width |-> Greater(cell + PadX * 2, PadX * 2 + cols * stride - Gap),
      height |-> TitleH + 10 + rows * rowH + 10]

RowTop(layout, row) == TitleH + 10 + row * layout.rowH

engravedCell(layout, k) ==
  [x |-> PadX + ((k - 1) % layout.perRow) * layout.stride, y |-> RowTop(layout, (k - 1) \div layout.perRow)]

BarlineX(layout, col) == PadX + (col + 1) * layout.stride - Gap \div 2

\* Of any number of items each tile lies with its labels inside the picture, apart from
\* the others and from the barlines of its row (createEngravingLayout).
EngravingFits(n, size, perRow) ==
  LET layout == createEngravingLayout(n, size, perRow)
      At(k) == engravedCell(layout, k)
      Below(k) == At(k).y + layout.tile + OrderLabel
  IN /\ \A k \in 1 .. n : /\ At(k).x + layout.tile <= layout.width - PadX
                         /\ Below(k) <= layout.height
                         /\ \A col \in 0 .. layout.cols - 2 :
                              BarlineX(layout, col) \notin At(k).x .. At(k).x + layout.tile
     /\ \A j, k \in 1 .. n : j < k =>
          \/ At(j).y = At(k).y /\ At(j).x + layout.tile < At(k).x
          \/ Below(j) < At(k).y
=============================================================================
