------------------------------ MODULE LabanStaff ------------------------------
(***************************************************************************)
(* A staff document (mvei-laban-subset): its import from the open          *)
(* LabanWriter form, the edits of the workbench, column by column, and     *)
(* what its rendering shows (packages/movement-toolkit labanwriter-import, *)
(* apps/movement-workbench laban-subset.mjs, laban-render.mjs).  Neither   *)
(* the parser nor an import asks whether ids differ or a measure is there. *)
(***************************************************************************)
EXTENDS Integers, Sequences, FiniteSets, SequencesExt

CONSTANTS Columns, MeasureIds, SymbolIds,
          None,
          MaxSymbols, MaxMeasures, \* bounds on a document
          MaxEdits                 \* bound on edits

StaffAssumption == MaxSymbols \in Nat /\ MaxMeasures \in Nat /\ MaxEdits \in Nat

VARIABLES columns,   \* staff.columns
          measures,  \* [id, index]
          symbols,   \* [id, column, measureId, nr], in the order of the array
          edits      \* numbers the symbols: nr tells apart those of one id

vars == <<columns, measures, symbols, edits>>

Elements(seq) == {seq[i] : i \in DOMAIN seq}
SeqsUpTo(S, n) == UNION {[1 .. m -> S] : m \in 0 .. n}

\* [...new Set(values)]: each value where it comes first.
Unique(seq) == FoldLeft(LAMBDA acc, v : IF v \in Elements(acc) THEN acc ELSE Append(acc, v), <<>>, seq)

-----------------------------------------------------------------------------
\* importMeasures: a document without measures gets one.
DefaultMeasure == CHOOSE m \in MeasureIds : TRUE
importMeasures(given) == IF given = <<>> THEN <<[id |-> DefaultMeasure, index |-> 0]>> ELSE given

importSymbols(cells) ==
  [i \in DOMAIN cells |->
     [id |-> cells[i].id, column |-> cells[i].column, measureId |-> cells[i].measureId, nr |-> -i]]

Cells == [id : SymbolIds, column : Columns, measureId : MeasureIds]

\* A document of its own, or the import of any intermediate that is valid.
Init ==
  /\ edits = 0
  /\ \E given \in SeqsUpTo([id : MeasureIds, index : 0 .. 1], MaxMeasures),
        cells \in SeqsUpTo(Cells, MaxSymbols - 1) :
       /\ measures = importMeasures(given)
       /\ symbols = importSymbols(cells)
       /\ columns = Unique([i \in DOMAIN cells |-> cells[i].column])

Edit == edits < MaxEdits /\ edits' = edits + 1 /\ UNCHANGED measures
Put(symbol) == Len(symbols) < MaxSymbols /\ symbols' = Append(symbols, symbol)

\* Mutant: the column of the symbol is not put on the staff.
Listed_Present(column) == columns

Listed(column) == IF column \in Elements(columns) THEN columns ELSE Append(columns, column)

addLabanSymbol(id, column, m) ==
  /\ Edit
  /\ Put([id |-> id, column |-> column, measureId |-> m, nr |-> edits])
  /\ UNCHANGED columns

\* With no measure given, the first one.
addSymbolOnColumn(id, column, m) ==
  /\ Edit
  /\ Put([id |-> id, column |-> column, nr |-> edits,
          measureId |-> IF m # None THEN m ELSE IF measures = <<>> THEN DefaultMeasure ELSE measures[1].id])
  /\ columns' = Listed(column)

Keep(Is(_)) == symbols' = SelectSeq(symbols, Is)

\* Every symbol of the id goes.
removeLabanSymbol(id) ==
  /\ Edit
  /\ \E s \in Elements(symbols) : s.id = id
  /\ Keep(LAMBDA s : s.id # id)
  /\ UNCHANGED columns

\* Mutant: a measure that is given is not asked for.
StaysOn_AnyMeasure(s, column, m) == s.column # column

StaysOn(s, column, m) == s.column # column \/ (m # None /\ s.measureId # m)

removeSymbolsOnColumn(column, m) ==
  /\ Edit
  /\ Keep(LAMBDA s : StaysOn(s, column, m))
  /\ UNCHANGED columns

\* The first symbol of the id must be on the column; then every one of the id goes.
Hit(id) == SelectSeq(symbols, LAMBDA s : s.id = id)[1]
removeSymbolOnColumn(id, column) ==
  /\ \E s \in Elements(symbols) : s.id = id
  /\ Hit(id).column = column
  /\ removeLabanSymbol(id)

Next ==
  \/ \E id \in SymbolIds, c \in Columns, m \in MeasureIds : addLabanSymbol(id, c, m)
  \/ \E id \in SymbolIds, c \in Columns, m \in MeasureIds \cup {None} : addSymbolOnColumn(id, c, m)
  \/ \E id \in SymbolIds : removeLabanSymbol(id)
  \/ \E c \in Columns, m \in MeasureIds \cup {None} : removeSymbolsOnColumn(c, m)
  \/ \E id \in SymbolIds, c \in Columns : removeSymbolOnColumn(id, c)

Spec == Init /\ [][Next]_vars

-----------------------------------------------------------------------------
(* The rendering: a row for each column of the staff, or for each column   *)
(* that is used when the staff lists none, a cell for each measure.        *)
Rows(cols, syms) == IF cols # <<>> THEN cols ELSE Unique([i \in DOMAIN syms |-> syms[i].column])

\* Mutant: a symbol is looked for under the index of its measure.
InCell_ByIndex(s, column, m) == s.column = column /\ s.measureId = m.index

InCell(s, column, m) == s.column = column /\ s.measureId = m.id

Refused == Cardinality(Elements(columns)) < Len(columns)
           \/ Cardinality({m.id : m \in Elements(measures)}) < Len(measures)

Rendered(cols, syms) ==
  IF Refused THEN {} ELSE
  {s \in Elements(syms) : \E c \in Elements(Rows(cols, syms)), m \in Elements(measures) : InCell(s, c, m)}

\* An import shows every cell whose measure is there, and an edit changes what it names:
\* what was shown stays shown unless it was removed, and a symbol that is put on a column
\* is shown there.  Exempt is a staff that listed no column: it shows all that is used
\* until the first column is listed, and then only that one (addSymbolOnColumn).
Known(s) == \E m \in Elements(measures) : m.id = s.measureId
Bare == columns = <<>> /\ symbols # <<>>
ImportIsShown ==
  edits = 0 /\ ~Refused => {s \in Elements(symbols) : Known(s)} = Rendered(columns, symbols)
EditIsShown ==
  LET before == Rendered(columns, symbols)
      after == Rendered(columns', symbols')
      put == Elements(symbols') \ Elements(symbols)
  IN /\ \A s \in before : s \in Elements(symbols') /\ ~Bare => s \in after
     /\ \A id \in SymbolIds, c \in Columns, m \in MeasureIds \cup {None} :
          addSymbolOnColumn(id, c, m) /\ ~Refused => \A s \in put : Known(s) => s \in after
     /\ \A c \in Columns, m \in MeasureIds :
          removeSymbolsOnColumn(c, m) => \A s \in before : s.column # c \/ s.measureId # m => s \in after
     /\ \A c \in Columns, id \in SymbolIds :
          /\ removeSymbolOnColumn(id, c)
          /\ \A i, j \in DOMAIN symbols : symbols[i].id = symbols[j].id => i = j
          => \A s \in before : s.column # c => s \in after
EditsAreShown == [][EditIsShown]_vars
=============================================================================
