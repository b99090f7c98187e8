------------------------------ MODULE StaffImport ------------------------------
(***************************************************************************)
(* The import of the open LabanWriter form (packages/movement-toolkit,     *)
(* labanwriter-import): a file is validated, mapped to a staff document    *)
(* with warnings, written, and opened by the parser of the browser profile *)
(* (packages/movement, browser/parser.mjs), which reads the schema of the  *)
(* document and knows nothing of the import.  Wrong is a value of another  *)
(* type than the field has; a field that is left out is None.              *)
(***************************************************************************)
EXTENDS Naturals, Sequences, SequencesExt

CONSTANTS Intermediates,  \* files: [schemaVersion, source, id, title, measures, cells, notes]
          None, Wrong

VARIABLES intermediate,
          written,   \* the document, or None
          warnings,  \* set of [about, nr]
          outcome    \* "asked", "refused", "written", "opened", "rejected"

vars == <<intermediate, written, warnings, outcome>>

COLUMNS ==
  {"support_left", "support_right", "leg_left", "leg_right", "body", "arm_left", "arm_right", "head"}
SYMBOL_HINTS == {"support", "gesture", "direction", "level", "turn", "stillness", "path"}
DIRECTIONS ==
  {"place", "forward", "backward", "left", "right", "diagonal_fl", "diagonal_fr", "diagonal_bl",
   "diagonal_br"}
LEVELS == {"low", "middle", "high"}

-----------------------------------------------------------------------------
(* What the import asks of a file.  A blank text is "".                    *)

requiredString(value) == value \notin {None, Wrong, ""}
optionalString(value) == value # Wrong
optionalNonNegativeNumber(value) == value = None \/ value \in Nat
validateVocabulary(value, vocabulary) == value \in vocabulary

\* Mutant: any word will do.
validateOptionalVocabulary_AnyWord(value, vocabulary) == value # Wrong

validateOptionalVocabulary(value, vocabulary) == value = None \/ value \in vocabulary

validateIntermediateIdentity(value) ==
  /\ value.schemaVersion = "0.2.0-lw-intermediate" /\ value.source = "labanwriter-intermediate"
  /\ requiredString(value.id) /\ optionalString(value.title)

validateIntermediateCollections(value) == Wrong \notin {value.measures, value.cells, value.notes}

validateIntermediateMeasure(measure) ==
  /\ measure # Wrong
  /\ requiredString(measure.id) /\ measure.index \in Nat /\ optionalNonNegativeNumber(measure.beats)

\* Mutant: the duration of a cell is not looked at.
validateIntermediateCell_Timeless(cell) ==
  /\ cell # Wrong
  /\ requiredString(cell.id) /\ requiredString(cell.measureId)
  /\ validateVocabulary(cell.column, COLUMNS) /\ validateVocabulary(cell.symbolHint, SYMBOL_HINTS)
  /\ validateOptionalVocabulary(cell.direction, DIRECTIONS)
  /\ validateOptionalVocabulary(cell.level, LEVELS)
  /\ optionalString(cell.motifHint)

validateIntermediateCell(cell) ==
  /\ cell # Wrong
  /\ requiredString(cell.id) /\ requiredString(cell.measureId)
  /\ validateVocabulary(cell.column, COLUMNS) /\ validateVocabulary(cell.symbolHint, SYMBOL_HINTS)
  /\ validateOptionalVocabulary(cell.direction, DIRECTIONS)
  /\ validateOptionalVocabulary(cell.level, LEVELS)
  /\ optionalNonNegativeNumber(cell.durationBeats) /\ optionalString(cell.motifHint)

validateIntermediate(value) ==
  /\ validateIntermediateIdentity(value) /\ validateIntermediateCollections(value)
  /\ \A measure \in ToSet(value.measures) : validateIntermediateMeasure(measure)
  /\ \A cell \in ToSet(value.cells) : validateIntermediateCell(cell)

-----------------------------------------------------------------------------
(* What it makes of a file.                                                *)

Warning(about, nr) == [about |-> about, nr |-> nr]
OrElse(value, default) == IF value = None THEN default ELSE value

\* Measures are taken as they are, with whatever else they have (foreign).
importMeasures(measures) ==
  IF measures = <<>> THEN <<[id |-> "m0", index |-> 0, beats |-> 4, foreign |-> FALSE]>> ELSE measures

importSymbols(cells) ==
  [i \in DOMAIN cells |->
    [id |-> cells[i].id, kind |-> cells[i].symbolHint, column |-> cells[i].column,
     measureId |-> cells[i].measureId, direction |-> OrElse(cells[i].direction, "place"),
     level |-> OrElse(cells[i].level, "middle"), durationBeats |-> OrElse(cells[i].durationBeats, 1),
     motifSymbol |-> cells[i].motifHint]]

\* Mutant: a symbol that stands still is told of and no other.
Defaulted_Still(cell) == cell.direction = None /\ cell.symbolHint = "stillness"

Defaulted(cell) == cell.direction = None /\ cell.symbolHint # "stillness"

importWarnings(value) ==
  {Warning("partial", 0)}
  \cup (IF value.notes = None THEN {} ELSE {Warning("note", i) : i \in DOMAIN value.notes})
  \cup (IF value.measures = <<>> THEN {Warning("measures", 0)} ELSE {})
  \cup {Warning("direction", i) : i \in {j \in DOMAIN value.cells : Defaulted(value.cells[j])}}

Made(value) ==
  [id |-> value.id, title |-> value.title, columns |-> {cell.column : cell \in ToSet(value.cells)},
   measures |-> importMeasures(value.measures), symbols |-> importSymbols(value.cells)]

\* The command writes nothing when the file is refused.
importLabanWriterIntermediate ==
  /\ outcome = "asked"
  /\ IF validateIntermediate(intermediate)
     THEN /\ written' = Made(intermediate) /\ warnings' = importWarnings(intermediate)
          /\ outcome' = "written"
     ELSE outcome' = "refused" /\ UNCHANGED <<written, warnings>>
  /\ UNCHANGED intermediate

-----------------------------------------------------------------------------
(* The parser, which interprets the schema of the document.                *)

IsString(value) == value \notin {None, Wrong}
IsNumber(value) == value \in Nat

MeasureOfSchema(m) ==
  /\ m # Wrong /\ ~m.foreign
  /\ IsString(m.id) /\ IsNumber(m.index) /\ (m.beats = None \/ IsNumber(m.beats))

SymbolOfSchema(s) ==
  /\ IsString(s.id) /\ IsString(s.measureId)
  /\ s.kind \in SYMBOL_HINTS /\ s.column \in COLUMNS /\ s.direction \in DIRECTIONS
  /\ s.level \in LEVELS /\ (s.durationBeats = None \/ IsNumber(s.durationBeats))
  /\ (s.motifSymbol = None \/ IsString(s.motifSymbol))

validateAgainstSchema(document) ==
  /\ IsString(document.id) /\ document.id # "" /\ (document.title = None \/ IsString(document.title))
  /\ document.columns \subseteq COLUMNS
  /\ \A m \in ToSet(document.measures) : MeasureOfSchema(m)
  /\ \A s \in ToSet(document.symbols) : SymbolOfSchema(s)

parseMovementDocument ==
  /\ outcome = "written"
  /\ outcome' = IF validateAgainstSchema(written) THEN "opened" ELSE "rejected"
  /\ UNCHANGED <<intermediate, written, warnings>>

Init ==
  /\ intermediate \in Intermediates
  /\ written = None /\ warnings = {} /\ outcome = "asked"

Next == importLabanWriterIntermediate \/ parseMovementDocument

Spec == Init /\ [][Next]_vars

-----------------------------------------------------------------------------
\* What the import writes opens, unless a measure has fields that the document has not: the
\* import passes them on, and the parser takes no others than the schema names.
Foreign == \E m \in ToSet(written.measures) : m.foreign
WritesWhatOpens == (outcome = "opened" => ~Foreign) /\ (outcome = "rejected" => Foreign)

\* A file is refused for its header, for an item that is none, for a blank id, or because the
\* document made of it would not open.
Blank(value) ==
  \/ value.id = ""
  \/ \E x \in ToSet(value.measures) \cup ToSet(value.cells) : x.id = ""
  \/ \E cell \in ToSet(value.cells) : cell.measureId = ""
RefusesWithReason ==
  outcome = "refused" =>
    \/ intermediate.schemaVersion # "0.2.0-lw-intermediate"
    \/ intermediate.source # "labanwriter-intermediate"
    \/ Wrong \in {intermediate.measures, intermediate.cells, intermediate.notes}
    \/ Wrong \in ToSet(intermediate.measures) \cup ToSet(intermediate.cells)
    \/ Blank(intermediate) \/ ~validateAgainstSchema(Made(intermediate))

\* Who reads the warnings knows which symbols have a direction that the file did not give (a
\* symbol that stands still has none), and every note of the file.
TellsDefaults ==
  written # None =>
    /\ \A i \in DOMAIN written.symbols :
         \/ written.symbols[i].direction = intermediate.cells[i].direction
         \/ written.symbols[i].kind = "stillness"
         \/ Warning("direction", i) \in warnings
    /\ \A i \in DOMAIN OrElse(intermediate.notes, <<>>) : Warning("note", i) \in warnings
    /\ written.measures # intermediate.measures => Warning("measures", 0) \in warnings

\* What an import promises who opens its document.
ImportIsSound == WritesWhatOpens /\ RefusesWithReason /\ TellsDefaults
=============================================================================
