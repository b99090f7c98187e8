------------------------------ MODULE MCClients ------------------------------
(***************************************************************************)
(* What runs in a browser or on one document, and shares no state, one of  *)
(* them in each behaviour (`which`), the others standing still: the state  *)
(* of a tab in three settings, tabs that share a draft, the studio page,   *)
(* the movement editor, the movement workbench, its staff, and the import  *)
(* of a staff document.                                                    *)
(***************************************************************************)
EXTENDS Integers, Sequences, TLC

CONSTANTS u1, u2, Records, n1, n2, None,
          Origins, MaxRev, MaxEdits, Restored,
          Intents, Limit, MaxDraftEdits,
          MaxItems, Garbage, Typed, MaxTyped, MaxTurns,
          Columns, MeasureIds, SymbolIds, MaxSymbols, MaxMeasures, MaxStaffEdits

VARIABLES which,
  session, generation, selection, selected, summaries, cache, calls, reads, work,
  stored, changes, asked, named,
  channel, pc, listening, held, wire, edits, since, rewound,
  mounted, editor, valid, draftChanged, drafts, unsaved, loads, reading, saving,
  intent, exporting, result, documents, draftEdits, latest,
  past, present, future, tile, field, invalid, offered, opened, draft, alive, typed,
  doc, chosen, saved, turns, loose,
  columns, measures, symbols, staffEdits,
  intermediate, written, warnings, opening

tabVars == <<session, generation, selection, selected, summaries, cache, calls, reads,
             work, stored, changes, asked, named>>
syncVars == <<channel, pc, listening, held, wire, edits, since, rewound>>
studioVars == <<mounted, editor, valid, draftChanged, drafts, unsaved, loads, reading,
                saving, intent, exporting, result, documents, draftEdits, latest>>
editorVars == <<past, present, future, tile, field, invalid, offered, opened, draft, alive, typed>>
benchVars == <<doc, chosen, saved, turns, loose>>
staffVars == <<columns, measures, symbols, staffEdits>>
importVars == <<intermediate, written, warnings, opening>>
movementVars == <<editorVars, benchVars, staffVars, importVars>>

-----------------------------------------------------------------------------
\* Two users who sign in and out, and answers that come late.
Sessions == INSTANCE Workspace WITH Users <- {u1, u2}, Names <- {}, MaxOpen <- 2,
  MaxReads <- 4, MaxSelections <- 4, MaxClears <- 3, MaxChanges <- 0

\* One user attaches one document, selecting other records meanwhile.
Attaching == INSTANCE Workspace WITH Users <- {u1}, Names <- {n1}, MaxOpen <- 2,
  MaxReads <- 3, MaxSelections <- 3, MaxClears <- 1, MaxChanges <- 0

\* One user attaches two documents to records that others change.
Sharing == INSTANCE Workspace WITH Users <- {u1}, Names <- {n1, n2}, MaxOpen <- 1,
  MaxReads <- 3, MaxSelections <- 2, MaxClears <- 1, MaxChanges <- 1

Sync == INSTANCE SessionSync

Studio == INSTANCE Studio WITH
  MaxEdits <- MaxDraftEdits, Overlapping <- FALSE, stored <- documents, edits <- draftEdits

Item(id, symbol, order, at) == [id |-> id, symbol |-> symbol, order |-> order, at |-> at]

\* A phrase whose tiles stand in another order than its items; a file whose items have
\* one id, and one that is no Motif document.
Editor == INSTANCE MovementEditor WITH
  Starts <- {<<Item(1, "run", 5, None), Item(2, "jump", 2, 0)>>},
  Files <- {<<Item(1, "run", 1, 0), Item(1, "turn", 0, 0)>>, <<Item(1, "unknown", 0, 0)>>},
  Symbols <- {"walk"}, Times <- Typed, HistoryLimit <- Limit, MaxEdits <- MaxTyped,
  selected <- tile, reading <- opened, edits <- typed

Bench == INSTANCE Workbench WITH
  Shells <- {<<>>, <<Item(1, "run", 5, None), Item(2, "jump", 2, None)>>,
             <<Item(1, "run", 0, None), Item(1, "turn", 0, None)>>, <<Item(1, "unknown", 0, None)>>},
  Palette <- {"walk"}, Orders <- {0}, Captures <- {<<>>, <<TRUE, FALSE>>}

Staff == INSTANCE LabanStaff WITH MaxEdits <- MaxStaffEdits, edits <- staffEdits

\* Files of the LabanWriter form, with any field absent, blank, of another type or another word.
Measure == [id |-> "m1", index |-> 0, beats |-> 4, foreign |-> FALSE]
Cell == [id |-> "c", column |-> "body", measureId |-> "m1", symbolHint |-> "turn", direction |-> "left",
         level |-> "low", durationBeats |-> 2, motifHint |-> None]
File == [schemaVersion |-> "0.2.0-lw-intermediate", source |-> "labanwriter-intermediate", id |-> "f",
         title |-> None, measures |-> <<Measure>>, cells |-> <<Cell>>, notes |-> None]
Texts == {None, Garbage, "", "c"}
Numbers == {None, Garbage, 0, 2}
Words(good) == {None, Garbage, "sideways"} \cup good
StaffFiles ==
  {[File EXCEPT !.id = x, !.title = y] : x \in Texts, y \in Texts}
  \cup {[File EXCEPT !.schemaVersion = Garbage], [File EXCEPT !.source = Garbage]}
  \cup {[File EXCEPT !.measures = x] :
          x \in {Garbage, <<>>, <<Garbage>>, <<Measure, [Measure EXCEPT !.foreign = TRUE]>>}}
  \cup {[File EXCEPT !.cells = x, !.notes = y] :
          x \in {Garbage, <<>>, <<Cell, Garbage>>}, y \in {Garbage, None, <<"n">>}}
  \cup {[File EXCEPT !.measures[1] = m] :
          m \in [id : Texts, index : Numbers, beats : Numbers, foreign : BOOLEAN]}
  \cup {[File EXCEPT !.cells[1].measureId = x, !.cells[1].motifHint = y] : x \in Texts, y \in Texts}
  \cup {[File EXCEPT !.cells = <<Cell, c>>] :
          c \in [id : {"", "c"}, column : Words({"head"}), measureId : {"m1"},
                 symbolHint : Words({"path", "stillness"}), direction : Words({"left"}),
                 level : {None, "low", "sideways"}, durationBeats : Numbers, motifHint : {None}]}
Import == INSTANCE StaffImport WITH
  Intermediates <- StaffFiles, Wrong <- Garbage, outcome <- opening

ASSUME Bounds ==
  /\ Sync!SyncBounds /\ Studio!StudioBounds
  /\ Editor!EditorAssumption /\ Bench!WorkbenchAssumption /\ Staff!StaffAssumption

-----------------------------------------------------------------------------
Init ==
  /\ which \in {"sessions", "attaching", "sharing", "sync", "studio",
                "editor", "workbench", "staff", "import"}
  /\ Sessions!Init /\ Sync!Init /\ Studio!Init /\ Editor!Init
  /\ which # "sync" => channel = "broadcast"
  /\ IF which = "workbench" THEN Bench!Init
     ELSE doc = <<>> /\ chosen = None /\ saved = None /\ turns = 0 /\ loose = <<>>
  /\ IF which = "staff" THEN Staff!Init
     ELSE columns = <<>> /\ measures = <<>> /\ symbols = <<>> /\ staffEdits = 0
  /\ IF which = "import" THEN Import!Init
     ELSE intermediate = None /\ written = None /\ warnings = {} /\ opening = "asked"

Next ==
  \/ /\ which = "sessions" /\ Sessions!Next
     /\ UNCHANGED <<which, syncVars, studioVars, movementVars>>
  \/ /\ which = "attaching" /\ Attaching!Next
     /\ UNCHANGED <<which, syncVars, studioVars, movementVars>>
  \/ /\ which = "sharing" /\ Sharing!Next
     /\ UNCHANGED <<which, syncVars, studioVars, movementVars>>
  \/ /\ which = "sync" /\ Sync!Next
     /\ UNCHANGED <<which, tabVars, studioVars, movementVars>>
  \/ /\ which = "studio" /\ Studio!Next
     /\ UNCHANGED <<which, tabVars, syncVars, movementVars>>
  \/ /\ which = "editor" /\ Editor!Next
     /\ UNCHANGED <<which, tabVars, syncVars, studioVars, benchVars, staffVars, importVars>>
  \/ /\ which = "workbench" /\ Bench!Next
     /\ UNCHANGED <<which, tabVars, syncVars, studioVars, editorVars, staffVars, importVars>>
  \/ /\ which = "staff" /\ Staff!Next
     /\ UNCHANGED <<which, tabVars, syncVars, studioVars, editorVars, benchVars, importVars>>
  \/ /\ which = "import" /\ Import!Next
     /\ UNCHANGED <<which, tabVars, syncVars, studioVars, editorVars, benchVars, staffVars>>

Spec == Init /\ [][Next]_<<which, tabVars, syncVars, studioVars, movementVars>>

Symmetry == Permutations(Records) \cup Permutations(Intents)

(* The properties of each, as its module states them.                      *)
Tabs == {"sessions", "attaching", "sharing"}
TabsAreSound == which \in Tabs => Sessions!SessionsApart /\ Sessions!AttachResumes
TabsConverge == which = "sync" => Sync!TabsConverge
WorkIsKept ==
  /\ which = "studio" => Studio!WorkIsKept
  /\ which = "editor" => Editor!ShowsDocument /\ Editor!DraftFollows
  /\ which = "workbench" => Bench!WorkbenchIsSound
  /\ which = "staff" => Staff!ImportIsShown
  /\ which = "import" => Import!ImportIsSound

(* The abstract history and the exact edits are asked of the steps of the  *)
(* machine they are about only: the other steps leave its state alone.     *)
StepsAreExact ==
  /\ Sessions!ShowsWhatWasAsked
  /\ Editor!Line!Init
  /\ [][which = "editor" => Editor!Line!Next]_<<past, present, future>>
  /\ [][which = "editor" => Editor!EditIsExact]_editorVars
  /\ [][which = "staff" => Staff!EditIsShown]_staffVars
=============================================================================
