-------------------------------- MODULE Studio --------------------------------
(***************************************************************************)
(* The studio of one tab of apps/relay-web: the record that is mounted in  *)
(* the editor, the drafts that are kept while other records are mounted,   *)
(* the stored document that arrives late, an attachment under way, and the *)
(* handoff panel.                                                          *)
(*                                                                         *)
(* A document is the number of the edit that made it, 0 the empty one.     *)
(* What counts its epochs in the code and compares them after an await is  *)
(* a flag here, "current", which a new epoch clears.                       *)
(***************************************************************************)
EXTENDS Integers, Sequences, FiniteSets, TLC

CONSTANTS Records, Intents,
          Limit,        \* length of the undo history
          MaxEdits,     \* bound on edits
          Overlapping,  \* the user edits, or leaves, while a save is under way
          None

StudioBounds == Limit \in Nat \ {0} /\ Overlapping \in BOOLEAN

VARIABLES mounted,      \* the record in the editor, or None
          editor,       \* [past, present, future]
          valid, draftChanged,
          drafts, unsaved,
          loads,        \* stored documents on their way
          reading,      \* a file is being read for the editor
          saving,       \* the attachment under way, or None
          intent,       \* purpose and destination that are entered, or None
          exporting,    \* the export under way, or None
          result,       \* the result that is shown, or None
          stored,       \* the document that each record refers to, or None
          edits,
          latest        \* per record: what the user made of it and has not saved

kept == <<drafts, unsaved>>
handoff == <<intent, exporting, result>>
vars == <<mounted, editor, valid, draftChanged, kept, loads, reading, saving,
          handoff, stored, edits, latest>>

Fresh(doc) == [past |-> <<>>, present |-> doc, future |-> <<>>]

Init ==
  /\ mounted = None /\ editor = Fresh(0)
  /\ valid = FALSE /\ draftChanged = FALSE
  /\ drafts = <<>> /\ unsaved = {}
  /\ loads = {} /\ reading = FALSE
  /\ saving = None
  /\ intent = None /\ exporting = None /\ result = None
  /\ stored = [r \in Records |-> None]
  /\ edits = 0
  /\ latest = [r \in Records |-> None]

Outdated(pending) == {[l EXCEPT !.current = FALSE] : l \in pending}

\* The handoff panel enters a new epoch: what it shows is withdrawn.
Invalidate ==
  /\ result' = None
  /\ exporting' = IF exporting = None THEN None
                  ELSE [exporting EXCEPT !.current = FALSE]

\* The user reaches the page behind the dialog of an attachment.
Reachable == saving = None \/ Overlapping

-----------------------------------------------------------------------------
(* Mounting.                                                               *)

mountSelected(r) ==
  /\ Reachable
  /\ mounted # None => valid
  /\ mounted' = r
  /\ editor' = Fresh(IF r \in DOMAIN drafts THEN drafts[r] ELSE 0)
  /\ valid' = TRUE
  /\ draftChanged' = (r \in unsaved)
  /\ reading' = FALSE
  /\ loads' = Outdated(loads) \union
       (IF stored[r] = None \/ r \in DOMAIN drafts THEN {}
        ELSE {[record |-> r, doc |-> stored[r], current |-> TRUE]})
  /\ intent' = None
  /\ Invalidate
  /\ UNCHANGED <<kept, saving, stored, edits, latest>>

\* The session ends, by the user or by the clock: what was private is gone.
EndSession ==
  /\ mounted # None
  /\ mounted' = None
  /\ editor' = Fresh(0)
  /\ valid' = FALSE /\ draftChanged' = FALSE
  /\ drafts' = <<>> /\ unsaved' = {}
  /\ loads' = {} /\ reading' = FALSE
  /\ saving' = None
  /\ intent' = None /\ exporting' = None /\ result' = None
  /\ latest' = [r \in Records |-> None]
  /\ UNCHANGED <<stored, edits>>

\* Mutant: the mounted record is checked, but not whether it was edited.
OpensStored_Unedited(load) == load.current

OpensStored(load) == load.current /\ ~draftChanged

loadStoredDocument(load) ==
  /\ loads' = loads \ {load}
  /\ IF OpensStored(load)
     THEN /\ editor' = Fresh(load.doc)
          /\ valid' = TRUE
          /\ drafts' = (load.record :> load.doc) @@ drafts
     ELSE UNCHANGED <<editor, valid, drafts>>
  /\ UNCHANGED <<mounted, draftChanged, unsaved, reading, saving, handoff,
                 stored, edits, latest>>

-----------------------------------------------------------------------------
(* Editing: the history of the editor, and onChange.                       *)

Last(seq, n) == SubSeq(seq, IF Len(seq) > n THEN Len(seq) - n + 1 ELSE 1, Len(seq))

Pushed(doc) ==
  [past |-> Last(Append(editor.past, editor.present), Limit), present |-> doc,
   future |-> <<>>]

Undone ==
  [past |-> SubSeq(editor.past, 1, Len(editor.past) - 1),
   present |-> editor.past[Len(editor.past)],
   future |-> Append(editor.future, editor.present)]

Redone ==
  [past |-> Append(editor.past, editor.present),
   present |-> editor.future[Len(editor.future)],
   future |-> SubSeq(editor.future, 1, Len(editor.future) - 1)]

\* publish: the draft of the mounted record is what the editor holds.
Publish(next, isValid) ==
  /\ mounted # None /\ Reachable
  /\ editor' = next
  /\ valid' = isValid
  /\ draftChanged' = TRUE
  /\ unsaved' = unsaved \union {mounted}
  /\ drafts' = (mounted :> next.present) @@ drafts
  /\ latest' = [latest EXCEPT ![mounted] = next.present]
  /\ Invalidate
  /\ UNCHANGED <<mounted, loads, saving, intent, stored>>

Edit ==
  /\ edits < MaxEdits
  /\ Publish(Pushed(edits + 1), TRUE)
  /\ edits' = edits + 1
  /\ UNCHANGED reading

Undo == editor.past # <<>> /\ Publish(Undone, TRUE) /\ UNCHANGED <<edits, reading>>
Redo == editor.future # <<>> /\ Publish(Redone, TRUE) /\ UNCHANGED <<edits, reading>>

\* A time that is no number leaves the document as it is, and not valid.
TypeInvalid == Publish(editor, FALSE) /\ UNCHANGED <<edits, reading>>

ReadFile ==
  /\ mounted # None /\ ~reading /\ Reachable
  /\ reading' = TRUE
  /\ UNCHANGED <<mounted, editor, valid, draftChanged, kept, loads, saving,
                 handoff, stored, edits, latest>>

onImport ==
  /\ reading /\ edits < MaxEdits
  /\ Publish(Pushed(edits + 1), TRUE)
  /\ edits' = edits + 1
  /\ reading' = FALSE

-----------------------------------------------------------------------------
(* Attachment of the document as it was when the dialog was submitted.     *)

Submit ==
  /\ mounted # None /\ valid /\ saving = None
  /\ saving' = [record |-> mounted, doc |-> editor.present]
  /\ UNCHANGED <<mounted, editor, valid, draftChanged, kept, loads, reading,
                 handoff, stored, edits, latest>>

Attached ==
  /\ saving # None
  /\ stored' = [stored EXCEPT ![saving.record] = saving.doc]
  /\ latest' = [latest EXCEPT ![saving.record] = IF @ = saving.doc THEN None ELSE @]
  /\ saving' = None
  /\ IF mounted = saving.record
     THEN /\ drafts' = (mounted :> saving.doc) @@ drafts
          /\ unsaved' = unsaved \ {mounted}
          /\ draftChanged' = FALSE
          /\ Invalidate
     ELSE UNCHANGED <<kept, draftChanged, result, exporting>>
  /\ UNCHANGED <<mounted, editor, valid, loads, reading, intent, edits>>

AttachFails ==
  /\ saving # None
  /\ saving' = None
  /\ UNCHANGED <<mounted, editor, valid, draftChanged, kept, loads, reading,
                 handoff, stored, edits, latest>>

-----------------------------------------------------------------------------
(* The handoff panel.                                                      *)

Intend(i) ==
  /\ mounted # None /\ Reachable
  /\ intent' = i
  /\ Invalidate
  /\ UNCHANGED <<mounted, editor, valid, draftChanged, kept, loads, reading,
                 saving, stored, edits, latest>>

Export ==
  /\ mounted # None /\ Reachable
  /\ intent # None /\ exporting = None
  /\ exporting' = [intent |-> intent, record |-> mounted, edits |-> edits,
                   current |-> TRUE]
  /\ UNCHANGED <<mounted, editor, valid, draftChanged, kept, loads, reading,
                 saving, intent, result, stored, edits, latest>>

\* Mutant: an answer is shown whatever was entered since.
ShowsResult_Always == TRUE

ShowsResult == exporting.current

\* Permitted or not: a refusal is shown as a decision and not as a result.
Exported ==
  /\ exporting # None
  /\ \E allowed \in BOOLEAN :
       result' = IF ~ShowsResult THEN result
                 ELSE IF allowed THEN exporting ELSE None
  /\ exporting' = None
  /\ UNCHANGED <<mounted, editor, valid, draftChanged, kept, loads, reading,
                 saving, intent, stored, edits, latest>>

Next ==
  \/ \E r \in Records : mountSelected(r)
  \/ EndSession
  \/ \E load \in loads : loadStoredDocument(load)
  \/ Edit \/ Undo \/ Redo \/ TypeInvalid \/ ReadFile \/ onImport
  \/ Submit \/ Attached \/ AttachFails
  \/ \E i \in Intents : Intend(i)
  \/ Export \/ Exported

Spec == Init /\ [][Next]_vars
-----------------------------------------------------------------------------
(* "Drafts stay in memory until saved or downloaded": what the user made   *)
(* of a record and has not saved is in the editor, or is what the editor   *)
(* opens with when the record is mounted again, and the page warns before  *)
(* it is closed.                                                           *)
DraftsSurvive ==
  \A r \in Records :
    latest[r] # None =>
      /\ r \in unsaved
      /\ r \in DOMAIN drafts /\ drafts[r] = latest[r]
      /\ mounted = r => editor.present = latest[r]

(* A result that is shown, and can be downloaded, was computed for the     *)
(* purpose and destination that are entered, for the record that is open,  *)
(* and nothing was edited since it was asked for (createHandoff).          *)
ResultIsForIntent ==
  result # None =>
    /\ result.intent = intent
    /\ result.record = mounted
    /\ result.edits = edits

(* What the user makes is neither lost to a mount, an answer or an import, *)
(* nor shown as the base of a result it is not.                            *)
WorkIsKept == DraftsSurvive /\ ResultIsForIntent
=============================================================================
