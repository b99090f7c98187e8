----------------------------- MODULE ManagedFiles -----------------------------
(***************************************************************************)
(* One file of a managed directory, as the JSON record store               *)
(* (store-paths.ts) and the filesystem object store (media-safety.ts) read *)
(* and change it: one system call after the other, by several processes,   *)
(* while somebody else may change what stands under its name.  A file is   *)
(* an inode; its identity is compared between the calls.  A call that      *)
(* fails is an error of the system; those the code answers itself, as a    *)
(* missing file, are not.                                                  *)
(***************************************************************************)
EXTENDS Naturals, Sequences, FiniteSets

CONSTANTS Workers,        \* processes that use the directory
          MaxOperations,  \* bound on their operations
          MaxTrouble,     \* bound on failing calls, deaths and what others do
          Nothing         \* what an unused name stands for

VARIABLES names,        \* [Names -> a file, or Nothing]
          files,        \* sequence of [regular, log, parts]: parts are the writings
                        \* that are not finished; what is not regular is an alias
          directory,    \* "missing", "ours", or "foreign": of another owner or mode
          operation,    \* [Workers -> one operation]: what it inspected (expected) and
                        \* opened (held), whether a call of it failed (broken), and
                        \* whether the name changed meanwhile (disturbed) or since its
                        \* last look (late)
          displaced,    \* what lost the name: [by, file, seen, late]
          operations, trouble

vars == <<names, files, directory, operation, displaced, operations, trouble>>

FilesAssumption == /\ {MaxOperations, MaxTrouble} \subseteq Nat /\ IsFiniteSet(Workers)
                   /\ Nothing \notin Nat

Temporary(w) == <<"temporary", operation[w].number>>
Aside(w) == <<"aside", operation[w].number>>
File == <<"file", 0>>
Elsewhere == <<"elsewhere", 0>>
Names == {File, Elsewhere} \cup ({"temporary", "aside"} \X (1 .. MaxOperations))

Writers == {"replace", "put", "publish", "append"}   \* store, media, media, store
Readers == {"read", "fetch", "stream"}               \* store, media, media
Removers == {"remove", "erase"}                      \* store, media; a directory likewise
Idle == [does |-> "prepare", at |-> "done", number |-> 0, expected |-> Nothing, held |-> Nothing,
         result |-> "none", broken |-> FALSE, disturbed |-> FALSE, late |-> FALSE]

Links(f) == Cardinality({n \in Names : names[n] = f})
Regular(f) == files[f].regular
\* assertRegular: not an alias, and linked once.
Single(f) == Regular(f) /\ Links(f) = 1
Current == names[File]
Whole(f) == files[f].parts = {}
\* A directory of the current user, writable by nobody else.
Trusted == directory = "ours"
Foreign == directory = "foreign"

-----------------------------------------------------------------------------
At(w, at) == operation[w].at = at
Does(w, kinds) == operation[w].does \in kinds
Same == UNCHANGED <<directory, displaced, operations, trouble>>
\* One worker goes on; whoever else is at work is disturbed if the name changes.
Seen(w, o) ==
  operation' = [v \in Workers |->
    IF v = w THEN o
    ELSE IF names'[File] # names[File] /\ operation[v].at # "done"
         THEN [operation[v] EXCEPT !.disturbed = TRUE, !.late = TRUE] ELSE operation[v]]
Goes(w, at) == Seen(w, [operation[w] EXCEPT !.at = at])
Ends(w, result) == Seen(w, [operation[w] EXCEPT !.at = "done", !.result = result])
Stays == UNCHANGED <<names, files>>
Displaces(w) ==
  displaced' = displaced \cup
    (IF Current = Nothing THEN {}
     ELSE {[by |-> operation[w].does, file |-> Current, seen |-> operation[w].expected,
            late |-> operation[w].late]})

Troubled == trouble < MaxTrouble /\ trouble' = trouble + 1

Start(w) ==
  /\ At(w, "done") /\ operations < MaxOperations /\ operations' = operations + 1
  /\ Stays
  /\ \E kind \in Writers \cup Readers \cup Removers \cup {"prepare"} :
       Seen(w, [Idle EXCEPT !.does = kind, !.at = "enter", !.number = operations + 1])
  /\ UNCHANGED <<directory, displaced, trouble>>

-----------------------------------------------------------------------------
(* The directory, which writers of the object store make where it is not.  *)

\* What is published is new, and a stream is opened without a look.
First(kind) ==
  CASE kind = "publish" -> "create" [] kind = "stream" -> "open" [] OTHER -> "inspect"

Enter(w) ==
  /\ At(w, "enter") /\ Stays /\ Same
  /\ \/ Foreign /\ Ends(w, "refused")
     \/ Trusted /\ IF Does(w, {"prepare"}) THEN Ends(w, "ok") ELSE Goes(w, First(operation[w].does))
     \/ /\ directory = "missing"
        /\ \/ Does(w, {"prepare", "put", "publish"}) /\ Goes(w, "make")
           \/ Does(w, {"fetch", "stream", "erase"}) /\ Ends(w, "absent")
           \/ Does(w, {"replace", "append", "read", "remove"}) /\ Ends(w, "refused")

\* Mutant: a directory that another made meanwhile is an error.
Make_Exclusive(w) ==
  /\ At(w, "make") /\ Stays
  /\ UNCHANGED <<displaced, operations, trouble>>
  /\ directory' = IF directory = "missing" THEN "ours" ELSE directory
  /\ IF directory = "missing" THEN Goes(w, "enter") ELSE Ends(w, "failed")

\* EEXIST is no error: somebody made it meanwhile.
Make(w) ==
  /\ At(w, "make") /\ Stays /\ Goes(w, "enter")
  /\ directory' = IF directory = "missing" THEN "ours" ELSE directory
  /\ UNCHANGED <<displaced, operations, trouble>>

-----------------------------------------------------------------------------
(* What stands under the name is inspected, opened and inspected again.    *)

Inspect(w) ==
  /\ At(w, "inspect") /\ Stays /\ Same
  /\ \/ /\ Current = Nothing
        /\ \/ Does(w, {"replace", "put"}) /\ Goes(w, "create")
           \/ Does(w, {"append"}) /\ Goes(w, "exclusive")
           \/ Does(w, {"read", "fetch", "remove", "erase"}) /\ Ends(w, "absent")
     \/ /\ Current # Nothing
        /\ IF Single(Current) \/ (Does(w, {"put"}) /\ Regular(Current))
           THEN Seen(w, [operation[w] EXCEPT !.expected = Current,
                  !.at = IF Does(w, {"replace", "put"}) THEN "create"
                         ELSE IF Does(w, {"remove"}) THEN "aside" ELSE "open"])
           ELSE Ends(w, "refused")

\* verifyDescriptor: no alias is followed, and it is the file that was inspected.
Opens(w) == Single(Current) /\ (Does(w, {"stream"}) \/ Current = operation[w].expected)

Open(w) ==
  /\ At(w, "open") /\ Stays /\ Same
  /\ \/ /\ Current = Nothing
        /\ \/ Does(w, {"append"}) /\ Goes(w, "exclusive")
           \/ Does(w, Readers) /\ Ends(w, "absent")
           \/ Does(w, {"erase"}) /\ Ends(w, "failed")
     \/ /\ Current # Nothing
        /\ IF Opens(w)
           THEN Seen(w, [operation[w] EXCEPT !.held = Current, !.expected = Current,
                  !.at = IF Does(w, {"append"}) THEN "begin" ELSE IF Does(w, {"read"}) THEN "reading" ELSE "again"])
           ELSE Ends(w, "failed")

\* assertCurrentPathIdentity of an open file.
Again(w) ==
  /\ At(w, "again") /\ Stays /\ Same
  /\ IF Current # Nothing /\ Current = operation[w].held /\ Single(Current)
     THEN Goes(w, IF Does(w, {"erase"}) THEN "aside" ELSE "reading")
     ELSE Ends(w, IF Current = Nothing /\ Does(w, {"fetch"}) THEN "absent" ELSE "failed")

Read(w) ==
  /\ At(w, "reading") /\ Stays /\ Same
  /\ Ends(w, IF Whole(operation[w].held) THEN "ok" ELSE "torn")

-----------------------------------------------------------------------------
(* A log: written in place.                                                *)

Exclusive(w) ==
  /\ At(w, "exclusive") /\ Same
  /\ IF Current = Nothing
     THEN /\ files' = Append(files, [regular |-> TRUE, log |-> TRUE, parts |-> {}])
          /\ names' = [names EXCEPT ![File] = Len(files')]
          /\ Seen(w, [operation[w] EXCEPT !.at = "begin", !.held = Len(files')])
     ELSE Stays /\ Ends(w, "failed")

Begin(w) ==
  /\ At(w, "begin") /\ Same /\ UNCHANGED names
  /\ files' = [files EXCEPT ![operation[w].held].log = TRUE, ![operation[w].held].parts = @ \cup {operation[w].number}]
  /\ Goes(w, "fill")

-----------------------------------------------------------------------------
(* A file: written under a name of its own, which then becomes the file's. *)

\* The object store inspects the directory again.
Create(w) ==
  /\ At(w, "create") /\ Same
  /\ IF Does(w, {"put"}) /\ Foreign THEN Stays /\ Ends(w, "failed")
     ELSE /\ files' = Append(files, [regular |-> TRUE, log |-> FALSE, parts |-> {operation[w].number}])
          /\ names' = [names EXCEPT ![Temporary(w)] = Len(files')]
          /\ Seen(w, [operation[w] EXCEPT !.at = "fill", !.held = Len(files')])

Fill(w) ==
  /\ At(w, "fill") /\ Same /\ UNCHANGED names
  /\ files' = [files EXCEPT ![operation[w].held].parts = @ \ {operation[w].number}]
  /\ Goes(w, IF Does(w, {"append"}) THEN "sync" ELSE IF Does(w, {"publish"}) THEN "link" ELSE "check")

\* Mutant: what came meanwhile is not looked at.
Unchanged_Unasked(w) == TRUE

\* The name still stands for what was inspected.
Unchanged(w) ==
  /\ Current = operation[w].expected
  /\ Current # Nothing => IF Does(w, {"put"}) THEN Regular(Current) ELSE Single(Current)

Check(w) ==
  /\ At(w, "check") /\ Stays /\ Same
  /\ IF Unchanged(w) /\ Trusted THEN Seen(w, [operation[w] EXCEPT !.at = "rename", !.late = FALSE])
     ELSE Goes(w, "clean")

Rename(w) ==
  /\ At(w, "rename") /\ Displaces(w)
  /\ names' = [names EXCEPT ![File] = operation[w].held, ![Temporary(w)] = Nothing]
  /\ IF Does(w, {"put"}) THEN Ends(w, "ok") ELSE Goes(w, "sync")
  /\ UNCHANGED <<files, directory, operations, trouble>>

\* Mutant: the object is renamed to its key.
Link_Renames(w) ==
  /\ At(w, "link") /\ Displaces(w)
  /\ names' = [names EXCEPT ![File] = operation[w].held]
  /\ Goes(w, "unlink")
  /\ UNCHANGED <<files, directory, operations, trouble>>

\* An object is linked to its key, which must be free, and then unlinked from the other name.
Link(w) ==
  /\ At(w, "link") /\ Same /\ UNCHANGED files
  /\ IF Current = Nothing
     THEN names' = [names EXCEPT ![File] = operation[w].held] /\ Goes(w, "unlink")
     ELSE UNCHANGED names /\ Goes(w, "clean")

Unlink(w) ==
  /\ At(w, "unlink") /\ Same /\ UNCHANGED files
  /\ names' = [names EXCEPT ![Temporary(w)] = Nothing]
  /\ Goes(w, "linked")

Linked(w) ==
  /\ At(w, "linked") /\ Stays /\ Same
  /\ IF Current # Nothing /\ Single(Current) THEN Goes(w, "sync") ELSE Ends(w, "failed")

\* The directory, after a change of its names.
Sync(w) ==
  /\ At(w, "sync") /\ Stays /\ Same
  /\ IF ~Trusted /\ ~Does(w, {"publish"}) THEN Ends(w, "failed") ELSE Ends(w, "ok")

\* Mutant: an operation that fails keeps what it wrote.
Clean_Keeps(w) == At(w, "clean") /\ Stays /\ Same /\ Ends(w, "failed")

\* What was written and not published is removed, unless it is linked twice; the record
\* store asks for its directory first.
Cleanable(w) ==
  /\ names[Temporary(w)] # Nothing /\ Single(names[Temporary(w)])
  /\ Trusted \/ ~Does(w, {"replace"})
Clean(w) ==
  /\ At(w, "clean") /\ Same /\ UNCHANGED files
  /\ names' = IF Cleanable(w) THEN [names EXCEPT ![Temporary(w)] = Nothing] ELSE names
  /\ Ends(w, "failed")

-----------------------------------------------------------------------------
(* A removal: under a name of its own the file is compared once more.      *)

MoveAside(w) ==
  /\ At(w, "aside") /\ Same /\ UNCHANGED files
  /\ IF Current = Nothing \/ (Does(w, {"erase"}) /\ Foreign)
     THEN UNCHANGED names /\ Ends(w, "failed")
     ELSE /\ names' = [names EXCEPT ![Aside(w)] = Current, ![File] = Nothing]
          /\ Goes(w, "verify")

\* Mutant: whatever was moved is removed.
Moved_Any(w) == TRUE

Moved(w) ==
  LET moved == names[Aside(w)]
  IN moved = operation[w].expected /\ (IF Does(w, {"erase"}) THEN Single(moved) ELSE Regular(moved))

Verify(w) ==
  /\ At(w, "verify") /\ Stays /\ Same
  /\ Goes(w, IF Moved(w) THEN "dispose" ELSE "restore")

Dispose(w) ==
  /\ At(w, "dispose") /\ UNCHANGED <<files, directory, operations, trouble>>
  /\ displaced' = displaced \cup {[by |-> operation[w].does, file |-> names[Aside(w)],
                                    seen |-> operation[w].expected, late |-> FALSE]}
  /\ names' = [names EXCEPT ![Aside(w)] = Nothing]
  /\ IF Does(w, {"erase"}) THEN Ends(w, "ok") ELSE Goes(w, "sync")

\* What was moved and is not what was inspected goes back, if the name is free; the record
\* store asks for its directory first.
Restore(w) ==
  /\ At(w, "restore") /\ Stays /\ Same
  /\ IF Current = Nothing /\ (Trusted \/ Does(w, {"erase"}))
     THEN Seen(w, [operation[w] EXCEPT !.at = "back", !.late = FALSE]) ELSE Ends(w, "failed")

PutBack(w) ==
  /\ At(w, "back") /\ Displaces(w)
  /\ names' = [names EXCEPT ![File] = names[Aside(w)], ![Aside(w)] = Nothing]
  /\ Ends(w, "failed")
  /\ UNCHANGED <<files, directory, operations, trouble>>

-----------------------------------------------------------------------------
(* Failing calls, deaths, and others.                                      *)

\* A call fails.  What a writer made is cleaned up; what a removal moved is put back if the call
\* was the comparison of the object store; all else ends where it is.
Fails(w) ==
  /\ operation[w].at \notin {"done", "clean"} /\ Troubled
  /\ Stays /\ UNCHANGED <<directory, displaced, operations>>
  /\ LET o == [operation[w] EXCEPT !.broken = TRUE]
     IN CASE o.does \in {"replace", "put", "publish"} /\ o.at \in {"fill", "check", "rename", "link", "unlink"} ->
               Seen(w, [o EXCEPT !.at = "clean"])
          [] o.does = "erase" /\ o.at = "verify" -> Seen(w, [o EXCEPT !.at = "restore"])
          [] OTHER -> Seen(w, [o EXCEPT !.at = "done", !.result = "failed"])

Dies(w) ==
  /\ ~At(w, "done") /\ Troubled
  /\ Stays /\ UNCHANGED <<directory, displaced, operations>>
  /\ Seen(w, [operation[w] EXCEPT !.at = "done", !.result = "died", !.broken = TRUE])

Others == operation' = [v \in Workers |->
  IF operation[v].at # "done" THEN [operation[v] EXCEPT !.disturbed = TRUE, !.late = TRUE] ELSE operation[v]]

\* Another file or an alias under the name, or none, or a second name.
Swap ==
  /\ Troubled /\ Others
  /\ \E regular \in BOOLEAN :
       files' = Append(files, [regular |-> regular, log |-> FALSE, parts |-> {}])
  /\ names' = [names EXCEPT ![File] = Len(files')]
  /\ UNCHANGED <<directory, displaced, operations>>

Take ==
  /\ Troubled /\ Others /\ Current # Nothing
  /\ \E n \in {Nothing, Current} :
       names' = [names EXCEPT ![File] = IF n = Nothing THEN Nothing ELSE @, ![Elsewhere] = n]
  /\ UNCHANGED <<files, directory, displaced, operations>>

Estrange ==
  /\ Troubled /\ Others /\ directory = "ours" /\ directory' = "foreign"
  /\ UNCHANGED <<names, files, displaced, operations>>

Init ==
  /\ directory \in {"missing", "ours"}
  /\ files = <<[regular |-> TRUE, log |-> FALSE, parts |-> {}]>>
  /\ \E f \in IF directory = "ours" THEN {Nothing, 1} ELSE {Nothing} :
       names = [n \in Names |-> IF n = File THEN f ELSE Nothing]
  /\ operation = [w \in Workers |-> Idle] /\ displaced = {}
  /\ operations = 0 /\ trouble = 0

Next ==
  \/ \E w \in Workers :
       \/ Start(w) \/ Enter(w) \/ Make(w) \/ Inspect(w) \/ Open(w) \/ Again(w) \/ Read(w)
       \/ Exclusive(w) \/ Begin(w) \/ Create(w) \/ Fill(w) \/ Check(w) \/ Rename(w) \/ Link(w)
       \/ Unlink(w) \/ Linked(w) \/ Sync(w) \/ Clean(w) \/ MoveAside(w) \/ Verify(w) \/ Dispose(w)
       \/ Restore(w) \/ PutBack(w) \/ Fails(w) \/ Dies(w)
  \/ Swap \/ Take \/ Estrange

Spec == Init /\ [][Next]_vars

-----------------------------------------------------------------------------
\* Only a log can be read half written: a reader of any other file, opened at any moment of
\* any replacement, finds all of it.
ReadsWhole ==
  \A w \in Workers : operation[w].result = "torn" => files[operation[w].held].log

\* What loses its name by a removal is what the removal inspected, and by a replacement too
\* unless it came after the last look (which no call of the system closes); a publication
\* takes the name of nothing.
DisplacesWhatItSaw ==
  \A d \in displaced :
    /\ d.by # "publish"
    /\ d.file = d.seen \/ d.late

\* Left alone, an operation none of whose calls failed does not fail, except that a
\* publication may find the key taken and a stream an alias; and what it wrote is whole.
WorksAlone ==
  \A w \in Workers : LET o == operation[w] IN
    At(w, "done") /\ o.number # 0 /\ ~o.broken /\ ~o.disturbed =>
      /\ o.does \notin {"publish", "stream"} => o.result # "failed"
      /\ o.does \in {"replace", "put", "publish"} /\ o.result = "ok" =>
           o.number \notin files[o.held].parts

\* An operation leaves no name of its own, unless a call failed, it died or the directory was
\* taken from it; what a removal moved stays aside only when the name was taken meanwhile.
LeavesNoTemporary ==
  \A w \in Workers : LET o == operation[w] IN
    At(w, "done") /\ o.number # 0 /\ ~o.broken =>
      /\ Trusted => names[Temporary(w)] = Nothing
      /\ names[Aside(w)] # Nothing => o.disturbed

\* What the managed files promise the stores that are written on them.
FilesAreSound == ReadsWhole /\ DisplacesWhatItSaw /\ WorksAlone /\ LeavesNoTemporary
=============================================================================
