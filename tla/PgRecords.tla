------------------------------- MODULE PgRecords -------------------------------
(***************************************************************************)
(* The PostgreSQL record store, statement by statement.  Every operation   *)
(* that changes state is a transaction of a few statements on three tables *)
(* (records, events, counters) at READ COMMITTED: a statement sees what    *)
(* was committed when it runs, the row locks it takes are held until the   *)
(* end, an event takes its number from a sequence that nobody locks, and   *)
(* what a transaction wrote appears at its commit or never.  The offline   *)
(* import of a snapshot is one more transaction on the same tables.        *)
(***************************************************************************)
EXTENDS Integers, Sequences, FiniteSets, FiniteSetsExt, SequencesExt

CONSTANTS Ids,        \* record identifiers
          Requests,   \* the transactions, numbered 1, 2, ...
          Calls,      \* what may be asked: [op, id, expected, rows, events]
          System,     \* the pseudo record of store-wide events
          NoRecord,   \* an id without a row
          PoolMax     \* connections of the pool

VARIABLES rows,       \* [Ids -> revision and the operation that wrote it, or NoRecord]
          counters,   \* the one row [records, audit] of the tenant
          events,     \* the committed events
          sequence,   \* the identity sequence of the event table
          txn,        \* [Requests -> one transaction]
          committed   \* ghost: events in the order of their transactions' commits

vars == <<rows, counters, events, sequence, txn, committed>>

-----------------------------------------------------------------------------
(* A life: the events of an id that left a state behind, read in the order *)
(* of their numbers, and the row that it ends at.                          *)

Took(E, i) == {e \in E : e.id = i /\ e.took}
Follows(a, b) ==
  \/ a.kind = "delete" /\ b.kind = "create"
  \/ a.kind # "delete" /\ b.kind = "mutate" /\ b.rev = a.rev + 1
  \/ a.kind # "delete" /\ b.kind = "delete" /\ b.rev = a.rev
Begins(life) == \A b \in life : (\A a \in life : b.n <= a.n) => b.kind = "create"
GoesOn(life) ==
  \A a, b \in life :
    a.n < b.n /\ (\A c \in life : c.n <= a.n \/ b.n <= c.n) => Follows(a, b)
EndsAt(life, row) ==
  \E b \in life :
    /\ \A a \in life : a.n <= b.n
    /\ IF b.kind = "delete" THEN row = NoRecord ELSE row # NoRecord /\ row.rev = b.rev
Numbered(E) == \A a, b \in E : a.n = b.n => a = b
IsLife(life, row) ==
  /\ Numbered(life) /\ Begins(life) /\ GoesOn(life)
  /\ IF life = {} THEN row = NoRecord ELSE EndsAt(life, row)

\* A snapshot was exported by a store: it tells the life of each of its records, and of records
\* that were removed.
LeavesState(e) == e.kind # "append"
LifeBrought(c, i) ==
  {[n |-> k, kind |-> c.events[k].kind, rev |-> c.events[k].rev] :
     k \in {j \in DOMAIN c.events : c.events[j].id = i /\ LeavesState(c.events[j])}}
Removed(c) == {i \in Ids \ DOMAIN c.rows : LifeBrought(c, i) # {}}
IsSnapshot(c) ==
  /\ DOMAIN c.rows \subseteq Ids /\ IsFiniteSet(DOMAIN c.rows)
  /\ \A i \in DOMAIN c.rows : c.rows[i] \in Nat /\ IsLife(LifeBrought(c, i), [rev |-> c.rows[i], by |-> 0])
  /\ Len(c.events) \in Nat /\ DOMAIN c.events = 1 .. Len(c.events)
  /\ \A i \in Removed(c) : IsLife(LifeBrought(c, i), NoRecord)
IsCall(c) ==
  /\ c.op \in {"create", "mutate", "delete", "append", "evidence", "import"}
  /\ c.op \in {"create", "mutate", "delete", "evidence"} => c.id \in Ids
  /\ c.op = "import" => IsSnapshot(c)

PgRecordsAssumption ==
  /\ Requests \subseteq Nat \ {0} /\ IsFiniteSet(Requests) /\ PoolMax \in Nat \ {0}
  /\ Cardinality(Requests) + 1 \notin Requests       \* numbered 1, 2, ...
  /\ System \notin Ids /\ Ids \cap {"counters", "imports"} = {}
  /\ NoRecord \notin [rev : Nat, by : Nat]
  /\ \A c \in Calls : IsCall(c)

AnyRevision == -1                              \* a mutation that names no expected revision
Seed == Cardinality(Requests) + 1      \* the operation of what was there at the start
NoCall == [op |-> "none", id |-> System, expected |-> AnyRevision, rows |-> <<>>, events |-> <<>>]
Idle == [call |-> NoCall, state |-> "idle", todo |-> <<>>, locks |-> {}, row |-> NoRecord,
         noted |-> <<>>, counted |-> <<>>, seen |-> {}]
Open == {r \in Requests : txn[r].state = "open"}

-----------------------------------------------------------------------------
(* The statements of an operation, in the order of the code.  A delete     *)
(* counts only when it removed a row.                                      *)

\* Mutant: the event of a mutation is written before its row is locked.
Statements_EventFirst(op) ==
  [create   |-> <<"insert", "count", "event", "note">>,
   mutate   |-> <<"event", "lock", "note">>,
   delete   |-> <<"remove", "count", "event", "note">>,
   append   |-> <<"event", "note">>,
   evidence |-> <<"share", "read">>,
   import   |-> <<"empty", "load", "history", "count">>][op]

Statements(op) ==
  [create   |-> <<"insert", "count", "event", "note">>,
   mutate   |-> <<"lock", "event", "note">>,
   delete   |-> <<"remove", "count", "event", "note">>,
   append   |-> <<"event", "note">>,
   evidence |-> <<"share", "read">>,
   import   |-> <<"empty", "load", "history", "count">>][op]

-----------------------------------------------------------------------------
(* Locks.  A statement that needs a row waits for whoever holds it in a    *)
(* mode it conflicts with, if the row is there to be seen; one that inserts *)
(* a key waits for whoever inserts or removes that key; the counters are   *)
(* one row, and imports queue on an advisory lock of their own.            *)

Lock(on, mode) == [on |-> on, mode |-> mode]
Conflicts(wanted, held) ==
  /\ wanted.on = held.on
  /\ held.mode \in [share  |-> {"update", "delete"}, update |-> {"share", "update", "delete"},
                    delete |-> {"share", "update", "delete"},
                    insert |-> {"insert", "delete"}][wanted.mode]

\* Mutant: evidence reads the record without FOR SHARE.
Needs_Unshared(r) ==
  LET c == txn[r].call
      Seen(mode) == IF rows[c.id] = NoRecord THEN {} ELSE {Lock(c.id, mode)}
  IN CASE Head(txn[r].todo) = "insert" -> {Lock(c.id, "insert")}
       [] Head(txn[r].todo) = "load"   -> {Lock(i, "insert") : i \in DOMAIN c.rows}
       [] Head(txn[r].todo) \in {"lock", "remove"} -> Seen("update")
       [] Head(txn[r].todo) \in {"count", "note"} -> {Lock("counters", "update")}
       [] Head(txn[r].todo) = "empty" -> {Lock("imports", "update")}
       [] OTHER -> {}

\* Mutant: a mutation reads its record without FOR UPDATE.
Needs_Unlocked(r) ==
  LET c == txn[r].call
      Seen(mode) == IF rows[c.id] = NoRecord THEN {} ELSE {Lock(c.id, mode)}
  IN CASE Head(txn[r].todo) = "insert" -> {Lock(c.id, "insert")}
       [] Head(txn[r].todo) = "load"   -> {Lock(i, "insert") : i \in DOMAIN c.rows}
       [] Head(txn[r].todo) = "remove" -> Seen("delete")
       [] Head(txn[r].todo) = "share"  -> Seen("share")
       [] Head(txn[r].todo) \in {"count", "note"} -> {Lock("counters", "update")}
       [] Head(txn[r].todo) = "empty" -> {Lock("imports", "update")}
       [] OTHER -> {}

Needs(r) ==
  LET c == txn[r].call
      Seen(mode) == IF rows[c.id] = NoRecord THEN {} ELSE {Lock(c.id, mode)}
  IN CASE Head(txn[r].todo) = "insert" -> {Lock(c.id, "insert")}
       [] Head(txn[r].todo) = "load"   -> {Lock(i, "insert") : i \in DOMAIN c.rows}
       [] Head(txn[r].todo) = "lock"   -> Seen("update")
       [] Head(txn[r].todo) = "remove" -> Seen("delete")
       [] Head(txn[r].todo) = "share"  -> Seen("share")
       [] Head(txn[r].todo) \in {"count", "note"} -> {Lock("counters", "update")}
       [] Head(txn[r].todo) = "empty"  -> {Lock("imports", "update")}
       [] OTHER -> {}

WaitsFor(r) ==
  {o \in Open \ {r} : \E w \in Needs(r), h \in txn[o].locks : Conflicts(w, h)}

-----------------------------------------------------------------------------
(* One statement.  Run takes its locks; what it reads and prepares is in   *)
(* `change`; a statement that throws ends the transaction.                 *)

Running(r, statement) ==
  /\ txn[r].state = "open" /\ txn[r].todo # <<>> /\ Head(txn[r].todo) = statement
  /\ WaitsFor(r) = {}

\* The transaction after its statement: the rest is to do, the locks are held.
After(r) == [txn[r] EXCEPT !.todo = Tail(@), !.locks = @ \cup Needs(r)]

Run(r, t) == txn' = [txn EXCEPT ![r] = t] /\ UNCHANGED <<rows, counters, events, committed>>
Fails(r) == Run(r, [Idle EXCEPT !.call = txn[r].call, !.state = "failed"])

\* An import is run with the writers stopped (--writers-stopped): here, with those stopped that
\* would use the id of a record which its history removes.
Clash(c, d) == c.op = "import" /\ d.op # "import" /\ d.id \in Removed(c)

Begin(r) ==
  /\ txn[r] = Idle /\ Cardinality(Open) < PoolMax
  /\ \A o \in Requests : o < r => txn[o] # Idle    \* numbered as they begin
  /\ \E c \in Calls :
       /\ \A o \in Open : ~Clash(c, txn[o].call) /\ ~Clash(txn[o].call, c)
       /\ Run(r, [Idle EXCEPT !.call = c, !.state = "open", !.todo = Statements(c.op)])
  /\ UNCHANGED sequence

\* INSERT of a record: its key may be taken.
InsertRow(r) ==
  /\ Running(r, "insert") /\ UNCHANGED sequence
  /\ IF rows[txn[r].call.id] # NoRecord THEN Fails(r)
     ELSE Run(r, [After(r) EXCEPT !.row = [rev |-> 0, by |-> r]])

\* SELECT ... FOR UPDATE of a mutation: the record is there, at the revision expected,
\* and the revision after it is prepared.
LockRow(r) ==
  /\ Running(r, "lock") /\ UNCHANGED sequence
  /\ LET c == txn[r].call
     IN IF rows[c.id] = NoRecord \/ c.expected \notin {AnyRevision, rows[c.id].rev} THEN Fails(r)
        ELSE Run(r, [After(r) EXCEPT !.row = [rev |-> rows[c.id].rev + 1, by |-> r]])

\* Mutant: a delete counts a record off whether or not it removed one.
RemoveRow_CountsAnyway(r) ==
  /\ Running(r, "remove") /\ UNCHANGED sequence
  /\ Run(r, [After(r) EXCEPT !.row = rows[txn[r].call.id]])

\* DELETE: without a row to remove, nothing is counted.
RemoveRow(r) ==
  /\ Running(r, "remove") /\ UNCHANGED sequence
  /\ LET gone == rows[txn[r].call.id] = NoRecord
     IN Run(r, [After(r) EXCEPT !.row = IF gone THEN NoRecord ELSE rows[txn[r].call.id],
                                !.todo = IF gone THEN Tail(@) ELSE @])

\* The emptiness test of an import, under the import lock.
Empty(r) ==
  /\ Running(r, "empty") /\ UNCHANGED sequence
  /\ IF (\A i \in Ids : rows[i] = NoRecord) /\ events = {} /\ counters = [records |-> 0, audit |-> 0]
     THEN Run(r, After(r)) ELSE Fails(r)

Load(r) ==
  /\ Running(r, "load") /\ UNCHANGED sequence
  /\ IF \E i \in DOMAIN txn[r].call.rows : rows[i] # NoRecord THEN Fails(r) ELSE Run(r, After(r))

\* INSERT of an event: a number of the sequence, taken for good even if the transaction fails.
WriteEvent(r) ==
  /\ Running(r, "event") /\ sequence' = sequence + 1
  /\ Run(r, [After(r) EXCEPT !.noted =
       Append(@, [n |-> sequence, id |-> txn[r].call.id, kind |-> txn[r].call.op])])

History(r) ==
  /\ Running(r, "history")
  /\ LET brought == txn[r].call.events
     IN /\ sequence' = sequence + Len(brought)
        /\ Run(r, [After(r) EXCEPT !.noted = [k \in DOMAIN brought |->
             [n |-> sequence + k - 1, id |-> brought[k].id, kind |-> brought[k].kind]]])

\* Both counters are one row: the update starts from what was committed, or from what this
\* transaction wrote there before; the schema refuses a count below zero.
Counting(r, more, noted) ==
  LET c == IF Lock("counters", "update") \in txn[r].locks THEN txn[r].counted ELSE counters
      next == [records |-> c.records + more, audit |-> c.audit + noted]
  IN IF next.records < 0 THEN Fails(r) ELSE Run(r, [After(r) EXCEPT !.counted = next])

Count(r) ==
  /\ Running(r, "count") /\ UNCHANGED sequence
  /\ LET c == txn[r].call
     IN CASE c.op = "create" -> Counting(r, 1, 0)
          [] c.op = "delete" -> Counting(r, -1, 0)
          [] c.op = "import" -> Counting(r, Cardinality(DOMAIN c.rows), Len(c.events))

Note(r) == Running(r, "note") /\ Counting(r, 0, 1) /\ UNCHANGED sequence

\* SELECT ... FOR SHARE, then the events of the record: two statements of one transaction.
Share(r) ==
  /\ Running(r, "share") /\ UNCHANGED sequence
  /\ LET row == rows[txn[r].call.id]
     IN Run(r, [After(r) EXCEPT !.row = row, !.todo = IF row = NoRecord THEN <<>> ELSE @])

Read(r) ==
  /\ Running(r, "read") /\ UNCHANGED sequence
  /\ Run(r, [After(r) EXCEPT !.seen = {e \in events : e.id = txn[r].call.id}])

-----------------------------------------------------------------------------
(* The end of a transaction.                                               *)

\* What it wrote; `took` and `rev` say which state an event left behind.
Written(r) ==
  LET t == txn[r]
  IN [k \in DOMAIN t.noted |->
       [op |-> r, n |-> t.noted[k].n, id |-> t.noted[k].id, kind |-> t.noted[k].kind,
        took |-> IF t.call.op = "import" THEN LeavesState(t.noted[k])
                 ELSE t.call.op # "append" /\ t.row # NoRecord,
        rev  |-> IF t.call.op = "import" THEN t.call.events[k].rev
                 ELSE IF t.row = NoRecord THEN 0 ELSE t.row.rev]]

RowsAfter(r) ==
  LET t == txn[r]
  IN CASE t.call.op \in {"create", "mutate"} -> [rows EXCEPT ![t.call.id] = t.row]
       [] t.call.op = "delete" /\ t.row # NoRecord -> [rows EXCEPT ![t.call.id] = NoRecord]
       [] t.call.op = "import" ->
            [i \in Ids |-> IF i \in DOMAIN t.call.rows THEN [rev |-> t.call.rows[i], by |-> r] ELSE rows[i]]
       [] OTHER -> rows

\* COMMIT.  Its answer may be lost: then the caller hears of a failure and may ask again.
Commit(r) ==
  /\ txn[r].state = "open" /\ txn[r].todo = <<>>
  /\ rows' = RowsAfter(r)
  /\ counters' = IF Lock("counters", "update") \in txn[r].locks THEN txn[r].counted ELSE counters
  /\ events' = events \cup ToSet(Written(r))
  /\ committed' = committed \o Written(r)
  /\ txn' = [txn EXCEPT ![r] =
               [@ EXCEPT !.state = "done", !.locks = {}, !.noted = <<>>, !.counted = <<>>]]
  /\ UNCHANGED sequence

\* An error, a statement timeout, a lost connection or a dead process.
Rollback(r) == txn[r].state = "open" /\ Fails(r) /\ UNCHANGED sequence

Init ==
  /\ txn = [r \in Requests |-> Idle]
  /\ \/ /\ rows = [i \in Ids |-> NoRecord] /\ events = {} /\ committed = <<>>
        /\ counters = [records |-> 0, audit |-> 0] /\ sequence = 1
     \/ \E i \in Ids :
        LET made == [op |-> Seed, n |-> 1, id |-> i, kind |-> "create", took |-> TRUE, rev |-> 0]
        IN /\ rows = [[j \in Ids |-> NoRecord] EXCEPT ![i] = [rev |-> 0, by |-> Seed]]
           /\ events = {made} /\ committed = <<made>>
           /\ counters = [records |-> 1, audit |-> 1] /\ sequence = 2

Next == \E r \in Requests :
  \/ Begin(r) \/ InsertRow(r) \/ LockRow(r) \/ RemoveRow(r) \/ Empty(r) \/ Load(r)
  \/ WriteEvent(r) \/ History(r) \/ Count(r) \/ Note(r) \/ Share(r) \/ Read(r)
  \/ Commit(r) \/ Rollback(r)

Spec == Init /\ [][Next]_vars

-----------------------------------------------------------------------------
(* What the store promises.                                                *)

\* The events of an id, read in the order of their numbers, tell the life it had: created,
\* changed one revision at a time, deleted before it is created again; and the row is where
\* that life ends.  Numbers are taken before the commit, so another order could show.
LivesAreTold == \A i \in Ids : IsLife(Took(events, i), rows[i])

\* The counters that health reports are those of the tables, whatever ran at once or failed.
CountersAgree ==
  counters = [records |-> Cardinality({i \in Ids : rows[i] # NoRecord}),
              audit |-> Cardinality(events)]

\* The evidence of a record and the record belong together: the events end where it stands.
EvidenceBelongs ==
  \A r \in Requests :
    LET t == txn[r]
    IN t.call.op = "evidence" /\ t.state = "done" /\ t.row # NoRecord =>
         EndsAt({e \in t.seen : e.took}, t.row)

\* Nobody waits in a circle: of any transactions under way one can run its statement.
NobodyWaitsInACircle ==
  \A S \in (SUBSET {r \in Open : txn[r].todo # <<>>}) \ {{}} :
    \E r \in S : WaitsFor(r) \cap S = {}

\* A snapshot is imported once, and into an empty store.
ImportedOnce ==
  Cardinality({r \in Requests : txn[r].call.op = "import" /\ \E e \in events : e.op = r}) <= 1

RowsAreSound ==
  LivesAreTold /\ CountersAgree /\ EvidenceBelongs /\ NobodyWaitsInACircle /\ ImportedOnce

\* Apart from an import, a commit is one step of the abstract log, in the order of commits.
Logged(e) == [n |-> e.op, log |-> e.id]
Log == INSTANCE RecordLog WITH
  MaxOps <- Seed, BackupIds <- {}, recs <- rows, saved <- <<>>,
  audit <- [k \in DOMAIN committed |-> Logged(committed[k])],
  logs <- [l \in Ids \cup {System} |->
             LET own == SelectSeq(committed, LAMBDA e : e.id = l)
             IN [k \in DOMAIN own |-> Logged(own[k])]]
Imports == \E r \in Requests : txn[r].call.op = "import" /\ txn[r].state # txn'[r].state
LoggedStep == Imports \/ Log!Next
ImplementsRecordLog == [][LoggedStep]_<<rows, committed>>
=============================================================================
