----------------------------- MODULE MCRecordApi -----------------------------
(***************************************************************************)
(* The record of PostgreSQL, once from the requests that change it and     *)
(* once from the statements on its tables (`which`): a student and a       *)
(* teacher with the commands they send, or three transactions.             *)
(***************************************************************************)
EXTENDS RecordApi

CONSTANTS stu, fac, r1, r2, i1, i2,
          Ids, Calls, Transactions, System, PoolMax  \* of the tables

VARIABLES which, rows, counters, eventRows, sequence, txn, committed

tableVars == <<rows, counters, eventRows, sequence, txn, committed>>

MCUsers == {stu, fac}
MCAccountRole == (stu :> "student") @@ (fac :> "faculty")

\* Commands about who may do what, and exports.
AccessCommands ==
  { [type |-> "create"],
    [type |-> "add-member", user |-> fac, role |-> "faculty"],
    [type |-> "patch", fields |-> {"members"}, title |-> Unset,
     members |-> (fac :> "faculty") @@ (stu :> "guest")],
    [type |-> "patch", fields |-> {"title"}, title |-> "t2", members |-> <<>>],
    [type |-> "attach-use-policy-snapshot", id |-> 1, allowed |-> TRUE],
    [type |-> "attach-use-policy-snapshot", id |-> 2, allowed |-> FALSE],
    [type |-> "share", use |-> Unset],
    [type |-> "import-eaf", regions |-> <<[id |-> "g", start |-> 0, end |-> 1]>>,
      comments |-> <<[id |-> 1, region |-> "g", track |-> Unset,
                      author |-> "elan"]>>] }

\* Every operation on one record, a mutation that expects revision 0, and two snapshots: one of
\* that record and its history, and one of another with the history of the first, removed.
Call(op) == [op |-> op, id |-> i1, expected |-> -1, rows |-> <<>>, events |-> <<>>]
Brought(id, kind, rev) == [id |-> id, kind |-> kind, rev |-> rev]
MCCalls ==
  {Call(op) : op \in {"create", "mutate", "delete", "append", "evidence"}} \cup
  {[Call("mutate") EXCEPT !.expected = 0],
   [Call("import") EXCEPT !.id = System, !.rows = i1 :> 1,
                          !.events = <<Brought(i1, "create", 0), Brought(i1, "mutate", 1)>>],
   [Call("import") EXCEPT !.id = System, !.rows = i2 :> 0,
                          !.events = <<Brought(i1, "create", 0), Brought(i2, "create", 0),
                                       Brought(i1, "delete", 0)>>]}

Pg == INSTANCE PgRecords WITH
  Requests <- Transactions, events <- eventRows

ASSUME PgBounds == Pg!PgRecordsAssumption

-----------------------------------------------------------------------------
RecordsInit ==
  /\ which \in {"requests", "tables"}
  /\ Init /\ Pg!Init
  /\ which = "requests" => eventRows = {}

RecordsNext ==
  \/ which = "requests" /\ Next /\ UNCHANGED <<which, tableVars>>
  \/ which = "tables" /\ Pg!Next /\ UNCHANGED <<which, vars>>

RecordsSpec == RecordsInit /\ [][RecordsNext]_<<which, vars, tableVars>>

Symm == Permutations({r1, r2})

(* The properties of the tables, as PgRecords states them.                 *)
RowsAreSound == which = "tables" => Pg!RowsAreSound
CommitsAreLogged == [][which = "tables" => Pg!LoggedStep]_<<rows, committed>>
=============================================================================
