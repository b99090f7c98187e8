--------------------------- MODULE RecordListing ---------------------------
(***************************************************************************)
(* GET /work-records: an actor walks the records it is a member of, page by *)
(* page, with a signed cursor that names the last record of the page, while *)
(* records are created, renamed, deleted and shared (routes-records-        *)
(* collection.ts, collection-pagination.ts, listSummariesByMember of the    *)
(* three record stores).  Ids are numbers in the order of their bytes.      *)
(*                                                                          *)
(* `listed` and `steady` are history: what the walk was shown, and which    *)
(* records were there for it all the time.                                  *)
(***************************************************************************)
EXTENDS Integers, Sequences, SequencesExt, FiniteSets

CONSTANTS Ids, Actors, Titles, AnyTitle, Limits, MaxChanges

ListingAssumption ==
  Ids \subseteq Nat \ {0} /\ IsFiniteSet(Ids) /\ Limits \subseteq Nat \ {0} /\ AnyTitle \notin Titles

VARIABLES records,   \* per id: [members, title], or Gone
          cursors,   \* the cursors that were signed
          walk,      \* the filter of the walk, where it is and whether it has ended
          listed, steady, changes

vars == <<records, cursors, walk, listed, steady, changes>>

Gone == [members |-> {}, title |-> AnyTitle]
Filters == Actors \X (Titles \cup {AnyTitle})
Meets(record, filter) ==
  /\ filter[1] \in record.members
  /\ filter[2] \in {AnyTitle, record.title}
Met(filter) == {id \in Ids : Meets(records[id], filter)}

Cursor(filter, after) == [actor |-> filter[1], title |-> filter[2], after |-> after]

(* The ids of a set, in their order *)
Sorted(S) == CHOOSE s \in [1 .. Cardinality(S) -> S] : \A i, j \in DOMAIN s : i < j => s[i] < s[j]

(* Mutant: one row is not asked for beyond the limit *)
Rows_Limit(filter, after, limit) ==
  LET later == Sorted({id \in Met(filter) : id > after})
  IN SubSeq(later, 1, IF Len(later) < limit THEN Len(later) ELSE limit)
(* The rows after the cursor, in order: one more than the page shows *)
Rows(filter, after, limit) ==
  LET later == Sorted({id \in Met(filter) : id > after})
  IN SubSeq(later, 1, IF Len(later) <= limit THEN Len(later) ELSE limit + 1)

(* parseCollectionQuery: a cursor serves the actor and the filter it was signed for *)
Accepts(filter, cursor) == cursor = Cursor(filter, cursor.after)

(* One page: the first without a cursor, each later one with any cursor the actor holds *)
ServePage(filter, after, limit) ==
  LET rows == Rows(filter, after, limit)
      page == SubSeq(rows, 1, IF Len(rows) < limit THEN Len(rows) ELSE limit)
      more == Len(rows) > limit
  IN /\ listed' = listed \o page
     /\ cursors' = IF more THEN cursors \cup {Cursor(filter, Last(page))} ELSE cursors
     /\ walk' = [filter |-> filter, after |-> IF more THEN Last(page) ELSE after,
                 pc |-> IF more THEN "walking" ELSE "ended"]

FirstPage(filter, limit) ==
  /\ walk.pc = "idle"
  /\ ServePage(filter, 0, limit)
  /\ steady' = Met(filter)
  /\ UNCHANGED <<records, changes>>

(* Later pages come with a cursor and a filter: parseCollectionQuery refuses any other *)
NextPage(filter, cursor, limit) ==
  /\ walk.pc = "walking" /\ cursor.after = walk.after
  /\ Accepts(filter, cursor)
  /\ ServePage(filter, cursor.after, limit)
  /\ UNCHANGED <<records, steady, changes>>

(* Anyone creates, renames, deletes or shares a record between two pages *)
Change(id, record) ==
  /\ changes < MaxChanges
  /\ walk.pc # "ended"
  /\ records' = [records EXCEPT ![id] = record]
  /\ steady' = IF walk.pc = "walking" /\ ~Meets(record, walk.filter) THEN steady \ {id} ELSE steady
  /\ changes' = changes + 1
  /\ UNCHANGED <<cursors, walk, listed>>

Contents == [members: SUBSET Actors, title: Titles] \cup {Gone}

Init ==
  /\ records \in [Ids -> Contents]
  /\ cursors = {} /\ listed = <<>> /\ steady = {} /\ changes = 0
  /\ walk = [filter |-> <<>>, after |-> 0, pc |-> "idle"]

Next ==
  \/ \E filter \in Filters, limit \in Limits : FirstPage(filter, limit)
  \/ \E filter \in Filters, cursor \in cursors, limit \in Limits :
        NextPage(filter, cursor, limit)
  \/ \E id \in Ids, record \in Contents : Change(id, record)

Spec == Init /\ [][Next]_vars

(* A walk shows no record twice and in no other order than that of the    *)
(* ids, and when it ends it has shown every record that met its filter    *)
(* from the first page on, whatever happened to others between the pages. *)
WalkIsWhole ==
  /\ \A i, j \in DOMAIN listed : i < j => listed[i] < listed[j]
  /\ walk.pc = "ended" => steady \subseteq ToSet(listed)
=============================================================================
