-------------------------------- MODULE PgMedia --------------------------------
(***************************************************************************)
(* Uploads of media to one record in a deployment of several processes:    *)
(* postgres-media-store.ts over PostgreSQL and an object store, with the   *)
(* upload route (serveUpload), the attachment to the record                *)
(* (attachStoredMedia) and the recovery pass every process runs.           *)
(*                                                                         *)
(* A database transaction is one step (the rows it changes are locked).    *)
(* Between two transactions of an upload anything may happen: its lease    *)
(* runs out, its process dies, a recovery pass of another process finds    *)
(* it.  A PUT that was aborted, or whose process died, may still reach the *)
(* object store, until its request timeout is over (`flight`).             *)
(*                                                                         *)
(* Times are kept as the time left; a tick lowers them all.                *)
(***************************************************************************)
EXTENDS Integers, FiniteSets, Functions, TLC

CONSTANTS Uploads,        \* upload ids; an id is also the storage key
          Takes,          \* takes of the record
          Workers,        \* recovery passes running at the same time
          MaxObject,      \* limits.maxObjectBytes
          MaxRecord,      \* limits.maxRecordBytes
          MaxUploads,     \* limits.maxActiveUploadsPerRecord
          MaxTransfers,   \* limits.maxActiveTransfersDeployment
          Lease,          \* limits.leaseMs, in ticks
          Quiet,          \* writerQuietMs, in ticks
          PutTime,        \* request timeout of a PUT, in ticks
          MaxStops,       \* bound on deaths and failures in a behaviour
          MaxRefers,      \* bound on keys that the record names again
          None

ASSUME LimitsPositive ==
  /\ MaxObject \in Nat \ {0} /\ MaxRecord \in Nat \ {0} /\ MaxUploads \in Nat \ {0} /\ MaxTransfers \in Nat \ {0}
  /\ Lease \in Nat \ {0} /\ MaxStops \in Nat /\ MaxRefers \in Nat
\* writerQuietMs is at least 300 s, the PUT's timeout 120 s.
ASSUME QuietOutlastsPut == Quiet \in Nat /\ PutTime \in Nat \ {0} /\ PutTime <= Quiet
ASSUME NoneIsNoUpload == None \notin Uploads /\ None \notin Workers
ASSUME UploadsFinite == IsFiniteSet(Uploads)

Later(x, y) == IF x >= y THEN x ELSE y

\* The rows of the tables.
ActiveStates == {"reserved", "transferring", "object_ready"}
UploadStates == ActiveStates \cup {"attached", "abandoned"}
UploadRows == [state : UploadStates, take : Takes,
               size : 1 .. MaxObject, actual : BOOLEAN, lease : -Quiet .. Lease]
ObjectRows == [state : {"attached", "cleanup_pending"}, size : 1 .. MaxObject]
JobRows == [ready : 0 .. Later(Quiet, 1), owner : Workers \cup {None}, claim : 0 .. Quiet, size : 1 .. MaxObject]

\* Where serveUpload is, and a recovery pass.
Places == {"none", "admitted", "stage", "begin", "start", "put", "end", "attach", "answer", "abandon", "done"}
Steps == {"idle", "claim", "work", "promote", "recheck", "requeue", "delete", "forget"}
PassRows == [pc : Steps, todo : SUBSET Uploads, key : Uploads \cup {None},
             sizes : [Uploads -> 0 .. MaxObject]]

ASSUME NoneIsNoRow == None \notin UploadRows /\ None \notin ObjectRows /\ None \notin JobRows

VARIABLES
  takes,    \* WorkRecord.takes: take -> storage key, or None
  uploads,  \* practice_relay_media_uploads: [state, take, size, actual, lease], or None
  objects,  \* practice_relay_media_objects: [state, size], or None
  jobs,     \* practice_relay_media_cleanup_jobs: [ready, owner, claim, size], or None
  leases,   \* practice_relay_media_transfer_leases: time left, 0 when expired or absent
  stored,   \* keys whose bytes are in the object store
  flight,   \* time left in which the PUT of a key may still arrive
  writer,   \* per upload: where serveUpload is
  worker,   \* per recovery pass: [pc, todo, key, sizes]; sizes as the claimed jobs said
  stops,    \* deaths and failures so far
  revived   \* keys that the record was made to name again

tables == <<takes, uploads, objects, jobs, leases>>
vars == <<takes, uploads, objects, jobs, leases, stored, flight, writer, worker, stops, revived>>

Resting == [pc |-> "idle", todo |-> {}, key |-> None, sizes |-> [u \in Uploads |-> 0]]

Init ==
  /\ takes = [t \in Takes |-> None]
  /\ uploads = [u \in Uploads |-> None] /\ objects = [u \in Uploads |-> None]
  /\ jobs = [u \in Uploads |-> None] /\ leases = [u \in Uploads |-> 0]
  /\ stored = {} /\ flight = [u \in Uploads |-> 0]
  /\ writer = [u \in Uploads |-> "none"]
  /\ worker = [w \in Workers |-> Resting]
  /\ stops = 0 /\ revived = {}

-----------------------------------------------------------------------------
(* The tables                                                               *)

Active == {u \in Uploads : uploads[u] # None /\ uploads[u].state \in ActiveStates}

\* The charge of the record: its objects, pending ones included, and its uploads
\* but the attached ones.
Charge(u) == (IF objects[u] = None THEN 0 ELSE objects[u].size)
           + (IF uploads[u] = None \/ uploads[u].state = "attached" THEN 0 ELSE uploads[u].size)
Charged(keys) == SumFunctionOnSet([u \in Uploads |-> Charge(u)], keys)
Holders == {u \in Uploads : leases[u] > 0}

Referenced(u) == \E t \in Takes : takes[t] = u

\* lockedUpload: the row of a live lease, in the state the caller expects.
Owned(u, states) == uploads[u] # None /\ uploads[u].lease > 0 /\ uploads[u].state \in states

\* A cleanup job, unless the key has one (ON CONFLICT DO NOTHING).
Queued(u, ready, size) ==
  IF jobs[u] = None THEN [ready |-> ready, owner |-> None, claim |-> 0, size |-> size] ELSE jobs[u]

-----------------------------------------------------------------------------
(* One upload                                                               *)

Goto(u, place) == writer' = [writer EXCEPT ![u] = place]
Fail(u) == Goto(u, "abandon") /\ UNCHANGED tables

\* reserveUpload, when nothing refuses it.
Reserve(u, t, declared) ==
  /\ writer[u] = "none"
  /\ Cardinality(Active) < MaxUploads
  /\ Charged(Uploads) + declared <= MaxRecord
  /\ Cardinality(Holders) < MaxTransfers
  /\ uploads' = [uploads EXCEPT ![u] =
       [state |-> "reserved", take |-> t, size |-> declared, actual |-> FALSE, lease |-> Lease]]
  /\ leases' = [leases EXCEPT ![u] = Lease]
  /\ Goto(u, "admitted")
  /\ UNCHANGED <<takes, objects, jobs, stored, flight, worker, stops, revived>>

\* renewUpload extends the lease and the transfer lease, or neither.
Renewed(u) ==
  /\ uploads' = [uploads EXCEPT ![u].lease = Lease]
  /\ leases' = [leases EXCEPT ![u] = Lease]
  /\ UNCHANGED <<takes, objects, jobs>>
\* Mutant: the transfer lease is renewed even when it ran out.
CanRenew_UploadOnly(u) == Owned(u, ActiveStates)
CanRenew(u) == Owned(u, ActiveStates) /\ leases[u] > 0

\* The timer of runWithUploadRenewal; a renewal that fails aborts the operation.
Renew(u) ==
  /\ writer[u] \in {"stage", "put"}
  /\ IF CanRenew(u) THEN Renewed(u) /\ UNCHANGED writer ELSE Fail(u)
  /\ UNCHANGED <<stored, flight, worker, stops, revived>>

\* runWithUploadRenewal renews, then stageReadable reads the body.
StartStage(u) ==
  /\ writer[u] = "admitted"
  /\ IF CanRenew(u) THEN Renewed(u) /\ Goto(u, "stage") ELSE Fail(u)
  /\ UNCHANGED <<stored, flight, worker, stops, revived>>

\* stageUpload ends: the body is complete, or the client or the disk failed.
StageEnds(u, ok) ==
  /\ writer[u] = "stage"
  /\ IF ok THEN Goto(u, "begin") /\ UNCHANGED tables ELSE Fail(u)
  /\ UNCHANGED <<stored, flight, worker, stops, revived>>

\* Mutant: the quota is not asked again.
StoreBegin_OldCharge(u, size) ==
  /\ writer[u] = "begin"
  /\ IF Owned(u, {"reserved"})
     THEN /\ uploads' = [uploads EXCEPT ![u].state = "transferring", ![u].size = size,
                                        ![u].actual = TRUE, ![u].lease = Lease]
          /\ Goto(u, "start") /\ UNCHANGED <<takes, objects, jobs, leases>>
     ELSE Fail(u)
  /\ UNCHANGED <<stored, flight, worker, stops, revived>>

\* storeUpload's first transaction: the quota again, now with the actual size.
StoreBegin(u, size) ==
  /\ writer[u] = "begin"
  /\ IF /\ Owned(u, {"reserved"})
        /\ Charged(Uploads \ {u}) + size <= MaxRecord
     THEN /\ uploads' = [uploads EXCEPT ![u].state = "transferring", ![u].size = size,
                                        ![u].actual = TRUE, ![u].lease = Lease]
          /\ Goto(u, "start") /\ UNCHANGED <<takes, objects, jobs, leases>>
     ELSE Fail(u)
  /\ UNCHANGED <<stored, flight, worker, stops, revived>>

\* Mutant: the upload goes on before the PUT is over.
StartPut_NotAwaited(u) ==
  /\ writer[u] = "start"
  /\ IF CanRenew(u)
     THEN Renewed(u) /\ flight' = [flight EXCEPT ![u] = PutTime] /\ Goto(u, "end")
     ELSE Fail(u) /\ UNCHANGED flight
  /\ UNCHANGED <<stored, worker, stops, revived>>

\* runWithUploadRenewal renews, then putFile sends the request.
StartPut(u) ==
  /\ writer[u] = "start"
  /\ IF CanRenew(u)
     THEN Renewed(u) /\ flight' = [flight EXCEPT ![u] = PutTime] /\ Goto(u, "put")
     ELSE Fail(u) /\ UNCHANGED flight
  /\ UNCHANGED <<stored, worker, stops, revived>>

\* The bytes arrive.  The writer, if it is still there, learns of it or not.
PutLands(u) ==
  /\ flight[u] > 0
  /\ stored' = stored \cup {u}
  /\ flight' = [flight EXCEPT ![u] = 0]
  /\ IF writer[u] = "put" THEN Goto(u, "end") \/ Goto(u, "abandon") ELSE UNCHANGED writer
  /\ UNCHANGED <<tables, worker, stops, revived>>

\* storeUpload's second transaction.
StoreEnd(u) ==
  /\ writer[u] = "end"
  /\ IF Owned(u, {"transferring"})
     THEN uploads' = [uploads EXCEPT ![u].state = "object_ready"] /\ Goto(u, "attach")
          /\ UNCHANGED <<takes, objects, jobs, leases>>
     ELSE Fail(u)
  /\ UNCHANGED <<stored, flight, worker, stops, revived>>

\* attachStoredMedia: the record and attachUpload in one transaction.
\* Mutant: the key the take names is not passed on.
Replaced_None(u) == {}
Replaced(u) == {k \in Uploads : takes[uploads[u].take] = k /\ objects[k] # None}
Attached(u) ==
  /\ takes' = [takes EXCEPT ![uploads[u].take] = u]
  /\ objects' = [k \in Uploads |->
       IF k = u THEN [state |-> "attached", size |-> uploads[u].size]
       ELSE IF k \in Replaced(u) THEN [objects[k] EXCEPT !.state = "cleanup_pending"]
       ELSE objects[k]]
  /\ jobs' = [k \in Uploads |-> IF k \in Replaced(u) THEN Queued(k, 0, objects[k].size) ELSE jobs[k]]
  /\ uploads' = [uploads EXCEPT ![u].state = "attached"]
  /\ leases' = [leases EXCEPT ![u] = 0]
Attach(u) ==
  /\ writer[u] = "attach"
  /\ IF Owned(u, {"object_ready"}) THEN Attached(u) /\ Goto(u, "answer") ELSE Fail(u)
  /\ UNCHANGED <<stored, flight, worker, stops, revived>>

\* The COMMIT is acknowledged and the client answered.
Answer(u) ==
  /\ writer[u] = "answer"
  /\ Goto(u, "done")
  /\ UNCHANGED <<tables, stored, flight, worker, stops, revived>>

\* The PUT's request timeout ends.
PutTimesOut(u) ==
  /\ writer[u] = "put" /\ flight[u] = 0 /\ Fail(u)
  /\ UNCHANGED <<stored, flight, worker, stops, revived>>

\* Any step may throw: a refused mutation, a lost lease, a timeout, an unknown
\* outcome of a COMMIT.
GiveUp(u) ==
  /\ writer[u] \in {"admitted", "begin", "start", "put", "end", "attach", "answer"}
  /\ Fail(u)
  /\ UNCHANGED <<stored, flight, worker, stops, revived>>

\* Mutant: the cleanup job is ready at once.
Abandon_NoQuiet(u) ==
  /\ writer[u] = "abandon"
  /\ IF uploads[u] # None /\ uploads[u].state # "attached"
     THEN /\ uploads' = [uploads EXCEPT ![u] = IF @.actual THEN [@ EXCEPT !.state = "abandoned"] ELSE None]
          /\ jobs' = [jobs EXCEPT ![u] = IF uploads[u].actual THEN Queued(u, 0, uploads[u].size) ELSE @]
     ELSE UNCHANGED <<uploads, jobs>>
  /\ leases' = [leases EXCEPT ![u] = 0]
  /\ Goto(u, "done")
  /\ UNCHANGED <<takes, objects, stored, flight, worker, stops, revived>>

\* abandonUpload: an upload whose bytes may be on their way is cleaned up after the
\* quiet time, one that never got that far is dropped.  (The route's catch calls it
\* again after storeUpload's own; that call only makes ready_at later.)
Abandon(u) ==
  /\ writer[u] = "abandon"
  /\ IF uploads[u] # None /\ uploads[u].state # "attached"
     THEN /\ uploads' = [uploads EXCEPT ![u] = IF @.actual THEN [@ EXCEPT !.state = "abandoned"] ELSE None]
          /\ jobs' = [jobs EXCEPT ![u] =
               IF ~uploads[u].actual THEN @
               ELSE [Queued(u, Quiet, uploads[u].size) EXCEPT !.ready = Quiet]]
     ELSE UNCHANGED <<uploads, jobs>>
  /\ leases' = [leases EXCEPT ![u] = 0]
  /\ Goto(u, "done")
  /\ UNCHANGED <<takes, objects, stored, flight, worker, stops, revived>>

\* The process dies, or cannot reach the database to abandon.
Die(u) ==
  /\ writer[u] \notin {"none", "done"} /\ stops < MaxStops
  /\ Goto(u, "done") /\ stops' = stops + 1
  /\ UNCHANGED <<tables, stored, flight, worker, revived>>

-----------------------------------------------------------------------------
(* A recovery pass                                                          *)

Working(w, pc, key) == worker' = [worker EXCEPT ![w].pc = pc, ![w].key = key]
NextJob(w) ==
  LET rest == worker[w].todo \ {worker[w].key}
  IN  worker' = [worker EXCEPT ![w] = IF rest = {} THEN Resting ELSE [@ EXCEPT !.pc = "work", !.todo = rest, !.key = None]]

\* Active uploads whose lease ran out are abandoned; the quiet time of their writer
\* counts from the end of the lease.
Expire(w) ==
  /\ worker[w].pc = "idle"
  /\ LET expired == {u \in Active : uploads[u].lease <= 0}
     IN  /\ uploads' = [u \in Uploads |->
              IF u \notin expired THEN uploads[u]
              ELSE IF uploads[u].actual THEN [uploads[u] EXCEPT !.state = "abandoned"] ELSE None]
         /\ jobs' = [u \in Uploads |->
              IF u \in expired /\ uploads[u].actual
                THEN Queued(u, Later(0, Quiet + uploads[u].lease), uploads[u].size)
              ELSE jobs[u]]
  /\ Working(w, "claim", None)
  /\ UNCHANGED <<takes, objects, leases, stored, flight, writer, stops, revived>>

\* The jobs that are ready, and that no other pass has claimed or whose claim is over.
\* Mutant: a claim never ends.
Claimable_ForGood == {u \in Uploads : jobs[u] # None /\ jobs[u].ready <= 0 /\ jobs[u].owner = None}
Claimable == {u \in Uploads : jobs[u] # None /\ jobs[u].ready <= 0 /\ (jobs[u].owner = None \/ jobs[u].claim <= 0)}
Claim(w) ==
  /\ worker[w].pc = "claim"
  /\ jobs' = [u \in Uploads |-> IF u \in Claimable THEN [jobs[u] EXCEPT !.owner = w, !.claim = Quiet] ELSE jobs[u]]
  /\ worker' = [worker EXCEPT ![w] = 
       IF Claimable = {} THEN Resting
       ELSE [pc |-> "work", todo |-> Claimable, key |-> None,
             sizes |-> [u \in Uploads |-> IF u \in Claimable THEN jobs[u].size ELSE 0]]]
  /\ UNCHANGED <<takes, uploads, objects, leases, stored, flight, writer, stops, revived>>

\* Mutant: the record is not asked.
Check_Skipped(w, u) ==
  /\ worker[w].pc = "work" /\ u \in worker[w].todo
  /\ Working(w, "delete", u)
  /\ UNCHANGED <<tables, stored, flight, writer, stops, revived>>

\* isReferenced reads the record, outside any transaction.
Check(w, u) ==
  /\ worker[w].pc = "work" /\ u \in worker[w].todo
  /\ Working(w, IF Referenced(u) THEN "promote" ELSE "delete", u)
  /\ UNCHANGED <<tables, stored, flight, writer, stops, revived>>

\* The object, or the abandoned upload, becomes an attached object again.
Mine(w, u) == jobs[u] # None /\ jobs[u].owner = w
Promote(w) ==
  /\ worker[w].pc = "promote"
  /\ LET u == worker[w].key
         abandoned == uploads[u] # None /\ uploads[u].state = "abandoned"
     IN  /\ objects' = [objects EXCEPT ![u] =
              [state |-> "attached",
               size |-> IF objects[u] # None THEN objects[u].size
                        ELSE IF abandoned THEN uploads[u].size ELSE worker[w].sizes[u]]]
         /\ uploads' = [uploads EXCEPT ![u] = IF abandoned THEN None ELSE @]
         /\ jobs' = [jobs EXCEPT ![u] = IF Mine(w, u) THEN None ELSE @]
         /\ Working(w, "recheck", u)
  /\ UNCHANGED <<takes, leases, stored, flight, writer, stops, revived>>

\* The reference may have gone since, or cannot be read: then the promotion is
\* taken back.
Recheck(w) ==
  /\ worker[w].pc = "recheck"
  /\ \/ Referenced(worker[w].key) /\ NextJob(w) /\ UNCHANGED stops
     \/ ~Referenced(worker[w].key) /\ Working(w, "requeue", worker[w].key) /\ UNCHANGED stops
     \/ stops < MaxStops /\ Working(w, "requeue", worker[w].key) /\ stops' = stops + 1
  /\ UNCHANGED <<tables, stored, flight, writer, revived>>

Requeue(w) ==
  /\ worker[w].pc = "requeue"
  /\ LET u == worker[w].key
     IN  IF objects[u] # None /\ objects[u].state = "attached"
         THEN /\ objects' = [objects EXCEPT ![u].state = "cleanup_pending"]
              /\ jobs' = [jobs EXCEPT ![u] = Queued(u, 0, objects[u].size)]
         ELSE UNCHANGED <<objects, jobs>>
  /\ NextJob(w)
  /\ UNCHANGED <<takes, uploads, leases, stored, flight, writer, stops, revived>>

DeleteObject(w) ==
  /\ worker[w].pc = "delete"
  /\ stored' = stored \ {worker[w].key}
  /\ Working(w, "forget", worker[w].key)
  /\ UNCHANGED <<tables, flight, writer, stops, revived>>

Forget(w) ==
  /\ worker[w].pc = "forget"
  /\ LET u == worker[w].key
     IN  /\ objects' = [objects EXCEPT ![u] = None]
         /\ uploads' = [uploads EXCEPT ![u] = IF @ # None /\ @.state = "abandoned" THEN None ELSE @]
         /\ jobs' = [jobs EXCEPT ![u] = IF Mine(w, u) THEN None ELSE @]
  /\ NextJob(w)
  /\ UNCHANGED <<takes, leases, stored, flight, writer, stops, revived>>

\* Mutant: the minute counts from the end of the claim.
WorkFails_AfterClaim(w) ==
  /\ worker[w].pc \in {"work", "delete", "forget", "promote", "requeue"} /\ stops < MaxStops
  /\ \E u \in IF worker[w].pc = "work" THEN worker[w].todo ELSE {worker[w].key} :
       /\ jobs' = [jobs EXCEPT ![u] = IF Mine(w, u) THEN [@ EXCEPT !.ready = jobs[u].claim + 1, !.owner = None, !.claim = 0] ELSE @]
       /\ LET rest == worker[w].todo \ {u}
          IN  worker' = [worker EXCEPT ![w] = IF rest = {} THEN Resting ELSE [@ EXCEPT !.pc = "work", !.todo = rest, !.key = None]]
  /\ stops' = stops + 1
  /\ UNCHANGED <<takes, uploads, objects, leases, stored, flight, writer, revived>>

\* A step of the work throws: the job is tried again a minute later.
WorkFails(w) ==
  /\ worker[w].pc \in {"work", "delete", "forget", "promote", "requeue"} /\ stops < MaxStops
  /\ \E u \in IF worker[w].pc = "work" THEN worker[w].todo ELSE {worker[w].key} :
       /\ jobs' = [jobs EXCEPT ![u] = IF Mine(w, u) THEN [@ EXCEPT !.ready = 1, !.owner = None, !.claim = 0] ELSE @]
       /\ LET rest == worker[w].todo \ {u}
          IN  worker' = [worker EXCEPT ![w] = IF rest = {} THEN Resting ELSE [@ EXCEPT !.pc = "work", !.todo = rest, !.key = None]]
  /\ stops' = stops + 1
  /\ UNCHANGED <<takes, uploads, objects, leases, stored, flight, writer, revived>>

\* The pass ends with its process; its claims stay.
WorkerDies(w) ==
  /\ worker[w].pc # "idle" /\ stops < MaxStops
  /\ worker' = [worker EXCEPT ![w] = Resting] /\ stops' = stops + 1
  /\ UNCHANGED <<tables, stored, flight, writer, revived>>

-----------------------------------------------------------------------------
(* The record and the clock                                                 *)

\* The record is made to name a replaced key again (its row is put back from a
\* dump) while its bytes are there and no pass is about to delete them: what
\* isReferenced is asked for.
Refer(t, u) ==
  /\ Cardinality(revived) < MaxRefers
  /\ objects[u] # None /\ objects[u].state = "cleanup_pending" /\ ~Referenced(u) /\ u \in stored
  /\ \A w \in Workers : worker[w].key = u => worker[w].pc \notin {"delete", "forget"}
  /\ takes' = [takes EXCEPT ![t] = u] /\ revived' = revived \cup {u}
  /\ UNCHANGED <<uploads, objects, jobs, leases, stored, flight, writer, worker, stops>>

Lower(x, least) == IF x > least THEN x - 1 ELSE least
Tick ==
  /\ uploads' = [u \in Uploads |-> IF u \in Active THEN [uploads[u] EXCEPT !.lease = Lower(@, -Quiet)] ELSE uploads[u]]
  /\ jobs' = [u \in Uploads |->
       IF jobs[u] = None THEN None ELSE [jobs[u] EXCEPT !.ready = Lower(@, 0), !.claim = Lower(@, 0)]]
  /\ leases' = [u \in Uploads |-> Lower(leases[u], 0)]
  /\ flight' = [u \in Uploads |-> Lower(flight[u], 0)]
  /\ UNCHANGED <<takes, objects, stored, writer, worker, stops, revived>>

UploadStep(u) ==
  \/ StartStage(u) \/ \E ok \in BOOLEAN : StageEnds(u, ok)
  \/ \E size \in 1 .. MaxObject : StoreBegin(u, size)
  \/ StartPut(u) \/ PutTimesOut(u) \/ StoreEnd(u) \/ Attach(u) \/ Answer(u) \/ Abandon(u)
WorkStep(w) ==
  \/ Expire(w) \/ Claim(w) \/ \E u \in Uploads : Check(w, u)
  \/ Promote(w) \/ Recheck(w) \/ Requeue(w) \/ DeleteObject(w) \/ Forget(w)
Next ==
  \/ \E u \in Uploads :
       \/ \E t \in Takes, declared \in 1 .. MaxObject : Reserve(u, t, declared)
       \/ UploadStep(u) \/ Renew(u) \/ PutLands(u) \/ GiveUp(u) \/ Die(u)
       \/ \E t \in Takes : Refer(t, u)
  \/ \E w \in Workers : WorkStep(w) \/ WorkFails(w) \/ WorkerDies(w)
  \/ Tick

Spec == Init /\ [][Next]_vars

-----------------------------------------------------------------------------
(* Properties                                                               *)

\* Types of the tables and of the processes' local state.
TypeOK ==
  /\ takes \in [Takes -> Uploads \cup {None}]
  /\ uploads \in [Uploads -> UploadRows \cup {None}]
  /\ objects \in [Uploads -> ObjectRows \cup {None}]
  /\ jobs \in [Uploads -> JobRows \cup {None}]
  /\ leases \in [Uploads -> 0 .. Lease]
  /\ stored \subseteq Uploads /\ flight \in [Uploads -> 0 .. PutTime]
  /\ writer \in [Uploads -> Places] /\ worker \in [Workers -> PassRows]
  /\ stops \in 0 .. MaxStops /\ revived \subseteq Uploads

\* A take can be downloaded: the bytes it names are there, and its object is
\* attached, whatever leases expired, processes died and passes ran.  (A key that
\* was named again is attached once a pass has seen it.)
TakesAreServed ==
  \A t \in Takes : takes[t] # None =>
    /\ takes[t] \in stored
    /\ takes[t] \in revived \/ (objects[takes[t]] # None /\ objects[takes[t]].state = "attached")

\* And only those objects are attached: no replaced object keeps its place and charge.
AttachedIsReferenced ==
  revived = {} => \A u \in Uploads : objects[u] # None /\ objects[u].state = "attached" => Referenced(u)

\* What the record is charged for never exceeds its quota, through concurrent
\* reservations, actual sizes other than the declared ones, and clean-up.  (Left out
\* is a key that was named again and whose bytes a pass deleted all the same: the
\* pass that saw it named puts its row back, whatever was reserved since.)
QuotaHolds == Charged(stored \cup (Uploads \ revived)) <= MaxRecord

\* Bytes in the object store belong to a row of the tables, which charges them and
\* through which they can be found: no PUT arrives after its rows are gone.
BytesAreAccounted ==
  \A u \in stored : objects[u] # None \/ (uploads[u] # None /\ uploads[u].actual)

\* Never more uploads in transfer, in all processes, than the deployment allows.
TransfersBounded == Cardinality(Holders) <= MaxTransfers

\* Every upload ends with its key in the record, or with nothing left of it: no
\* charge, no job and no bytes, even when its process died in any of its steps.
Clean(u) ==
  /\ objects[u] = None /\ jobs[u] = None /\ u \notin stored
  /\ uploads[u] = None \/ uploads[u].state = "attached"
EndsServedOrClean == \A u \in Uploads : writer[u] # "none" ~> (Referenced(u) \/ Clean(u))

\* The limits on what the records and the deployment hold, over bytes that all belong
\* to somebody, in rows of their types.
LimitsHold == TypeOK /\ QuotaHolds /\ BytesAreAccounted /\ TransfersBounded

\* For TLC: uploads, workers and takes are interchangeable.
MediaSymmetry == Permutations(Uploads) \cup Permutations(Workers) \cup Permutations(Takes)
=============================================================================
