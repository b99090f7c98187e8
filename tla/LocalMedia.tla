------------------------------ MODULE LocalMedia ------------------------------
(***************************************************************************)
(* Uploads of media to one record in a deployment of one process:          *)
(* filesystem-media-store.ts with its state file, over a directory         *)
(* (`backend` "fs") or a bucket ("s3"), with the upload route and the      *)
(* two-step attachment to a record of the JSON store.                      *)
(*                                                                         *)
(* One event loop runs everything.  Code between two awaits of real I/O    *)
(* cannot be interrupted by other code, only by the clock and by a crash:  *)
(* `Busy` is the piece that holds the loop.  Deleting a file is            *)
(* synchronous, deleting an object of a bucket is not, so that the two     *)
(* backends interleave differently.                                        *)
(*                                                                         *)
(* persist() writes the whole state file after each change and is part of  *)
(* the action that makes it; a crash inside it leaves the old file and a   *)
(* temporary one.                                                          *)
(***************************************************************************)
EXTENDS Integers, FiniteSets, Functions, TLC

CONSTANTS Uploads,        \* upload ids; an id is also the storage key
          Takes,          \* takes of the record
          MaxObject,      \* limits.maxObjectBytes
          MaxRecord,      \* limits.maxRecordBytes
          MaxUploads,     \* limits.maxActiveUploadsPerRecord, at most maxActiveTransfers
          Lease,          \* limits.leaseMs, in ticks
          PutTime,        \* request timeout of a PUT, in ticks
          MaxStops,       \* bound on crashes and failing calls in a behaviour
          None

ASSUME LimitsPositive ==
  /\ MaxObject \in Nat \ {0} /\ MaxRecord \in Nat \ {0} /\ MaxUploads \in Nat \ {0}
  /\ Lease \in Nat \ {0} /\ PutTime \in Nat \ {0} /\ MaxStops \in Nat
ASSUME NoneIsNoUpload == None \notin Uploads
ASSUME UploadsFinite == IsFiniteSet(Uploads)

\* The rows of the state file.
Rows == [state : {"reserved", "object_ready", "abandoned"}, take : Takes, size : 1 .. MaxObject,
         actual : BOOLEAN, lease : 0 .. Lease]
Metas == [size : 1 .. MaxObject, pending : BOOLEAN]

\* Where serveUpload is, and the recovery pass.
Places == {"none", "stage", "put", "landed", "ended", "commit", "attach", "abandon", "erase", "forget",
           "eraseOld", "forgetOld", "done"}
Writers == [pc : Places, old : Uploads \cup {None}]
Passes == [pc : {"off", "next", "recheck", "erase", "forget"}, loop : {"uploads", "objects"},
           seen : SUBSET Uploads, key : Uploads \cup {None}, todo : SUBSET Uploads]

ASSUME NoneIsNoRow == None \notin Rows /\ None \notin Metas

VARIABLES
  backend,  \* objectStore.backend
  takes,    \* WorkRecord.takes: take -> storage key, or None
  rows,     \* uploads of the state file: [state, take, size, actual, lease], or None
  metas,    \* metas of the state file: [size, pending], or None
  stored,   \* keys whose bytes are in the object store
  flight,   \* time left in which a PUT to the bucket may still arrive
  debris,   \* is there a temporary file that a crash left in the media root?
  process,  \* "down", "starting" (before traffic is accepted) or "open"
  writer,   \* per upload: [pc, old]: where serveUpload is, and the key it replaced
  pass,     \* recover: [pc, loop, seen, key, todo]
  stops,    \* crashes and failing calls so far
  overlooked, \* history: replaced keys whose attachUpload did not happen
  thrown,   \* history: keys that a record update put into the record and then threw
  strays    \* history: keys whose PUT arrived when its row was gone or going

vars == <<backend, takes, rows, metas, stored, flight, debris, process, writer, pass,
          stops, overlooked, thrown, strays>>
history == <<overlooked, thrown, strays>>

Gone == [pc |-> "none", old |-> None]
Off == [pc |-> "off", loop |-> "uploads", seen |-> {}, key |-> None, todo |-> {}]

Init ==
  /\ backend \in {"fs", "s3"}
  /\ takes = [t \in Takes |-> None]
  /\ rows = [u \in Uploads |-> None] /\ metas = [u \in Uploads |-> None]
  /\ stored = {} /\ flight = [u \in Uploads |-> 0] /\ debris = FALSE
  /\ process = "open" /\ writer = [u \in Uploads |-> Gone] /\ pass = Off
  /\ stops = 0 /\ overlooked = {} /\ thrown = {} /\ strays = {}

-----------------------------------------------------------------------------
(* The state file                                                           *)

Referenced(u) == \E t \in Takes : takes[t] = u
Active == {u \in Uploads : rows[u] # None /\ rows[u].state \in {"reserved", "object_ready"}}

\* bytesForRecord: every object, and every upload but an abandoned one that never
\* got its actual size.
MetaCharge(u) == IF metas[u] = None THEN 0 ELSE metas[u].size
RowCharge(row) == IF row = None THEN 0
                  ELSE IF row.state = "abandoned" /\ ~row.actual THEN 0 ELSE row.size
Charged(uploads) == SumFunctionOnSet([u \in Uploads |-> MetaCharge(u) + RowCharge(uploads[u])], Uploads)

Abandoned(row) == [row EXCEPT !.state = "abandoned"]

\* assertOwned: a row that is there, not abandoned, and whose lease runs.  One whose
\* lease ran out is abandoned on the spot.
Owned_RowThere(u) == rows[u] # None     \* mutant: a row is enough
Owned(u) == u \in Active /\ rows[u].lease > 0
Disowned(u) == rows' = [rows EXCEPT ![u] = IF u \in Active THEN Abandoned(@) ELSE @]

\* The piece of code that holds the event loop.
Synchronous == {"ended", "commit", "attach", "forget", "forgetOld"}
                 \cup (IF backend = "fs" THEN {"erase", "eraseOld"} ELSE {})
Busy == \/ \E u \in Uploads : writer[u].pc \in Synchronous
        \/ pass.pc \notin IF backend = "fs" THEN {"off"} ELSE {"off", "erase"}
Goto(u, place) == writer' = [writer EXCEPT ![u].pc = place]

-----------------------------------------------------------------------------
(* One upload                                                               *)

\* reserveUpload sweeps uploads whose lease ran out, also when it then refuses;
\* stageUpload follows at once.  Transfer slots are those of the active rows: a row
\* gives its slot back wherever it stops being active.
Swept == [u \in Uploads |-> IF u \in Active /\ rows[u].lease = 0 THEN Abandoned(rows[u]) ELSE rows[u]]
Reserve(u, t, declared) ==
  /\ process = "open" /\ ~Busy /\ writer[u].pc = "none"
  /\ IF /\ Cardinality({v \in Active : rows[v].lease > 0}) < MaxUploads
        /\ Charged(Swept) + declared <= MaxRecord
     THEN /\ rows' = [Swept EXCEPT ![u] =
               [state |-> "reserved", take |-> t, size |-> declared, actual |-> FALSE, lease |-> Lease]]
          /\ Goto(u, "stage")
     ELSE rows' = Swept /\ UNCHANGED writer
  /\ UNCHANGED <<backend, takes, metas, stored, flight, debris, process, pass, stops, history>>

\* The renewal timer of stageUpload and storeUpload; when the lease is lost the
\* transfer is aborted and the route abandons the upload.
Renew(u) ==
  /\ ~Busy /\ writer[u].pc \in {"stage", "put", "landed"}
  /\ IF Owned(u) THEN rows' = [rows EXCEPT ![u].lease = Lease] /\ UNCHANGED writer
                 ELSE Disowned(u) /\ Goto(u, "abandon")
  /\ UNCHANGED <<backend, takes, metas, stored, flight, debris, process, pass, stops, history>>

\* storeUpload's quota: the actual size in place of the declared one.
Fits_Unasked(u, size) == TRUE           \* mutant: the quota is not asked again
Fits(u, size) == Charged(rows) - rows[u].size + size <= MaxRecord

\* The body is complete; storeUpload asks for the quota with its actual size and
\* starts the PUT.
StageEnds(u, size) ==
  /\ ~Busy /\ writer[u].pc = "stage"
  /\ IF Owned(u) /\ Fits(u, size)
     THEN /\ rows' = [rows EXCEPT ![u].size = size, ![u].actual = TRUE]
          /\ flight' = [flight EXCEPT ![u] = IF backend = "s3" THEN PutTime ELSE 0]
          /\ Goto(u, "put")
     ELSE (IF Owned(u) THEN UNCHANGED rows ELSE Disowned(u)) /\ Goto(u, "abandon") /\ UNCHANGED flight
  /\ UNCHANGED <<backend, takes, metas, stored, debris, process, pass, stops, history>>

\* The client goes away, or staging or the PUT fails.  The request to a bucket may
\* still arrive.
TransferFails(u) ==
  /\ ~Busy /\ writer[u].pc \in {"stage", "put", "landed"} /\ Goto(u, "abandon")
  /\ UNCHANGED <<backend, takes, rows, metas, stored, flight, debris, process, pass, stops, history>>

\* Bytes that arrive when their row is gone, or is being removed after a deletion.
Known(u) == rows[u] # None \/ metas[u] # None
Leaving(u) == writer[u].pc = "forget" \/ (pass.pc = "forget" /\ pass.key = u)
Arrived(u) ==
  /\ stored' = stored \cup {u}
  /\ strays' = IF ~Known(u) \/ Leaving(u) THEN strays \cup {u} ELSE strays

\* A PUT arrives at the bucket, while its request waits for the answer or after it
\* ended.
PutArrives(u) ==
  /\ flight[u] > 0 /\ flight' = [flight EXCEPT ![u] = 0]
  /\ Arrived(u)
  /\ IF writer[u].pc = "put" THEN Goto(u, "landed") ELSE UNCHANGED writer
  /\ UNCHANGED <<backend, takes, rows, metas, debris, process, pass, stops, overlooked, thrown>>

\* putFile returns, in a directory with the publication; or it throws after it.
PutEnds(u) ==
  /\ ~Busy
  /\ \/ backend = "fs" /\ writer[u].pc = "put" /\ Arrived(u)
     \/ writer[u].pc = "landed" /\ UNCHANGED <<stored, strays>>
  /\ Goto(u, "ended") \/ Goto(u, "abandon")
  /\ UNCHANGED <<backend, takes, rows, metas, flight, debris, process, pass, stops, overlooked, thrown>>

\* The end of storeUpload.
ObjectReady(u) ==
  /\ writer[u].pc = "ended"
  /\ IF Owned(u) THEN rows' = [rows EXCEPT ![u].state = "object_ready"] /\ Goto(u, "commit")
                 ELSE Disowned(u) /\ Goto(u, "abandon")
  /\ UNCHANGED <<backend, takes, metas, stored, flight, debris, process, pass, stops, history>>

\* attachStoredMedia, first half: mutateRecord.  The JSON store may refuse; it may
\* also throw after its journal entry is published, and the update then takes effect
\* (JsonStore: the instant of effect is the publication).
CommitRecord(u) ==
  LET t == rows[u].take
  IN  /\ writer[u].pc = "commit"
      /\ \/ /\ takes' = [takes EXCEPT ![t] = u]
            /\ writer' = [writer EXCEPT ![u] = [pc |-> "attach", old |-> takes[t]]]
            /\ UNCHANGED <<stops, thrown, overlooked>>
         \/ Goto(u, "abandon") /\ UNCHANGED <<takes, stops, thrown, overlooked>>
         \/ /\ stops < MaxStops /\ stops' = stops + 1
            /\ takes' = [takes EXCEPT ![t] = u] /\ Goto(u, "abandon")
            /\ thrown' = thrown \cup {u} /\ overlooked' = overlooked \cup ({takes[t]} \ {None})
  /\ UNCHANGED <<backend, rows, metas, stored, flight, debris, process, pass, strays>>

\* attachStoredMedia, second half: attachUpload.  If the lease ran out meanwhile the
\* route answers with an error (MediaAttachmentPendingError) and leaves the upload.
Replaced_None(u) == {}                  \* mutant: the replaced key is not passed on
Replaced(u) == {k \in Uploads : writer[u].old = k /\ metas[k] # None}
AttachUpload(u) ==
  /\ writer[u].pc = "attach"
  /\ IF Owned(u)
     THEN /\ metas' = [k \in Uploads |->
               IF k = u THEN [size |-> rows[u].size, pending |-> FALSE]
               ELSE IF k \in Replaced(u) THEN [metas[k] EXCEPT !.pending = TRUE]
               ELSE metas[k]]
          /\ rows' = [rows EXCEPT ![u] = None]
          /\ Goto(u, IF Replaced(u) = {} THEN "done" ELSE "eraseOld")
          /\ UNCHANGED overlooked
     ELSE /\ Disowned(u) /\ Goto(u, "done")
          /\ overlooked' = overlooked \cup ({writer[u].old} \ {None}) /\ UNCHANGED metas
  /\ UNCHANGED <<backend, takes, stored, flight, debris, process, pass, stops, thrown, strays>>

\* Mutant: the row goes before the bytes.
Abandon_DropsRow(u) ==
  /\ ~Busy /\ writer[u].pc = "abandon"
  /\ rows' = [rows EXCEPT ![u] = None]
  /\ Goto(u, IF rows[u] = None THEN "done" ELSE "erase")
  /\ UNCHANGED <<backend, takes, metas, stored, flight, debris, process, pass, stops, history>>

\* abandonUpload, once the stage is removed.
Abandon(u) ==
  /\ ~Busy /\ writer[u].pc = "abandon"
  /\ rows' = [rows EXCEPT ![u] = IF @ = None THEN None ELSE Abandoned(@)]
  /\ Goto(u, IF rows[u] = None THEN "done" ELSE "erase")
  /\ UNCHANGED <<backend, takes, metas, stored, flight, debris, process, pass, stops, history>>

\* A file is written or deleted through a temporary name, which a failure may leave.
Leftover == debris' \in {debris, debris \/ backend = "fs"}

\* deleteObjectArtifacts succeeds, or fails before or after the bytes are gone: then
\* the row, or the pending object, stays for recovery.
Target(u) == IF writer[u].pc \in {"erase", "forget"} THEN u ELSE writer[u].old
CanErase(u) == writer[u].pc \in {"erase", "eraseOld"} /\ (writer[u].pc \in Synchronous \/ ~Busy)
Erase(u) ==
  /\ CanErase(u)
  /\ stored' = stored \ {Target(u)}
  /\ Goto(u, IF writer[u].pc = "erase" THEN "forget" ELSE "forgetOld")
  /\ UNCHANGED <<backend, takes, rows, metas, flight, debris, process, pass, stops, history>>
EraseFails(u) ==
  /\ CanErase(u) /\ stops < MaxStops /\ stops' = stops + 1
  /\ stored' \in {stored, stored \ {Target(u)}}
  /\ Leftover
  /\ Goto(u, "done")
  /\ UNCHANGED <<backend, takes, rows, metas, flight, process, pass, history>>
Forget(u) ==
  /\ writer[u].pc \in {"forget", "forgetOld"}
  /\ IF writer[u].pc = "forget" THEN rows' = [rows EXCEPT ![u] = None] /\ UNCHANGED metas
                                ELSE metas' = [metas EXCEPT ![writer[u].old] = None] /\ UNCHANGED rows
  /\ Goto(u, "done")
  /\ UNCHANGED <<backend, takes, stored, flight, debris, process, pass, stops, history>>

-----------------------------------------------------------------------------
(* recover: at the start, then every 30 s, one pass at a time               *)

Pending == {u \in Uploads : metas[u] # None /\ metas[u].pending}
Begun == [Off EXCEPT !.pc = "next", !.todo = Pending]
StartPass ==
  /\ process = "open" /\ pass.pc = "off" /\ ~Busy
  /\ pass' = Begun
  /\ UNCHANGED <<backend, takes, rows, metas, stored, flight, debris, process, writer, stops, history>>

Failing == stops < MaxStops /\ stops' = stops + 1
NextIs(loop) == pass.pc = "next" /\ pass.loop = loop

\* An upload whose lease ran out: promoted if the record names its key (it then has its
\* actual size), else its bytes go.  Asking the record may fail.
PassUpload(u) ==
  /\ NextIs("uploads") /\ u \notin pass.seen /\ rows[u] # None
  /\ LET seen == [pass EXCEPT !.seen = @ \cup {u}]
     IN  \/ /\ rows[u].lease > 0
            /\ pass' = seen /\ UNCHANGED <<rows, metas, stops>>
         \/ /\ rows[u].lease = 0 /\ Referenced(u)
            /\ metas' = [metas EXCEPT ![u] = [size |-> rows[u].size, pending |-> FALSE]]
            /\ rows' = [rows EXCEPT ![u] = None]
            /\ pass' = [seen EXCEPT !.pc = "recheck", !.key = u] /\ UNCHANGED stops
         \/ /\ rows[u].lease = 0 /\ ~Referenced(u)
            /\ rows' = [rows EXCEPT ![u] = Abandoned(@)]
            /\ pass' = [seen EXCEPT !.pc = "erase", !.key = u] /\ UNCHANGED <<metas, stops>>
         \/ /\ rows[u].lease = 0 /\ Failing
            /\ rows' = [rows EXCEPT ![u] = Abandoned(@)]
            /\ pass' = seen /\ UNCHANGED metas
  /\ UNCHANGED <<backend, takes, stored, flight, debris, process, writer, history>>

\* The record is asked again.  No other code ran since, but the question may fail,
\* and then the promoted object is pending.
PassRecheck ==
  /\ pass.pc = "recheck"
  /\ pass' = [pass EXCEPT !.pc = "next", !.key = None]
  /\ \/ Referenced(pass.key) /\ UNCHANGED <<metas, stops>>
     \/ Failing /\ metas' = [metas EXCEPT ![pass.key].pending = TRUE]
  /\ UNCHANGED <<backend, takes, rows, stored, flight, debris, process, writer, history>>

PassTurns ==
  /\ NextIs("uploads") /\ \A u \in Uploads \ pass.seen : rows[u] = None
  /\ pass' = [pass EXCEPT !.loop = "objects"]
  /\ UNCHANGED <<backend, takes, rows, metas, stored, flight, debris, process, writer, stops, history>>

\* An object that was pending when the pass began, and still is: attached again if
\* the record names it, else its bytes go.
PassObject(u) ==
  /\ NextIs("objects") /\ u \in pass.todo
  /\ LET rest == [pass EXCEPT !.todo = @ \ {u}]
     IN  \/ u \notin Pending /\ pass' = rest /\ UNCHANGED <<metas, stops>>
         \/ /\ u \in Pending /\ Referenced(u)
            /\ metas' = [metas EXCEPT ![u].pending = FALSE]
            /\ pass' = rest /\ UNCHANGED stops
         \/ /\ u \in Pending /\ ~Referenced(u)
            /\ pass' = [rest EXCEPT !.pc = "erase", !.key = u] /\ UNCHANGED <<metas, stops>>
         \/ Failing /\ pass' = rest /\ UNCHANGED metas
  /\ UNCHANGED <<backend, takes, rows, stored, flight, debris, process, writer, history>>

CanPassErase == pass.pc = "erase" /\ (backend = "s3" => ~Busy)
PassErase ==
  /\ CanPassErase
  /\ stored' = stored \ {pass.key} /\ pass' = [pass EXCEPT !.pc = "forget"]
  /\ UNCHANGED <<backend, takes, rows, metas, flight, debris, process, writer, stops, history>>
PassEraseFails ==
  /\ CanPassErase /\ Failing
  /\ stored' \in {stored, stored \ {pass.key}} /\ Leftover
  /\ pass' = [pass EXCEPT !.pc = "next", !.key = None]
  /\ UNCHANGED <<backend, takes, rows, metas, flight, process, writer, history>>
PassForget ==
  /\ pass.pc = "forget"
  /\ IF pass.loop = "uploads" THEN rows' = [rows EXCEPT ![pass.key] = None] /\ UNCHANGED metas
                              ELSE metas' = [metas EXCEPT ![pass.key] = None] /\ UNCHANGED rows
  /\ pass' = [pass EXCEPT !.pc = "next", !.key = None]
  /\ UNCHANGED <<backend, takes, stored, flight, debris, process, writer, stops, history>>

\* The pass of a starting process opens it for traffic.
PassEnds ==
  /\ NextIs("objects") /\ pass.todo = {}
  /\ pass' = Off /\ process' = "open"
  /\ UNCHANGED <<backend, takes, rows, metas, stored, flight, debris, writer, stops, history>>

-----------------------------------------------------------------------------
(* The process and the clock                                                *)

\* A crash in a PUT to the directory leaves its temporary file, one inside persist()
\* or a deletion may.  A replaced key that attachUpload did not see stays as it is.
Crash ==
  /\ process # "down" /\ Failing
  /\ process' = "down" /\ pass' = Off
  /\ writer' = [u \in Uploads |-> IF writer[u].pc = "none" THEN Gone ELSE [pc |-> "done", old |-> None]]
  /\ debris' \in IF backend = "fs" /\ \E u \in Uploads : writer[u].pc = "put" THEN {TRUE} ELSE {debris, TRUE}
  /\ overlooked' = overlooked \cup ({writer[u].old : u \in {v \in Uploads : writer[v].pc = "attach"}} \ {None})
  /\ UNCHANGED <<backend, takes, rows, metas, stored, flight, thrown, strays>>

\* initialize takes every saved upload for abandoned.  Its scan of the media root
\* throws on a temporary file and, of a directory, on an object the state file does
\* not know; otherwise recover runs and traffic is accepted.
ScanThrows == debris \/ (backend = "fs" /\ \E u \in stored : ~Known(u))
Start ==
  /\ process = "down" /\ ~ScanThrows
  /\ rows' = [u \in Uploads |-> IF rows[u] = None THEN None ELSE Abandoned(rows[u])]
  /\ process' = "starting" /\ pass' = Begun
  /\ UNCHANGED <<backend, takes, metas, stored, flight, debris, writer, stops, history>>

\* External: an operator removes what keeps the process from starting.
CleanRoot ==
  /\ process = "down" /\ ScanThrows
  /\ debris' = FALSE /\ stored' = {u \in stored : Known(u)}
  /\ UNCHANGED <<backend, takes, rows, metas, flight, process, writer, pass, stops, history>>

Lower(x) == IF x > 0 THEN x - 1 ELSE 0
Tick ==
  /\ rows' = [u \in Uploads |-> IF rows[u] = None THEN None ELSE [rows[u] EXCEPT !.lease = Lower(@)]]
  /\ flight' = [u \in Uploads |-> Lower(flight[u])]
  /\ UNCHANGED <<backend, takes, metas, stored, debris, process, writer, pass, stops, history>>

UploadStep(u) ==
  \/ \E t \in Takes, declared \in 1 .. MaxObject : Reserve(u, t, declared)
  \/ Renew(u) \/ (\E size \in 1 .. MaxObject : StageEnds(u, size)) \/ TransferFails(u)
  \/ PutArrives(u) \/ PutEnds(u) \/ ObjectReady(u) \/ CommitRecord(u) \/ AttachUpload(u)
  \/ Abandon(u) \/ Erase(u) \/ EraseFails(u) \/ Forget(u)
PassStep ==
  \/ StartPass \/ PassRecheck \/ PassTurns \/ PassErase \/ PassEraseFails \/ PassForget \/ PassEnds
  \/ \E u \in Uploads : PassUpload(u) \/ PassObject(u)
Next == (\E u \in Uploads : UploadStep(u)) \/ PassStep \/ Crash \/ Start \/ CleanRoot \/ Tick

Spec == Init /\ [][Next]_vars

-----------------------------------------------------------------------------
(* Properties                                                               *)

\* Types of the state file, the object store and the process's local state.
TypeOK ==
  /\ backend \in {"fs", "s3"} /\ takes \in [Takes -> Uploads \cup {None}]
  /\ rows \in [Uploads -> Rows \cup {None}]
  /\ metas \in [Uploads -> Metas \cup {None}]
  /\ stored \subseteq Uploads /\ flight \in [Uploads -> 0 .. PutTime] /\ debris \in BOOLEAN
  /\ process \in {"down", "starting", "open"}
  /\ writer \in [Uploads -> Writers] /\ pass \in Passes
  /\ stops \in 0 .. MaxStops
  /\ overlooked \subseteq Uploads /\ thrown \subseteq Uploads /\ strays \subseteq Uploads

\* What the record names is there and the state file knows it, as an object or as an
\* upload that a pass will promote, whatever leases ran out, calls failed and crashes
\* and passes came between the two halves of the attachment.  (Not so a key whose
\* record update took effect and threw: see TakesHaveBytes.)
TakesAreServed ==
  \A t \in Takes : takes[t] # None /\ takes[t] \notin thrown =>
    /\ takes[t] \in stored
    /\ metas[takes[t]] # None \/ (rows[takes[t]] # None /\ rows[takes[t]].actual)

\* Between two pieces of code, an object that no take names is on its way out, unless
\* its replacement's attachUpload never happened.
AttachedIsReferenced ==
  ~Busy => \A u \in Uploads : metas[u] # None /\ ~metas[u].pending => Referenced(u) \/ u \in overlooked

\* What the record is charged for never exceeds its quota, through uploads with
\* other sizes than declared, restarts, promotions and failed deletions.
QuotaHolds == Charged(rows) <= MaxRecord

\* Bytes in the object store are known to the state file, which charges them and
\* without which a directory is refused at the next start, through failed deletions
\* and crashes.  Only a PUT that outlives its upload escapes.
BytesAreAccounted == \A u \in stored \ strays : Known(u)

\* "It commits media metadata to the WorkRecord only after storage succeeds, and
\* rolls back the media write when the record update fails" (ARCHITECTURE.md:114):
\* a take in the record has its bytes.
TakesHaveBytes == \A t \in Takes : takes[t] # None => takes[t] \in stored

\* The quota of a record, over bytes that all belong to somebody.
LimitsHold == TypeOK /\ QuotaHolds /\ BytesAreAccounted

\* For TLC: uploads and takes are interchangeable.
MediaSymmetry == Permutations(Uploads) \cup Permutations(Takes)
=============================================================================
