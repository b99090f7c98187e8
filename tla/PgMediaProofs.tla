---------------------------- MODULE PgMediaProofs ----------------------------
(***************************************************************************)
(* Proofs about PgMedia, for any number of uploads, takes and recovery     *)
(* passes and any limits: what the takes name is served, what is attached  *)
(* is named, and the limits hold.                                          *)
(*                                                                         *)
(* None of the three is inductive.  That a pass deletes no bytes a take    *)
(* names depends on what the pass was told when it asked, on who may still *)
(* come to name the key in the meantime, and on the PUT of the key being   *)
(* over: IInv says all of it, TLC checks it on the small instances, and    *)
(* the lemmas below show that every step keeps it.  The quota needs, on    *)
(* top of it, sums over the keys (FiniteSums).                             *)
(***************************************************************************)
EXTENDS PgMedia, FiniteSums

-----------------------------------------------------------------------------
(* The inductive invariant                                                  *)

\* The steps in which a pass works on its key.
WithKey == {"promote", "recheck", "requeue", "delete", "forget"}
InHand(u) == \E w \in Workers : u \in worker[w].todo
Settled(u) == uploads[u] = None \/ uploads[u].state = "attached"

\* A pass has a key exactly while it works on one, and that key is one of those it
\* claimed; it knows the size of each.
WorkersFit == \A w \in Workers :
  /\ worker[w].pc = "idle" => worker[w] = Resting
  /\ worker[w].pc = "claim" => worker[w].todo = {}
  /\ worker[w].pc \in WithKey => worker[w].key \in worker[w].todo
  /\ worker[w].pc \notin WithKey => worker[w].key = None
  /\ \A u \in worker[w].todo : worker[w].sizes[u] \in 1 .. MaxObject

\* Nothing is known of an id that no upload has.
UnusedIsClean == \A u \in Uploads : writer[u] = "none" =>
  /\ uploads[u] = None /\ objects[u] = None /\ jobs[u] = None /\ leases[u] = 0
  /\ u \notin stored /\ u \notin revived /\ ~Referenced(u) /\ ~InHand(u)

\* A key with an object row is no upload under way; one with a cleanup job, or that
\* a pass has in hand, is no active upload: a writer and a pass never own one key.
OneOwner == \A u \in Uploads :
  /\ objects[u] # None \/ Referenced(u) \/ u \in revived => Settled(u)
  /\ jobs[u] # None \/ InHand(u) => u \notin Active

\* No two takes name one key.
TakesDiffer == \A s, t \in Takes : takes[s] = takes[t] /\ takes[s] # None => s = t

\* What a pass was told of its key is still so when it acts on it: a key under
\* deletion is not named, one being promoted has been named again, and no key with
\* a job is named unless it was named again.
CleanupIsRight ==
  /\ \A w \in Workers : worker[w].pc \in {"delete", "forget"} => ~Referenced(worker[w].key)
  /\ \A w \in Workers : worker[w].pc \in {"promote", "recheck", "requeue"} => worker[w].key \in revived
  /\ \A w \in Workers : worker[w].pc = "forget" => worker[w].key \notin stored
  /\ \A u \in Uploads : (jobs[u] # None \/ InHand(u)) /\ u \notin revived => ~Referenced(u)
  /\ \A u \in stored \cap revived : objects[u] # None

\* A PUT that may still arrive has a row that will account for it, its job is not ready
\* before it is over, and no pass works on its key; a writer past the PUT has its bytes.
PutsAreSeen == \A u \in Uploads :
  /\ writer[u] \in {"end", "attach"} /\ u \in Active => u \in stored
  /\ writer[u] \in {"start", "put", "end", "attach"} /\ u \in Active => uploads[u].actual
  /\ writer[u] \notin {"put", "abandon", "done"} => flight[u] = 0
  /\ flight[u] > 0 => /\ uploads[u] # None /\ uploads[u].actual /\ uploads[u].state # "attached"
                      /\ u \in Active => flight[u] <= PutTime + uploads[u].lease
  /\ jobs[u] # None => flight[u] <= jobs[u].ready
  /\ InHand(u) => flight[u] = 0

\* The tables, the bytes and the passes agree.
TablesAgree ==
  /\ UnusedIsClean /\ OneOwner /\ TakesDiffer /\ CleanupIsRight /\ PutsAreSeen
  /\ TakesAreServed /\ AttachedIsReferenced /\ BytesAreAccounted

\* The inductive invariant.
IInv == TypeOK /\ WorkersFit /\ TablesAgree

-----------------------------------------------------------------------------
(* Rows and types                                                           *)

\* Goto moves one writer.
LEMMA GotoPlace ==
  ASSUME TypeOK, NEW u \in Uploads, NEW place \in Places, Goto(u, place)
  PROVE  /\ writer' \in [Uploads -> Places] /\ writer'[u] = place
         /\ \A v \in Uploads \ {u} : writer'[v] = writer[v]
BY DEF TypeOK, Goto

\* Working changes the step and the key of one pass.
LEMMA WorkingRow ==
  ASSUME TypeOK, NEW w \in Workers, NEW pc \in Steps, NEW key \in Uploads \cup {None}, Working(w, pc, key)
  PROVE  /\ worker' \in [Workers -> PassRows]
         /\ worker'[w].pc = pc /\ worker'[w].key = key
         /\ worker'[w].todo = worker[w].todo /\ worker'[w].sizes = worker[w].sizes
         /\ \A v \in Workers \ {w} : worker'[v] = worker[v]
<1>1. worker[w] \in PassRows
  BY DEF TypeOK
<1>2. worker' = [worker EXCEPT ![w] = [@ EXCEPT !.pc = pc, !.key = key]]
  BY DEF TypeOK, Working, PassRows
<1>3. [worker[w] EXCEPT !.pc = pc, !.key = key] \in PassRows
  BY <1>1 DEF PassRows
<1> DEFINE row == [worker[w] EXCEPT !.pc = pc, !.key = key]
<1>4. row.pc = pc /\ row.key = key /\ row.todo = worker[w].todo /\ row.sizes = worker[w].sizes
  BY <1>1 DEF PassRows
<1> HIDE DEF row
<1>5. worker' = [worker EXCEPT ![w] = row]
  BY <1>2 DEF row
<1> QED BY <1>3, <1>4, <1>5 DEF TypeOK, row

\* A resting pass is a row of its type.
LEMMA RestingRow == Resting \in PassRows
BY LimitsPositive, NoneIsNoUpload DEF Resting, PassRows, Steps

\* The state of a pass after its job u.
After(w, u) ==
  IF worker[w].todo \ {u} = {} THEN Resting
  ELSE [worker[w] EXCEPT !.pc = "work", !.todo = worker[w].todo \ {u}, !.key = None]

\* After a job a pass rests, or works on what is left.
LEMMA AfterRow ==
  ASSUME TypeOK, NEW w \in Workers, NEW u
  PROVE  /\ After(w, u) \in PassRows
         /\ After(w, u) = Resting
            \/ /\ After(w, u).pc = "work" /\ After(w, u).key = None /\ After(w, u).sizes = worker[w].sizes
               /\ After(w, u).todo = worker[w].todo \ {u} /\ After(w, u).todo # {}
<1>1. worker[w] \in PassRows
  BY DEF TypeOK
<1> DEFINE row == [worker[w] EXCEPT !.pc = "work", !.todo = worker[w].todo \ {u}, !.key = None]
<1>2. /\ row \in PassRows /\ row.pc = "work" /\ row.key = None /\ row.sizes = worker[w].sizes
      /\ row.todo = worker[w].todo \ {u}
  BY <1>1 DEF PassRows, Steps
<1> HIDE DEF row
<1>3. After(w, u) = IF worker[w].todo \ {u} = {} THEN Resting ELSE row
  BY DEF After, row
<1> QED BY <1>2, <1>3, RestingRow

\* NextJob leaves the key of the pass.
LEMMA NextJobRow ==
  ASSUME TypeOK, NEW w \in Workers, NextJob(w)
  PROVE  worker' = [worker EXCEPT ![w] = After(w, worker[w].key)]
BY DEF TypeOK, NextJob, After

\* The updates of an upload that the code makes keep its type.
LEMMA UploadRow ==
  ASSUME NEW r \in UploadRows
  PROVE  /\ \A s \in UploadStates : [r EXCEPT !.state = s] \in UploadRows
         /\ \A l \in -Quiet .. Lease : [r EXCEPT !.lease = l] \in UploadRows
         /\ \A s \in UploadStates, l \in -Quiet .. Lease, n \in 1 .. MaxObject :
              [r EXCEPT !.state = s, !.size = n, !.actual = TRUE, !.lease = l] \in UploadRows
BY DEF UploadRows

\* The updates of a job that the code makes keep its type.
LEMMA JobRow ==
  ASSUME NEW r \in JobRows
  PROVE  /\ \A w \in Workers, n \in 0 .. Quiet : [r EXCEPT !.owner = w, !.claim = n] \in JobRows
         /\ \A m \in 0 .. Later(Quiet, 1), n \in 0 .. Quiet :
              [r EXCEPT !.ready = m, !.claim = n] \in JobRows /\ [r EXCEPT !.ready = m, !.owner = None, !.claim = n] \in JobRows
BY DEF JobRows

\* A queued job is the one there was, or a new one of the right type.
LEMMA QueuedRow ==
  ASSUME TypeOK, NEW u \in Uploads, NEW ready \in 0 .. Later(Quiet, 1), NEW size \in 1 .. MaxObject
  PROVE  Queued(u, ready, size) \in JobRows /\ Queued(u, ready, size) = IF jobs[u] = None THEN [ready |-> ready, owner |-> None, claim |-> 0, size |-> size] ELSE jobs[u]
BY QuietOutlastsPut DEF TypeOK, Queued, JobRows

\* Every step keeps the types.
LEMMA TypeStep == TypeOK /\ WorkersFit /\ [Next]_vars => TypeOK'
<1> SUFFICES ASSUME TypeOK, WorkersFit, [Next]_vars PROVE TypeOK'
  OBVIOUS
<1> USE LimitsPositive, QuietOutlastsPut, NoneIsNoUpload
<1>0. /\ "abandon" \in Places /\ "admitted" \in Places /\ "stage" \in Places /\ "begin" \in Places
      /\ "start" \in Places /\ "put" \in Places /\ "end" \in Places /\ "attach" \in Places
      /\ "answer" \in Places /\ "done" \in Places
  BY DEF Places
<1>a. /\ "claim" \in Steps /\ "work" \in Steps /\ "promote" \in Steps /\ "delete" \in Steps
      /\ "recheck" \in Steps /\ "requeue" \in Steps /\ "forget" \in Steps
  BY DEF Steps
<1>b. \A s \in ActiveStates \cup {"abandoned", "attached", "reserved", "transferring", "object_ready"} : s \in UploadStates
  BY DEF UploadStates, ActiveStates
<1>c. 0 \in 0 .. Later(Quiet, 1) /\ Quiet \in 0 .. Later(Quiet, 1) /\ 1 \in 0 .. Later(Quiet, 1)
      /\ 0 \in 0 .. Quiet /\ Quiet \in 0 .. Quiet
  BY DEF Later
<1>d. Lease \in -Quiet .. Lease
  OBVIOUS
<1>f. ASSUME NEW u \in Uploads, Fail(u)
      PROVE  writer' \in [Uploads -> Places] /\ UNCHANGED <<takes, uploads, objects, jobs, leases>>
  BY <1>0, <1>f, GotoPlace DEF Fail, tables
<1>r. ASSUME NEW u \in Uploads, CanRenew(u), Renewed(u)
      PROVE  /\ uploads' \in [Uploads -> UploadRows \cup {None}] /\ leases' \in [Uploads -> 0 .. Lease]
             /\ UNCHANGED <<takes, objects, jobs>>
  <2>1. uploads[u] \in UploadRows
    BY <1>r DEF CanRenew, Owned, TypeOK
  <2>2. [uploads[u] EXCEPT !.lease = Lease] \in UploadRows
    BY <1>d, <2>1, UploadRow
  <2> QED BY <1>r, <2>2 DEF Renewed, TypeOK
<1>1. ASSUME NEW u \in Uploads, NEW t \in Takes, NEW declared \in 1 .. MaxObject, Reserve(u, t, declared) PROVE TypeOK'
  <2>1. writer' \in [Uploads -> Places]
    BY <1>0, <1>1, GotoPlace DEF Reserve
  <2>2. [state |-> "reserved", take |-> t, size |-> declared, actual |-> FALSE, lease |-> Lease] \in UploadRows
    BY DEF UploadRows, UploadStates, ActiveStates
  <2>3. uploads' \in [Uploads -> UploadRows \cup {None}]
    BY <2>2, <1>1 DEF Reserve, TypeOK
  <2>4. leases' \in [Uploads -> 0 .. Lease]
    BY <1>1 DEF Reserve, TypeOK
  <2> QED BY <1>1, <2>1, <2>3, <2>4 DEF Reserve, TypeOK
<1>2. ASSUME NEW u \in Uploads, StartStage(u) PROVE TypeOK'
  <2>1. CASE CanRenew(u)
    BY <1>0, <1>2, <1>r, <2>1, GotoPlace DEF StartStage, TypeOK
  <2>2. CASE ~CanRenew(u)
    BY <1>2, <1>f, <2>2 DEF StartStage, TypeOK
  <2> QED BY <2>1, <2>2
<1>3. ASSUME NEW u \in Uploads, NEW ok \in BOOLEAN, StageEnds(u, ok) PROVE TypeOK'
  <2>1. CASE ok
    BY <1>0, <1>3, <2>1, GotoPlace DEF StageEnds, TypeOK, tables
  <2>2. CASE ~ok
    BY <1>3, <1>f, <2>2 DEF StageEnds, TypeOK
  <2> QED BY <2>1, <2>2
<1>4. ASSUME NEW u \in Uploads, NEW size \in 1 .. MaxObject, StoreBegin(u, size) PROVE TypeOK'
  <2>1. CASE Fail(u)
    BY <1>4, <1>f, <2>1 DEF StoreBegin, TypeOK
  <2>2. CASE ~Fail(u)
    <3>1. uploads[u] \in UploadRows
      BY <1>4, <2>2 DEF StoreBegin, Owned, TypeOK
    <3>2. [uploads[u] EXCEPT !.state = "transferring", !.size = size, !.actual = TRUE, !.lease = Lease] \in UploadRows
      BY <1>b, <1>d, <3>1, UploadRow
    <3>3. uploads' = [uploads EXCEPT ![u] =
            [uploads[u] EXCEPT !.state = "transferring", !.size = size, !.actual = TRUE, !.lease = Lease]]
      BY <1>4, <2>2, <3>1 DEF StoreBegin, TypeOK
    <3>4. writer' \in [Uploads -> Places]
      BY <1>0, <1>4, <2>2, GotoPlace DEF StoreBegin
    <3> QED BY <1>4, <2>2, <3>2, <3>3, <3>4 DEF StoreBegin, TypeOK
  <2> QED BY <2>1, <2>2
<1>5. ASSUME NEW u \in Uploads, StartPut(u) PROVE TypeOK'
  <2>1. CASE CanRenew(u)
    <3>1. writer' \in [Uploads -> Places]
      BY <1>0, <1>5, <2>1, GotoPlace DEF StartPut
    <3>2. flight' \in [Uploads -> 0 .. PutTime]
      BY <1>5, <2>1 DEF StartPut, TypeOK
    <3> QED BY <1>5, <1>r, <2>1, <3>1, <3>2 DEF StartPut, TypeOK
  <2>2. CASE ~CanRenew(u)
    BY <1>5, <1>f, <2>2 DEF StartPut, TypeOK
  <2> QED BY <2>1, <2>2
<1>6. ASSUME NEW u \in Uploads, PutTimesOut(u) PROVE TypeOK'
  BY <1>6, <1>f DEF PutTimesOut, TypeOK
<1>7. ASSUME NEW u \in Uploads, StoreEnd(u) PROVE TypeOK'
  <2>1. CASE Fail(u)
    BY <1>7, <1>f, <2>1 DEF StoreEnd, TypeOK
  <2>2. CASE ~Fail(u)
    <3>1. uploads[u] \in UploadRows
      BY <1>7, <2>2 DEF StoreEnd, Owned, TypeOK
    <3>2. [uploads[u] EXCEPT !.state = "object_ready"] \in UploadRows
      BY <1>b, <3>1, UploadRow
    <3>3. writer' \in [Uploads -> Places]
      BY <1>0, <1>7, <2>2, GotoPlace DEF StoreEnd
    <3> QED BY <1>7, <2>2, <3>2, <3>3 DEF StoreEnd, TypeOK
  <2> QED BY <2>1, <2>2
<1>8. ASSUME NEW u \in Uploads, Attach(u) PROVE TypeOK'
  <2>1. CASE Fail(u)
    BY <1>8, <1>f, <2>1 DEF Attach, TypeOK
  <2>2. CASE ~Fail(u)
    <3>1. uploads[u] \in UploadRows /\ Attached(u)
      BY <1>8, <2>2 DEF Attach, Owned, TypeOK
    <3>2. uploads' \in [Uploads -> UploadRows \cup {None}]
      BY <1>b, <3>1, UploadRow DEF Attached, TypeOK
    <3>3. writer' \in [Uploads -> Places]
      BY <1>0, <1>8, <2>2, GotoPlace DEF Attach
    <3>4. takes' \in [Takes -> Uploads \cup {None}] /\ leases' \in [Uploads -> 0 .. Lease]
      BY <3>1 DEF Attached, TypeOK, UploadRows
    <3>5. objects' \in [Uploads -> ObjectRows \cup {None}]
      BY <3>1 DEF Attached, Replaced, TypeOK, UploadRows, ObjectRows
    <3>6. jobs' \in [Uploads -> JobRows \cup {None}]
      <4>1. ASSUME NEW k \in Replaced(u) PROVE Queued(k, 0, objects[k].size) \in JobRows
        <5>1. k \in Uploads /\ objects[k] \in ObjectRows
          BY DEF Replaced, TypeOK
        <5>2. objects[k].size \in 1 .. MaxObject
          BY <5>1 DEF ObjectRows
        <5> QED BY <1>c, <5>1, <5>2, QueuedRow
      <4> QED BY <3>1, <4>1 DEF Attached, TypeOK
    <3> QED BY <1>8, <2>2, <3>2, <3>3, <3>4, <3>5, <3>6 DEF Attach, TypeOK
  <2> QED BY <2>1, <2>2
<1>9. ASSUME NEW u \in Uploads, Answer(u) PROVE TypeOK'
  BY <1>0, <1>9, GotoPlace DEF Answer, TypeOK, tables
<1>10. ASSUME NEW u \in Uploads, Abandon(u) PROVE TypeOK'
  <2>1. writer' \in [Uploads -> Places]
    BY <1>0, <1>10, GotoPlace DEF Abandon
  <2>2. uploads' \in [Uploads -> UploadRows \cup {None}]
    <3>1. uploads[u] \in UploadRows => [uploads[u] EXCEPT !.state = "abandoned"] \in UploadRows
      BY <1>b, UploadRow
    <3> QED BY <1>10, <3>1 DEF Abandon, TypeOK
  <2>3. jobs' \in [Uploads -> JobRows \cup {None}]
    BY <1>10 DEF Abandon, TypeOK, UploadRows, JobRows, Queued, Later
  <2>4. leases' \in [Uploads -> 0 .. Lease]
    BY <1>10 DEF Abandon, TypeOK
  <2> QED BY <1>10, <2>1, <2>2, <2>3, <2>4 DEF Abandon, TypeOK
<1>11. ASSUME NEW u \in Uploads, Renew(u) PROVE TypeOK'
  <2>1. CASE CanRenew(u)
    BY <1>11, <1>r, <2>1 DEF Renew, TypeOK
  <2>2. CASE ~CanRenew(u)
    BY <1>11, <1>f, <2>2 DEF Renew, TypeOK
  <2> QED BY <2>1, <2>2
<1>12. ASSUME NEW u \in Uploads, PutLands(u) PROVE TypeOK'
  <2>1. writer' \in [Uploads -> Places]
    BY <1>0, <1>12, GotoPlace DEF PutLands, TypeOK
  <2>2. stored' \subseteq Uploads /\ flight' \in [Uploads -> 0 .. PutTime]
    BY <1>12 DEF PutLands, TypeOK
  <2> QED BY <1>12, <2>1, <2>2 DEF PutLands, TypeOK, tables
<1>13. ASSUME NEW u \in Uploads, GiveUp(u) PROVE TypeOK'
  BY <1>13, <1>f DEF GiveUp, TypeOK
<1>14. ASSUME NEW u \in Uploads, Die(u) PROVE TypeOK'
  BY <1>0, <1>14, GotoPlace DEF Die, TypeOK, tables
<1>15. ASSUME NEW u \in Uploads, NEW t \in Takes, Refer(t, u) PROVE TypeOK'
  BY <1>15 DEF Refer, TypeOK
<1>16. ASSUME NEW w \in Workers, Expire(w) PROVE TypeOK'
  <2>1. worker' \in [Workers -> PassRows]
    BY <1>a, <1>16, WorkingRow DEF Expire
  <2>2. uploads' \in [Uploads -> UploadRows \cup {None}]
    <3>1. ASSUME NEW u \in Active PROVE uploads[u] \in UploadRows /\ [uploads[u] EXCEPT !.state = "abandoned"] \in UploadRows
      BY <1>b, UploadRow DEF Active, TypeOK
    <3> QED BY <1>16, <3>1 DEF Expire, TypeOK
  <2>3. jobs' \in [Uploads -> JobRows \cup {None}]
    <3>1. ASSUME NEW u \in Active, uploads[u].lease <= 0 PROVE Queued(u, Later(0, Quiet + uploads[u].lease), uploads[u].size) \in JobRows
      <4>1. u \in Uploads /\ uploads[u] \in UploadRows
        BY DEF Active, TypeOK
      <4>2. uploads[u].size \in 1 .. MaxObject /\ uploads[u].lease \in -Quiet .. Lease
        BY <4>1 DEF UploadRows
      <4>3. Later(0, Quiet + uploads[u].lease) \in 0 .. Later(Quiet, 1)
        BY <3>1, <4>2 DEF Later
      <4> QED BY <4>1, <4>2, <4>3, QueuedRow
    <3> QED BY <1>16, <3>1 DEF Expire, TypeOK
  <2> QED BY <1>16, <2>1, <2>2, <2>3 DEF Expire, TypeOK
<1>17. ASSUME NEW w \in Workers, Claim(w) PROVE TypeOK'
  <2>1. jobs' \in [Uploads -> JobRows \cup {None}]
    <3>1. ASSUME NEW u \in Claimable PROVE [jobs[u] EXCEPT !.owner = w, !.claim = Quiet] \in JobRows
      BY <1>c, JobRow DEF Claimable, TypeOK
    <3> QED BY <1>17, <3>1 DEF Claim, TypeOK
  <2>2. worker' \in [Workers -> PassRows]
    <3>1. [pc |-> "work", todo |-> Claimable, key |-> None,
           sizes |-> [u \in Uploads |-> IF u \in Claimable THEN jobs[u].size ELSE 0]] \in PassRows
      BY <1>a DEF PassRows, Claimable, TypeOK, JobRows
    <3> QED BY <1>17, <3>1, RestingRow DEF Claim, TypeOK
  <2> QED BY <1>17, <2>1, <2>2 DEF Claim, TypeOK
<1>18. ASSUME NEW w \in Workers, NEW u \in Uploads, Check(w, u) PROVE TypeOK'
  <2>1. worker' \in [Workers -> PassRows]
    BY <1>a, <1>18, WorkingRow DEF Check
  <2> QED BY <1>18, <2>1 DEF Check, TypeOK, tables
<1>19. ASSUME NEW w \in Workers, Promote(w) PROVE TypeOK'
  <2> DEFINE u == worker[w].key
  <2>0. u \in Uploads /\ u \in worker[w].todo /\ worker[w].sizes[u] \in 1 .. MaxObject
    BY <1>19 DEF Promote, WorkersFit, TypeOK, PassRows, WithKey
  <2>1. worker' \in [Workers -> PassRows]
    BY <1>a, <1>19, <2>0, WorkingRow DEF Promote
  <2>2. objects' \in [Uploads -> ObjectRows \cup {None}]
    <3>1. uploads[u] # None => uploads[u].size \in 1 .. MaxObject
      BY <2>0 DEF TypeOK, UploadRows
    <3>2. objects[u] # None => objects[u].size \in 1 .. MaxObject
      BY <2>0 DEF TypeOK, ObjectRows
    <3> QED BY <1>19, <2>0, <3>1, <3>2 DEF Promote, TypeOK, ObjectRows
  <2>3. uploads' \in [Uploads -> UploadRows \cup {None}] /\ jobs' \in [Uploads -> JobRows \cup {None}]
    BY <1>19, <2>0 DEF Promote, TypeOK
  <2> QED BY <1>19, <2>1, <2>2, <2>3 DEF Promote, TypeOK
<1>20. ASSUME NEW w \in Workers, Recheck(w) PROVE TypeOK'
  <2>1. worker[w].key \in Uploads \cup {None}
    BY DEF TypeOK, PassRows
  <2>2. NextJob(w) => worker' \in [Workers -> PassRows]
    BY NextJobRow, AfterRow DEF TypeOK
  <2>3. Working(w, "requeue", worker[w].key) => worker' \in [Workers -> PassRows]
    BY <1>a, <2>1, WorkingRow
  <2>4. worker' \in [Workers -> PassRows]
    BY <1>20, <2>2, <2>3 DEF Recheck
  <2>5. stops' \in 0 .. MaxStops
    BY <1>20 DEF Recheck, TypeOK
  <2> QED BY <1>20, <2>4, <2>5 DEF Recheck, TypeOK, tables
<1>21. ASSUME NEW w \in Workers, Requeue(w) PROVE TypeOK'
  <2> DEFINE u == worker[w].key
  <2>1. worker' \in [Workers -> PassRows]
    BY <1>21, NextJobRow, AfterRow DEF Requeue, TypeOK
  <2>2. objects' \in [Uploads -> ObjectRows \cup {None}]
    BY <1>21 DEF Requeue, TypeOK, ObjectRows
  <2>3. jobs' \in [Uploads -> JobRows \cup {None}]
    <3>1. ASSUME u \in Uploads, objects[u] # None PROVE Queued(u, 0, objects[u].size) \in JobRows
      <4>1. objects[u].size \in 1 .. MaxObject
        BY <3>1 DEF TypeOK, ObjectRows
      <4> QED BY <1>c, <3>1, <4>1, QueuedRow
    <3> QED BY <1>21, <3>1 DEF Requeue, TypeOK
  <2> QED BY <1>21, <2>1, <2>2, <2>3 DEF Requeue, TypeOK
<1>22. ASSUME NEW w \in Workers, DeleteObject(w) PROVE TypeOK'
  <2>1. worker[w].key \in Uploads \cup {None}
    BY DEF TypeOK, PassRows
  <2>2. worker' \in [Workers -> PassRows]
    BY <1>a, <1>22, <2>1, WorkingRow DEF DeleteObject
  <2> QED BY <1>22, <2>2 DEF DeleteObject, TypeOK, tables
<1>23. ASSUME NEW w \in Workers, Forget(w) PROVE TypeOK'
  <2>1. worker' \in [Workers -> PassRows]
    BY <1>23, NextJobRow, AfterRow DEF Forget, TypeOK
  <2>2. uploads' \in [Uploads -> UploadRows \cup {None}]
    BY <1>23 DEF Forget, TypeOK
  <2>3. jobs' \in [Uploads -> JobRows \cup {None}]
    BY <1>23 DEF Forget, TypeOK
  <2>4. objects' \in [Uploads -> ObjectRows \cup {None}]
    BY <1>23 DEF Forget, TypeOK
  <2> QED BY <1>23, <2>1, <2>2, <2>3, <2>4 DEF Forget, TypeOK
<1>24. ASSUME NEW w \in Workers, WorkFails(w) PROVE TypeOK'
  <2>1. PICK u \in (IF worker[w].pc = "work" THEN worker[w].todo ELSE {worker[w].key}) :
          /\ jobs' = [jobs EXCEPT ![u] = IF Mine(w, u) THEN [@ EXCEPT !.ready = 1, !.owner = None, !.claim = 0] ELSE @]
          /\ worker' = [worker EXCEPT ![w] = After(w, u)]
    BY <1>24 DEF WorkFails, After, TypeOK
  <2>2. worker' \in [Workers -> PassRows]
    BY <2>1, AfterRow DEF TypeOK
  <2>3. jobs' \in [Uploads -> JobRows \cup {None}]
    <3>1. ASSUME u \in Uploads, jobs[u] # None PROVE [jobs[u] EXCEPT !.ready = 1, !.owner = None, !.claim = 0] \in JobRows
      BY <1>c, <3>1, JobRow DEF TypeOK
    <3> QED BY <2>1, <3>1 DEF TypeOK, Mine
  <2>4. stops' \in 0 .. MaxStops
    BY <1>24 DEF WorkFails, TypeOK
  <2> QED BY <1>24, <2>2, <2>3, <2>4 DEF WorkFails, TypeOK
<1>25. ASSUME NEW w \in Workers, WorkerDies(w) PROVE TypeOK'
  <2>1. worker' \in [Workers -> PassRows] /\ stops' \in 0 .. MaxStops
    BY <1>25, RestingRow DEF WorkerDies, TypeOK
  <2> QED BY <1>25, <2>1 DEF WorkerDies, TypeOK, tables
<1>26. CASE Tick
  <2>1. uploads' \in [Uploads -> UploadRows \cup {None}]
    <3>1. ASSUME NEW u \in Active PROVE [uploads[u] EXCEPT !.lease = Lower(uploads[u].lease, -Quiet)] \in UploadRows
      <4>1. uploads[u] \in UploadRows
        BY DEF Active, TypeOK
      <4>2. Lower(uploads[u].lease, -Quiet) \in -Quiet .. Lease
        BY <4>1 DEF UploadRows, Lower
      <4> QED BY <4>1, <4>2, UploadRow
    <3> QED BY <1>26, <3>1 DEF Tick, TypeOK
  <2>2. jobs' \in [Uploads -> JobRows \cup {None}]
    <3>1. ASSUME NEW u \in Uploads, jobs[u] # None
          PROVE [jobs[u] EXCEPT !.ready = Lower(@, 0), !.claim = Lower(@, 0)] \in JobRows
      <4>1. jobs[u] \in JobRows
        BY <3>1 DEF TypeOK
      <4>2. Lower(jobs[u].ready, 0) \in 0 .. Later(Quiet, 1) /\ Lower(jobs[u].claim, 0) \in 0 .. Quiet
        BY <4>1 DEF JobRows, Lower, Later
      <4> QED BY <4>1, <4>2, JobRow
    <3> QED BY <1>26, <3>1 DEF Tick, TypeOK
  <2>3. leases' \in [Uploads -> 0 .. Lease] /\ flight' \in [Uploads -> 0 .. PutTime]
    <3>1. ASSUME NEW u \in Uploads PROVE Lower(leases[u], 0) \in 0 .. Lease /\ Lower(flight[u], 0) \in 0 .. PutTime
      BY DEF TypeOK, Lower
    <3> QED BY <1>26, <3>1 DEF Tick
  <2> QED BY <1>26, <2>1, <2>2, <2>3 DEF Tick, TypeOK
<1>27. CASE UNCHANGED vars
  BY <1>27 DEF vars, TypeOK
<1> QED
  BY <1>1, <1>2, <1>3, <1>4, <1>5, <1>6, <1>7, <1>8, <1>9, <1>10, <1>11, <1>12, <1>13, <1>14, <1>15,
     <1>16, <1>17, <1>18, <1>19, <1>20, <1>21, <1>22, <1>23, <1>24, <1>25, <1>26, <1>27
     DEF Next, UploadStep, WorkStep

\* Every step keeps what is known of the passes' local state.
LEMMA WorkersStep == TypeOK /\ WorkersFit /\ [Next]_vars => WorkersFit'
<1> SUFFICES ASSUME TypeOK, WorkersFit, [Next]_vars PROVE WorkersFit'
  OBVIOUS
<1> USE LimitsPositive, QuietOutlastsPut, NoneIsNoUpload
<1> DEFINE Fit(row) ==
      /\ row.pc = "idle" => row = Resting
      /\ row.pc = "claim" => row.todo = {}
      /\ row.pc \in WithKey => row.key \in row.todo
      /\ row.pc \notin WithKey => row.key = None
      /\ \A u \in row.todo : row.sizes[u] \in 1 .. MaxObject
<1>0. \A w \in Workers : Fit(worker[w])
  BY DEF WorkersFit
<1>a. SUFFICES \A w \in Workers : Fit(worker'[w])
  BY DEF WorkersFit
<1>b. Fit(Resting)
  BY DEF Resting, WithKey
<1>c. ASSUME NEW w \in Workers, NEW u PROVE Fit(After(w, u))
  <2>1. CASE After(w, u) = Resting
    BY <1>b, <2>1
  <2>2. CASE After(w, u) # Resting
    <3>1. /\ After(w, u).pc = "work" /\ After(w, u).key = None /\ After(w, u).sizes = worker[w].sizes
          /\ After(w, u).todo = worker[w].todo \ {u}
      BY <2>2, AfterRow
    <3>2. After(w, u).pc \notin WithKey
      BY <3>1 DEF WithKey
    <3> HIDE DEF WithKey
    <3> QED BY <1>0, <3>1, <3>2
  <2> QED BY <2>1, <2>2
<1>d. ASSUME NEW w \in Workers, NEW row, Fit(row), worker' = [worker EXCEPT ![w] = row]
      PROVE  \A v \in Workers : Fit(worker'[v])
  <2>1. ASSUME NEW v \in Workers PROVE worker'[v] = row \/ worker'[v] = worker[v]
    BY <1>d DEF TypeOK
  <2> HIDE DEF Fit
  <2> QED BY <1>0, <1>d, <2>1
<1>e. ASSUME NEW w \in Workers, NEW pc \in WithKey, NEW u \in worker[w].todo, Working(w, pc, u)
      PROVE  \A v \in Workers : Fit(worker'[v])
  <2>1. pc \in Steps /\ u \in Uploads /\ pc # "idle" /\ pc # "claim"
    BY DEF WithKey, Steps, TypeOK, PassRows
  <2>2. /\ worker'[w].pc = pc /\ worker'[w].key = u /\ worker'[w].todo = worker[w].todo
        /\ worker'[w].sizes = worker[w].sizes /\ \A v \in Workers \ {w} : worker'[v] = worker[v]
    BY <1>e, <2>1, WorkingRow
  <2>3. Fit(worker'[w])
    BY <1>0, <2>1, <2>2
  <2> HIDE DEF Fit
  <2> QED BY <1>0, <2>2, <2>3
<1>1. CASE UNCHANGED worker
  BY <1>0, <1>1
<1>2. ASSUME NEW w \in Workers, Expire(w) PROVE \A v \in Workers : Fit(worker'[v])
  <2>1. worker[w] = Resting
    BY <1>2 DEF Expire, WorkersFit
  <2>2. "claim" \in Steps /\ "claim" \notin WithKey
    BY DEF Steps, WithKey
  <2>3. /\ worker'[w].pc = "claim" /\ worker'[w].key = None /\ worker'[w].todo = {}
        /\ \A v \in Workers \ {w} : worker'[v] = worker[v]
    BY <1>2, <2>1, <2>2, WorkingRow DEF Expire, Resting
  <2>4. Fit(worker'[w])
    BY <2>2, <2>3
  <2> HIDE DEF Fit
  <2> QED BY <1>0, <2>3, <2>4
<1>3. ASSUME NEW w \in Workers, Claim(w) PROVE \A v \in Workers : Fit(worker'[v])
  <2> DEFINE row == [pc |-> "work", todo |-> Claimable, key |-> None,
                     sizes |-> [u \in Uploads |-> IF u \in Claimable THEN jobs[u].size ELSE 0]]
  <2>1. ASSUME NEW u \in Claimable PROVE u \in Uploads /\ jobs[u].size \in 1 .. MaxObject
    BY DEF Claimable, TypeOK, JobRows
  <2>2. Fit(row)
    BY <2>1 DEF WithKey
  <2>3. worker' = [worker EXCEPT ![w] = Resting] \/ worker' = [worker EXCEPT ![w] = row]
    BY <1>3 DEF Claim
  <2> HIDE DEF row, Fit
  <2> QED BY <1>b, <1>d, <2>2, <2>3
<1>4. ASSUME NEW w \in Workers, NEW u \in Uploads, Check(w, u) PROVE \A v \in Workers : Fit(worker'[v])
  <2>1. "promote" \in WithKey /\ "delete" \in WithKey
    BY DEF WithKey
  <2> HIDE DEF Fit
  <2> QED BY <1>e, <1>4, <2>1 DEF Check
<1>5. ASSUME NEW w \in Workers, worker[w].pc \in WithKey, NEW pc \in WithKey, Working(w, pc, worker[w].key)
      PROVE  \A v \in Workers : Fit(worker'[v])
  <2>1. worker[w].key \in worker[w].todo
    BY <1>5 DEF WorkersFit
  <2> HIDE DEF Fit
  <2> QED BY <1>e, <1>5, <2>1
<1>6. ASSUME NEW w \in Workers, NEW u, worker' = [worker EXCEPT ![w] = After(w, u)]
      PROVE  \A v \in Workers : Fit(worker'[v])
  <2> HIDE DEF Fit
  <2> QED BY <1>c, <1>d, <1>6
<1>7. ASSUME NEW w \in Workers, NextJob(w) PROVE \A v \in Workers : Fit(worker'[v])
  <2> HIDE DEF Fit
  <2> QED BY <1>6, <1>7, NextJobRow
<1>8. ASSUME NEW w \in Workers, Promote(w) \/ Recheck(w) \/ Requeue(w) \/ DeleteObject(w) \/ Forget(w)
      PROVE  \A v \in Workers : Fit(worker'[v])
  <2>1. worker[w].pc \in WithKey /\ {"recheck", "requeue", "forget"} \subseteq WithKey
    BY <1>8 DEF WithKey, Promote, Recheck, Requeue, DeleteObject, Forget
  <2>2. NextJob(w) \/ \E pc \in {"recheck", "requeue", "forget"} : Working(w, pc, worker[w].key)
    BY <1>8 DEF Promote, Recheck, Requeue, DeleteObject, Forget
  <2> HIDE DEF Fit
  <2> QED BY <1>5, <1>7, <2>1, <2>2
<1>9. ASSUME NEW w \in Workers, WorkFails(w) \/ WorkerDies(w) PROVE \A v \in Workers : Fit(worker'[v])
  <2>1. worker' = [worker EXCEPT ![w] = Resting] \/ \E u : worker' = [worker EXCEPT ![w] = After(w, u)]
    BY <1>9 DEF WorkFails, WorkerDies, After, TypeOK
  <2> HIDE DEF Fit
  <2> QED BY <1>b, <1>d, <1>6, <2>1
<1> HIDE DEF Fit
<1>10. UNCHANGED worker \/ \E w \in Workers : WorkStep(w) \/ WorkFails(w) \/ WorkerDies(w)
  <2>1. ASSUME NEW u \in Uploads, UploadStep(u) PROVE UNCHANGED worker
    BY <2>1 DEF UploadStep, StartStage, StageEnds, StoreBegin, StartPut, PutTimesOut, StoreEnd, Attach,
                Answer, Abandon
  <2>2. ASSUME NEW u \in Uploads, NEW t \in Takes, Refer(t, u) \/ \E n \in 1 .. MaxObject : Reserve(u, t, n)
        PROVE  UNCHANGED worker
    BY <2>2 DEF Reserve, Refer
  <2>3. ASSUME NEW u \in Uploads, Renew(u) \/ PutLands(u) \/ GiveUp(u) \/ Die(u) PROVE UNCHANGED worker
    BY <2>3 DEF Renew, PutLands, GiveUp, Die
  <2>4. Tick \/ UNCHANGED vars => UNCHANGED worker
    BY DEF Tick, vars
  <2> QED BY <2>1, <2>2, <2>3, <2>4 DEF Next
<1> QED BY <1>1, <1>2, <1>3, <1>4, <1>8, <1>9, <1>10 DEF WorkStep

-----------------------------------------------------------------------------
(* The steps of an upload                                                   *)

\* A step of a writer that changes no table.
LEMMA WriterOnly ==
  ASSUME IInv, NEW u \in Uploads, NEW place \in {"begin", "abandon", "done"}, place = "begin" => writer[u] = "stage",
         Goto(u, place), UNCHANGED <<takes, uploads, objects, jobs, leases, stored, flight, worker, revived>>
  PROVE  TablesAgree'
<1>1. /\ writer'[u] = place /\ place # "none" /\ place \notin {"start", "put", "end", "attach"}
      /\ place \notin {"put", "abandon", "done"} => writer[u] = "stage"
      /\ \A v \in Uploads \ {u} : writer'[v] = writer[v]
  BY DEF Goto, IInv, TypeOK
<1>2. UnusedIsClean'
  BY <1>1 DEF IInv, TablesAgree, UnusedIsClean, Referenced, InHand
<1>3. OneOwner' /\ TakesDiffer' /\ CleanupIsRight'
  BY DEF IInv, TablesAgree, OneOwner, TakesDiffer, CleanupIsRight, Referenced, InHand, Settled, Active
<1>4. PutsAreSeen'
  BY <1>1 DEF IInv, TablesAgree, PutsAreSeen, InHand, Active
<1>5. TakesAreServed' /\ AttachedIsReferenced' /\ BytesAreAccounted'
  BY DEF IInv, TablesAgree, TakesAreServed, AttachedIsReferenced, BytesAreAccounted, Referenced
<1> QED BY <1>2, <1>3, <1>4, <1>5 DEF TablesAgree

\* A live lease is extended.
LEMMA RenewedKeeps ==
  ASSUME IInv, NEW u \in Uploads, CanRenew(u), Renewed(u)
  PROVE  /\ u \in Active /\ u \in Active' /\ uploads[u] # None /\ uploads'[u] # None /\ uploads'[u].lease = Lease
         /\ uploads'[u].state = uploads[u].state /\ uploads'[u].actual = uploads[u].actual
         /\ \A v \in Uploads \ {u} : uploads'[v] = uploads[v]
         /\ \A v \in Uploads : Settled(v)' = Settled(v) /\ (v \in Active' <=> v \in Active)
         /\ \A v \in Uploads : leases[v] = 0 /\ v # u => leases'[v] = 0
         /\ UNCHANGED <<takes, objects, jobs>>
<1>1. uploads[u] \in UploadRows
  BY DEF IInv, TypeOK, CanRenew, Owned
<1> DEFINE row == [uploads[u] EXCEPT !.lease = Lease]
<1>2. row \in UploadRows /\ row.lease = Lease /\ row.state = uploads[u].state /\ row.actual = uploads[u].actual
  BY <1>1, LimitsPositive, QuietOutlastsPut DEF UploadRows
<1>3. uploads' = [uploads EXCEPT ![u] = row]
  BY DEF IInv, TypeOK, Renewed
<1>4. row # None
  BY <1>2, NoneIsNoRow
<1> HIDE DEF row
<1>5. uploads'[u] = row /\ \A v \in Uploads \ {u} : uploads'[v] = uploads[v]
  BY <1>3 DEF IInv, TypeOK
<1>6. u \in Active /\ uploads[u] # None
  BY DEF CanRenew, Owned, Active
<1>7. \A v \in Uploads : (v \in Active' <=> v \in Active) /\ Settled(v)' = Settled(v)
  BY <1>2, <1>4, <1>5, <1>6 DEF Active, Settled
<1>8. \A v \in Uploads : leases[v] = 0 /\ v # u => leases'[v] = 0
  BY DEF Renewed, IInv, TypeOK
<1> QED BY <1>2, <1>4, <1>5, <1>6, <1>7, <1>8 DEF Renewed

\* StartStage and Renew.
LEMMA RenewOnly ==
  ASSUME IInv, NEW u \in Uploads, CanRenew(u), Renewed(u),
         \/ Goto(u, "stage") /\ writer[u] = "admitted"
         \/ UNCHANGED writer /\ writer[u] # "none",
         UNCHANGED <<stored, flight, worker, revived>>
  PROVE  TablesAgree'
<1>0. /\ \A v \in Uploads \ {u} : writer'[v] = writer[v]
      /\ writer'[u] = writer[u] \/ (writer'[u] = "stage" /\ writer[u] = "admitted")
      /\ writer'[u] # "none"
  BY DEF Goto, IInv, TypeOK
<1>1. UnusedIsClean'
  BY <1>0, RenewedKeeps DEF IInv, TablesAgree, UnusedIsClean, Referenced, InHand
<1>2. OneOwner' /\ TakesDiffer' /\ CleanupIsRight'
  BY RenewedKeeps DEF IInv, TablesAgree, OneOwner, TakesDiffer, CleanupIsRight, Referenced, InHand
<1>3. PutsAreSeen'
  <2>1. flight[u] <= PutTime + Lease
    BY LimitsPositive, QuietOutlastsPut DEF IInv, TypeOK
  <2> QED BY <1>0, <2>1, RenewedKeeps DEF IInv, TablesAgree, PutsAreSeen, InHand
<1>4. TakesAreServed' /\ AttachedIsReferenced'
  BY RenewedKeeps DEF IInv, TablesAgree, TakesAreServed, AttachedIsReferenced, Referenced
<1>5. BytesAreAccounted'
  BY RenewedKeeps DEF IInv, TypeOK, TablesAgree, BytesAreAccounted
<1> QED BY <1>1, <1>2, <1>3, <1>4, <1>5 DEF TablesAgree

\* A reservation.
LEMMA ReserveKeeps ==
  ASSUME IInv, NEW u \in Uploads, NEW t \in Takes, NEW declared \in 1 .. MaxObject, Reserve(u, t, declared)
  PROVE  TablesAgree'
<1> DEFINE row == [state |-> "reserved", take |-> t, size |-> declared, actual |-> FALSE, lease |-> Lease]
<1>1. row \in UploadRows
  BY LimitsPositive, QuietOutlastsPut DEF UploadRows, UploadStates, ActiveStates
<1>2. /\ uploads'[u] = row /\ \A v \in Uploads \ {u} : uploads'[v] = uploads[v]
      /\ writer[u] = "none" /\ writer'[u] = "admitted" /\ \A v \in Uploads \ {u} : writer'[v] = writer[v]
      /\ \A v \in Uploads \ {u} : leases'[v] = leases[v]
      /\ UNCHANGED <<takes, objects, jobs, stored, flight, worker, revived>>
  BY DEF IInv, TypeOK, Reserve, Goto
<1>3. uploads[u] = None /\ objects[u] = None /\ jobs[u] = None /\ u \notin revived /\ ~Referenced(u) /\ ~InHand(u)
      /\ u \notin stored
  BY <1>2 DEF IInv, TablesAgree, UnusedIsClean
<1> HIDE DEF row
<1>4. UnusedIsClean'
  BY <1>2 DEF IInv, TablesAgree, UnusedIsClean, Referenced, InHand
<1>5. OneOwner' /\ TakesDiffer' /\ CleanupIsRight'
  BY <1>2, <1>3 DEF IInv, TablesAgree, OneOwner, TakesDiffer, CleanupIsRight, Referenced, InHand, Settled, Active
<1>6. PutsAreSeen'
  BY <1>2, <1>3 DEF IInv, TablesAgree, PutsAreSeen, InHand, Active
<1>7. TakesAreServed' /\ AttachedIsReferenced'
  BY <1>2 DEF IInv, TablesAgree, TakesAreServed, AttachedIsReferenced, Referenced
<1>8. BytesAreAccounted'
  BY <1>2, <1>3 DEF IInv, TypeOK, TablesAgree, BytesAreAccounted
<1> QED BY <1>4, <1>5, <1>6, <1>7, <1>8 DEF TablesAgree

\* An upload that stays active, in another place: StoreBegin, StoreEnd and the start of the PUT.
LEMMA GoesOn ==
  ASSUME IInv, NEW u \in Uploads, NEW row \in UploadRows, row.state \in ActiveStates, u \in Active,
         NEW place \in {"start", "attach", "put"}, place \in {"start", "attach", "put"} => row.actual,
         uploads[u].actual => row.actual, place = "attach" => writer[u] = "end", 
         writer[u] \notin {"none", "put", "abandon", "done"},
         uploads' = [uploads EXCEPT ![u] = row], Goto(u, place),
         flight'[u] = 0 \/ (place = "put" /\ flight'[u] <= PutTime + row.lease),
         \A v \in Uploads \ {u} : flight'[v] = flight[v] /\ (leases[v] = 0 => leases'[v] = 0),
         UNCHANGED <<takes, objects, jobs, stored, worker, revived>>
  PROVE  TablesAgree'
<1>1. /\ uploads'[u] = row /\ \A v \in Uploads \ {u} : uploads'[v] = uploads[v]
      /\ writer'[u] = place /\ \A v \in Uploads \ {u} : writer'[v] = writer[v]
      /\ uploads[u] # None /\ row # None
  BY NoneIsNoRow DEF IInv, TypeOK, Goto, Active
<1>2. /\ \A v \in Uploads : v \in Active' <=> v \in Active
      /\ \A v \in Uploads \ {u} : Settled(v)' <=> Settled(v)
      /\ ~Settled(u) /\ ~Settled(u)' /\ row.state # "attached"
  BY <1>1 DEF Active, ActiveStates, Settled
<1>3. ~InHand(u) /\ jobs[u] = None /\ objects[u] = None
  BY <1>2 DEF IInv, TablesAgree, OneOwner
<1>4. UnusedIsClean'
  BY <1>1 DEF IInv, TablesAgree, UnusedIsClean, Referenced, InHand
<1>5. OneOwner' /\ TakesDiffer' /\ CleanupIsRight'
  BY <1>1, <1>2 DEF IInv, TablesAgree, OneOwner, TakesDiffer, CleanupIsRight, Referenced, InHand
<1>6. PutsAreSeen'
  BY <1>1, <1>2, <1>3 DEF IInv, TablesAgree, PutsAreSeen, InHand
<1>7. TakesAreServed' /\ AttachedIsReferenced'
  BY <1>1 DEF IInv, TablesAgree, TakesAreServed, AttachedIsReferenced, Referenced
<1>8. BytesAreAccounted'
  BY <1>1, <1>3 DEF IInv, TablesAgree, BytesAreAccounted
<1> QED BY <1>4, <1>5, <1>6, <1>7, <1>8 DEF TablesAgree

\* The bytes arrive.
LEMMA PutLandsKeeps ==
  ASSUME IInv, NEW u \in Uploads, PutLands(u)
  PROVE  TablesAgree'
<1>1. /\ stored' = stored \cup {u} /\ flight[u] > 0 /\ flight'[u] = 0 /\ \A v \in Uploads \ {u} : flight'[v] = flight[v]
      /\ writer'[u] = writer[u] \/ (writer[u] = "put" /\ writer'[u] \in {"end", "abandon"})
      /\ \A v \in Uploads \ {u} : writer'[v] = writer[v]
      /\ UNCHANGED <<takes, uploads, objects, jobs, leases, worker, revived>>
  BY DEF IInv, TypeOK, PutLands, Goto, tables
<1>2. uploads[u] # None /\ uploads[u].actual /\ uploads[u].state # "attached" /\ ~InHand(u)
  BY <1>1 DEF IInv, TablesAgree, PutsAreSeen, TypeOK
<1>3. ~Settled(u)
  BY <1>2 DEF Settled
<1>4. UnusedIsClean'
  BY <1>1, <1>2 DEF IInv, TablesAgree, UnusedIsClean, Referenced, InHand
<1>5. OneOwner' /\ TakesDiffer'
  BY <1>1 DEF IInv, TablesAgree, OneOwner, TakesDiffer, Referenced, InHand, Settled, Active
<1>6. CleanupIsRight'
  <2>1. u \notin revived
    BY <1>3 DEF IInv, TablesAgree, OneOwner
  <2>2. \A w \in Workers : worker[w].pc = "forget" => worker[w].key # u
    BY <1>2 DEF InHand, IInv, WorkersFit, WithKey
  <2> QED BY <1>1, <2>1, <2>2 DEF IInv, TablesAgree, CleanupIsRight, Referenced, InHand
<1>7. PutsAreSeen'
  BY <1>1, QuietOutlastsPut DEF IInv, TablesAgree, PutsAreSeen, InHand, Active, TypeOK, JobRows
<1>8. TakesAreServed' /\ AttachedIsReferenced'
  BY <1>1 DEF IInv, TablesAgree, TakesAreServed, AttachedIsReferenced, Referenced
<1>9. BytesAreAccounted'
  BY <1>1, <1>2 DEF IInv, TablesAgree, BytesAreAccounted
<1> QED BY <1>4, <1>5, <1>6, <1>7, <1>8, <1>9 DEF TablesAgree

\* Uploads are given up: Abandon and Expire.
LEMMA LeaveKeeps ==
  ASSUME IInv, NEW gone \in SUBSET Uploads,
         \A v \in gone :
           /\ ~Settled(v)
           /\ IF uploads[v].actual
              THEN /\ uploads'[v] # None /\ uploads'[v].state = "abandoned" /\ uploads'[v].actual
                   /\ jobs'[v] # None /\ flight[v] <= jobs'[v].ready
              ELSE uploads'[v] = None /\ jobs'[v] = jobs[v],
         \A v \in Uploads \ gone : uploads'[v] = uploads[v] /\ jobs'[v] = jobs[v],
         \A v \in Uploads : writer'[v] = writer[v] \/ (writer[v] # "none" /\ writer'[v] = "done"),
         \A v \in Uploads : leases[v] = 0 => leases'[v] = 0,
         \A w \in Workers : worker'[w].todo = worker[w].todo /\ (worker'[w].pc \in WithKey => worker'[w] = worker[w]),
         UNCHANGED <<takes, objects, stored, flight, revived>>
  PROVE  TablesAgree'
<1>1. /\ \A v \in Uploads : Settled(v) => Settled(v)' /\ v \notin gone
      /\ \A v \in Uploads : v \in Active' => v \in Active /\ v \notin gone
  BY DEF Settled, Active, ActiveStates
<1>2. \A v \in Uploads : InHand(v)' = InHand(v) /\ Referenced(v)' = Referenced(v)
  BY DEF InHand, Referenced
<1>3. UnusedIsClean'
  <2>1. \A v \in Uploads : writer[v] = "none" => v \notin gone
    BY <1>1 DEF IInv, TablesAgree, UnusedIsClean, Settled
  <2>2. ASSUME NEW v \in Uploads, writer'[v] = "none"
        PROVE  /\ uploads'[v] = None /\ objects'[v] = None /\ jobs'[v] = None /\ leases'[v] = 0
               /\ v \notin stored' /\ v \notin revived' /\ ~Referenced(v)' /\ ~InHand(v)'
    <3>1. writer[v] = "none" /\ v \notin gone
      BY <2>1, <2>2
    <3> QED BY <1>2, <3>1 DEF IInv, TablesAgree, UnusedIsClean
  <2> QED BY <2>2 DEF UnusedIsClean
<1>4. OneOwner' /\ TakesDiffer'
  BY <1>1, <1>2 DEF IInv, TablesAgree, OneOwner, TakesDiffer
<1>5. CleanupIsRight'
  <2>1. \A v \in gone : ~Referenced(v)
    BY <1>1 DEF IInv, TablesAgree, OneOwner
  <2>2. \A w \in Workers : worker'[w].pc \in {"delete", "forget", "promote", "recheck", "requeue"} => worker'[w] = worker[w]
    BY DEF WithKey
  <2>3. \A w \in Workers : /\ worker'[w].pc \in {"delete", "forget"} => ~Referenced(worker'[w].key)
                           /\ worker'[w].pc \in {"promote", "recheck", "requeue"} => worker'[w].key \in revived
                           /\ worker'[w].pc = "forget" => worker'[w].key \notin stored
    BY <2>2 DEF IInv, TablesAgree, CleanupIsRight
  <2>4. \A v \in Uploads : (jobs'[v] # None \/ InHand(v)) /\ v \notin revived => ~Referenced(v)
    BY <2>1 DEF IInv, TablesAgree, CleanupIsRight
  <2>5. \A v \in stored \cap revived : objects[v] # None
    BY DEF IInv, TablesAgree, CleanupIsRight
  <2> QED BY <1>2, <2>3, <2>4, <2>5 DEF CleanupIsRight, Referenced
<1>6. PutsAreSeen'
  <2>1. \A v \in gone : flight[v] > 0 => uploads[v].actual
    BY DEF IInv, TablesAgree, PutsAreSeen
  <2>2. ASSUME NEW v \in Uploads
        PROVE  /\ writer'[v] \in {"end", "attach"} /\ v \in Active' => v \in stored'
               /\ writer'[v] \in {"start", "put", "end", "attach"} /\ v \in Active' => uploads'[v].actual
               /\ writer'[v] \notin {"put", "abandon", "done"} => flight'[v] = 0
               /\ flight'[v] > 0 => /\ uploads'[v] # None /\ uploads'[v].actual /\ uploads'[v].state # "attached"
                                    /\ v \in Active' => flight'[v] <= PutTime + uploads'[v].lease
               /\ jobs'[v] # None => flight'[v] <= jobs'[v].ready
               /\ InHand(v)' => flight'[v] = 0
    <3>1. CASE v \in gone
      <4>1. v \notin Active'
        BY <1>1, <3>1
      <4>2. jobs'[v] # None => flight[v] <= jobs'[v].ready
        BY <3>1 DEF IInv, TablesAgree, PutsAreSeen
      <4>3. flight[v] > 0 => uploads'[v] # None /\ uploads'[v].actual /\ uploads'[v].state # "attached"
        BY <2>1, <3>1
      <4>4. writer'[v] \notin {"put", "abandon", "done"} => flight[v] = 0
        BY DEF IInv, TablesAgree, PutsAreSeen
      <4> QED BY <1>2, <4>1, <4>2, <4>3, <4>4 DEF IInv, TablesAgree, PutsAreSeen
    <3>2. CASE v \notin gone
      <4>1. v \in Active' => v \in Active
        BY <1>1
      <4> QED BY <1>2, <3>2, <4>1 DEF IInv, TablesAgree, PutsAreSeen
    <3> QED BY <3>1, <3>2
  <2> QED BY <2>2 DEF PutsAreSeen
<1>7. TakesAreServed' /\ AttachedIsReferenced'
  BY <1>2 DEF IInv, TablesAgree, TakesAreServed, AttachedIsReferenced
<1>8. BytesAreAccounted'
  <2>1. \A v \in gone : objects[v] = None
    BY <1>1 DEF IInv, TablesAgree, OneOwner
  <2> QED BY <2>1 DEF IInv, TypeOK, TablesAgree, BytesAreAccounted
<1> QED BY <1>3, <1>4, <1>5, <1>6, <1>7, <1>8 DEF TablesAgree

\* The writer abandons its upload.
LEMMA AbandonKeeps ==
  ASSUME IInv, NEW u \in Uploads, Abandon(u)
  PROVE  TablesAgree'
<1> DEFINE gone == IF uploads[u] # None /\ uploads[u].state # "attached" THEN {u} ELSE {}
           row == [uploads[u] EXCEPT !.state = "abandoned"]
           job == [Queued(u, Quiet, uploads[u].size) EXCEPT !.ready = Quiet]
<1>1. /\ \A v \in Uploads : writer'[v] = writer[v] \/ (writer[v] # "none" /\ writer'[v] = "done")
      /\ \A v \in Uploads : leases[v] = 0 => leases'[v] = 0
      /\ UNCHANGED <<takes, objects, stored, flight, worker, revived>>
  <2>1. "done" \in Places /\ writer[u] = "abandon" /\ Goto(u, "done")
    BY DEF Places, Abandon
  <2>2. writer'[u] = "done" /\ \A v \in Uploads \ {u} : writer'[v] = writer[v]
    BY <2>1, GotoPlace DEF IInv
  <2>3. \A v \in Uploads : leases[v] = 0 => leases'[v] = 0
    BY DEF IInv, TypeOK, Abandon
  <2> QED BY <2>1, <2>2, <2>3 DEF Abandon
<1>2. \A v \in Uploads \ gone : uploads'[v] = uploads[v] /\ jobs'[v] = jobs[v]
  BY DEF IInv, TypeOK, Abandon
<1>3. ASSUME NEW v \in gone
      PROVE  /\ ~Settled(v)
             /\ IF uploads[v].actual
                THEN /\ uploads'[v] # None /\ uploads'[v].state = "abandoned" /\ uploads'[v].actual
                     /\ jobs'[v] # None /\ flight[v] <= jobs'[v].ready
                ELSE uploads'[v] = None /\ jobs'[v] = jobs[v]
  <2>1. v = u /\ ~Settled(u) /\ uploads[u] \in UploadRows
    BY DEF Settled, IInv, TypeOK
  <2>2. row \in UploadRows /\ row.state = "abandoned" /\ row.actual = uploads[u].actual
    BY <2>1 DEF UploadRows, UploadStates
  <2>3. job \in JobRows /\ job.ready = Quiet
    <3>1. uploads[u].size \in 1 .. MaxObject
      BY <2>1 DEF UploadRows
    <3>2. Quiet \in 0 .. Later(Quiet, 1)
      BY QuietOutlastsPut DEF Later
    <3>3. Queued(u, Quiet, uploads[u].size) \in JobRows
      BY <3>1, <3>2, QueuedRow DEF IInv
    <3> QED BY <3>2, <3>3 DEF JobRows
  <2>4. flight[u] <= Quiet
    BY QuietOutlastsPut DEF IInv, TypeOK
  <2> HIDE DEF row, job
  <2>5. uploads'[u] = (IF uploads[u].actual THEN row ELSE None) /\ jobs'[u] = (IF uploads[u].actual THEN job ELSE jobs[u])
    BY <2>1 DEF Abandon, IInv, TypeOK, row, job
  <2> QED BY <2>1, <2>2, <2>3, <2>4, <2>5, NoneIsNoRow
<1>4. gone \in SUBSET Uploads
  OBVIOUS
<1> HIDE DEF gone
<1> QED BY <1>1, <1>2, <1>3, <1>4, LeaveKeeps

\* A pass abandons the uploads whose lease is over.
LEMMA ExpireKeeps ==
  ASSUME IInv, NEW w \in Workers, Expire(w)
  PROVE  TablesAgree'
<1> DEFINE gone == {u \in Active : uploads[u].lease <= 0}
<1>1. gone \in SUBSET Uploads
  BY DEF Active
<1>2. /\ \A v \in Workers : worker'[v].todo = worker[v].todo /\ (worker'[v].pc \in WithKey => worker'[v] = worker[v])
  <2>1. "claim" \in Steps /\ "claim" \notin WithKey
    BY DEF Steps, WithKey
  <2> QED BY <2>1, WorkingRow DEF IInv, Expire
<1>3. UNCHANGED <<takes, objects, leases, stored, flight, writer, revived>>
  BY DEF Expire
<1>4. \A v \in Uploads \ gone : uploads'[v] = uploads[v] /\ jobs'[v] = jobs[v]
  BY DEF Expire
<1>5. ASSUME NEW v \in gone
      PROVE  /\ ~Settled(v)
             /\ IF uploads[v].actual
                THEN /\ uploads'[v] # None /\ uploads'[v].state = "abandoned" /\ uploads'[v].actual
                     /\ jobs'[v] # None /\ flight[v] <= jobs'[v].ready
                ELSE uploads'[v] = None /\ jobs'[v] = jobs[v]
  <2> DEFINE row == [uploads[v] EXCEPT !.state = "abandoned"]
             ready == Later(0, Quiet + uploads[v].lease)
             job == [ready |-> ready, owner |-> None, claim |-> 0, size |-> uploads[v].size]
  <2>1. v \in Uploads /\ ~Settled(v) /\ uploads[v] \in UploadRows /\ uploads[v].lease <= 0 /\ v \in Active
    BY DEF Settled, Active, ActiveStates, IInv, TypeOK
  <2>2. row \in UploadRows /\ row.state = "abandoned" /\ row.actual = uploads[v].actual
    BY <2>1 DEF UploadRows, UploadStates
  <2>3. jobs[v] = None
    BY <2>1 DEF IInv, TablesAgree, OneOwner
  <2>4. uploads[v].size \in 1 .. MaxObject /\ uploads[v].lease \in -Quiet .. Lease
    BY <2>1 DEF UploadRows
  <2>5. job \in JobRows /\ job.ready = ready /\ ready \in Nat /\ ready >= Quiet + uploads[v].lease
    BY <2>1, <2>4, QuietOutlastsPut DEF JobRows, Later
  <2>6. flight[v] > 0 => flight[v] <= PutTime + uploads[v].lease
    BY <2>1 DEF IInv, TablesAgree, PutsAreSeen
  <2>7. flight[v] <= ready
    BY <2>1, <2>4, <2>5, <2>6, QuietOutlastsPut DEF IInv, TypeOK
  <2>8. uploads'[v] = (IF uploads[v].actual THEN row ELSE None) /\ jobs'[v] = (IF uploads[v].actual THEN job ELSE jobs[v])
    BY <2>1, <2>3 DEF Expire, Queued
  <2> HIDE DEF row, job, ready
  <2> QED BY <2>1, <2>2, <2>5, <2>7, <2>8, NoneIsNoRow
<1> HIDE DEF gone
<1> QED BY <1>1, <1>2, <1>3, <1>4, <1>5, LeaveKeeps

\* The key gets into the record, and the one it replaces a job.
LEMMA AttachKeeps ==
  ASSUME IInv, NEW u \in Uploads, writer[u] = "attach", Owned(u, {"object_ready"}), Attached(u), Goto(u, "answer"),
         UNCHANGED <<stored, flight, worker, revived>>
  PROVE  TablesAgree'
<1> DEFINE t == uploads[u].take
           row == [uploads[u] EXCEPT !.state = "attached"]
<1>1. u \in Active /\ uploads[u] \in UploadRows /\ t \in Takes
  BY DEF Owned, Active, ActiveStates, IInv, TypeOK, UploadRows
<1>2. /\ ~Settled(u) /\ objects[u] = None /\ jobs[u] = None /\ ~InHand(u) /\ ~Referenced(u) /\ u \notin revived
      /\ u \in stored /\ uploads[u].actual /\ flight[u] = 0
  <2>1. ~Settled(u)
    BY <1>1 DEF Settled, Active, ActiveStates
  <2> QED BY <1>1, <2>1 DEF IInv, TablesAgree, OneOwner, PutsAreSeen
<1>3. /\ writer'[u] = "answer" /\ \A v \in Uploads \ {u} : writer'[v] = writer[v]
  BY DEF Goto, IInv, TypeOK
<1>4. /\ uploads'[u] = row /\ row # None /\ row.state = "attached" /\ row.actual
      /\ \A v \in Uploads \ {u} : uploads'[v] = uploads[v]
  <2>1. row \in UploadRows /\ row.state = "attached" /\ row.actual
    BY <1>1, <1>2 DEF UploadRows, UploadStates
  <2>2. row # None
    BY <2>1, NoneIsNoRow
  <2>3. uploads' = [uploads EXCEPT ![u] = row]
    BY <1>1 DEF Attached, IInv, TypeOK
  <2> HIDE DEF row
  <2> QED BY <2>1, <2>2, <2>3 DEF IInv, TypeOK
<1> HIDE DEF row
<1>5. takes'[t] = u /\ \A s \in Takes \ {t} : takes'[s] = takes[s] /\ takes'[s] # u
  BY <1>1, <1>2 DEF Attached, IInv, TypeOK, Referenced
<1>6. \A v \in Uploads \ {u} : Referenced(v)' => Referenced(v) /\ takes[t] # v
  <2>1. ASSUME NEW v \in Uploads \ {u}, Referenced(v)' PROVE Referenced(v) /\ takes[t] # v
    <3>1. PICK s \in Takes : takes'[s] = v
      BY <2>1 DEF Referenced
    <3>2. s # t /\ takes[s] = v /\ v # None
      BY <1>5, <3>1, NoneIsNoUpload
    <3>3. takes[t] # v
      BY <1>1, <3>2 DEF IInv, TablesAgree, TakesDiffer
    <3> QED BY <3>2, <3>3 DEF Referenced
  <2> QED BY <2>1
<1>7. ASSUME NEW k \in Replaced(u)
      PROVE  k \in Uploads /\ k # u /\ takes[t] = k /\ objects[k] # None /\ Referenced(k) /\ ~Referenced(k)' /\ Settled(k)
  <2>1. k \in Uploads /\ takes[t] = k /\ objects[k] # None /\ k # u
    BY <1>2 DEF Replaced
  <2>2. Referenced(k) /\ ~Referenced(k)'
    BY <1>1, <1>6, <2>1 DEF Referenced
  <2>3. Settled(k)
    BY <2>1 DEF IInv, TablesAgree, OneOwner
  <2> QED BY <2>1, <2>2, <2>3
<1>8. /\ objects'[u] # None /\ objects'[u].state = "attached"
      /\ \A v \in Uploads \ {u} : v \notin Replaced(u) => objects'[v] = objects[v]
      /\ \A v \in Replaced(u) : objects'[v] # None /\ objects'[v].state = "cleanup_pending"
  <2>1. [state |-> "attached", size |-> uploads[u].size] \in ObjectRows
    BY <1>1 DEF UploadRows, ObjectRows
  <2>2. ASSUME NEW k \in Replaced(u)
        PROVE  [objects[k] EXCEPT !.state = "cleanup_pending"] \in ObjectRows
               /\ [objects[k] EXCEPT !.state = "cleanup_pending"].state = "cleanup_pending"
    <3>1. objects[k] \in ObjectRows
      BY <1>7 DEF IInv, TypeOK
    <3> QED BY <3>1 DEF ObjectRows
  <2>3. objects'[u] = [state |-> "attached", size |-> uploads[u].size]
    BY DEF Attached
  <2>4. ASSUME NEW k \in Replaced(u) PROVE objects'[k] = [objects[k] EXCEPT !.state = "cleanup_pending"]
    BY <1>7 DEF Attached
  <2>5. ASSUME NEW v \in Uploads \ {u}, v \notin Replaced(u) PROVE objects'[v] = objects[v]
    BY <2>5 DEF Attached
  <2>6. objects'[u] # None /\ objects'[u].state = "attached"
    BY <2>1, <2>3, NoneIsNoRow
  <2>7. ASSUME NEW k \in Replaced(u) PROVE objects'[k] # None /\ objects'[k].state = "cleanup_pending"
    BY <2>2, <2>4, NoneIsNoRow
  <2> QED BY <2>5, <2>6, <2>7
<1>9. \A v \in Uploads : v \notin Replaced(u) => jobs'[v] = jobs[v]
  BY DEF Attached
<1>10. ASSUME NEW k \in Replaced(u) PROVE jobs'[k] # None /\ flight[k] = 0 /\ flight[k] <= jobs'[k].ready
  <2>1. flight[k] = 0
    BY <1>7 DEF IInv, TablesAgree, PutsAreSeen, Settled, TypeOK
  <2>2. objects[k].size \in 1 .. MaxObject
    BY <1>7 DEF IInv, TypeOK, ObjectRows
  <2>3. 0 \in 0 .. Later(Quiet, 1)
    BY QuietOutlastsPut DEF Later
  <2>4. Queued(k, 0, objects[k].size) \in JobRows
    BY <1>7, <2>2, <2>3, QueuedRow DEF IInv
  <2>5. jobs'[k] = Queued(k, 0, objects[k].size)
    BY <1>7 DEF Attached
  <2> QED BY <2>1, <2>4, <2>5, NoneIsNoRow DEF JobRows
<1>11. \A v \in Uploads : leases[v] = 0 => leases'[v] = 0
  BY DEF Attached, IInv, TypeOK
<1>12. \A v \in Uploads : /\ InHand(v)' = InHand(v)
                          /\ v \in Active' <=> v \in Active /\ v # u
                          /\ v # u => (Settled(v)' <=> Settled(v))
  BY <1>4 DEF InHand, Active, ActiveStates, Settled
<1>13. Settled(u)' /\ Referenced(u)'
  BY <1>1, <1>4, <1>5 DEF Settled, Referenced
<1> HIDE DEF t
<1>14. UnusedIsClean'
  <2>1. ASSUME NEW v \in Uploads, writer'[v] = "none"
        PROVE  /\ uploads'[v] = None /\ objects'[v] = None /\ jobs'[v] = None /\ leases'[v] = 0
               /\ v \notin stored' /\ v \notin revived' /\ ~Referenced(v)' /\ ~InHand(v)'
    <3>1. v # u /\ writer[v] = "none"
      BY <1>3, <2>1
    <3>2. /\ uploads[v] = None /\ objects[v] = None /\ jobs[v] = None /\ leases[v] = 0
          /\ v \notin stored /\ v \notin revived /\ ~Referenced(v) /\ ~InHand(v)
      BY <3>1 DEF IInv, TablesAgree, UnusedIsClean
    <3>3. v \notin Replaced(u)
      BY <1>7, <3>2
    <3> QED BY <1>4, <1>6, <1>8, <1>9, <1>11, <1>12, <3>1, <3>2, <3>3
  <2> QED BY <2>1 DEF UnusedIsClean
<1>15. OneOwner'
  <2>1. ASSUME NEW v \in Uploads
        PROVE  /\ objects'[v] # None \/ Referenced(v)' \/ v \in revived' => Settled(v)'
               /\ jobs'[v] # None \/ InHand(v)' => v \notin Active'
    <3>1. CASE v = u
      BY <1>12, <1>13, <3>1
    <3>2. CASE v \in Replaced(u)
      <4>1. Settled(v)' /\ v \notin Active'
        BY <1>7, <1>12, <3>2 DEF Settled, Active, ActiveStates
      <4> QED BY <4>1
    <3>3. CASE v # u /\ v \notin Replaced(u)
      BY <1>6, <1>8, <1>9, <1>12, <3>3 DEF IInv, TablesAgree, OneOwner
    <3> QED BY <3>1, <3>2, <3>3
  <2> QED BY <2>1 DEF OneOwner
<1>16. TakesDiffer'
  BY <1>1, <1>5 DEF IInv, TablesAgree, TakesDiffer
<1>17. CleanupIsRight'
  <2>1. ASSUME NEW w \in Workers
        PROVE  /\ worker'[w].pc \in {"delete", "forget"} => \A s \in Takes : takes'[s] # worker'[w].key
               /\ worker'[w].pc \in {"promote", "recheck", "requeue"} => worker'[w].key \in revived'
               /\ worker'[w].pc = "forget" => worker'[w].key \notin stored'
    <3>1. worker[w].pc \in {"delete", "forget"} => worker[w].key \in Uploads /\ worker[w].key # u
      BY <1>2 DEF IInv, WorkersFit, WithKey, InHand, TypeOK, PassRows
    <3>2. worker[w].pc \in {"delete", "forget"} => ~Referenced(worker[w].key)
      BY DEF IInv, TablesAgree, CleanupIsRight
    <3>3. worker[w].pc \in {"delete", "forget"} => \A s \in Takes : takes'[s] # worker[w].key
      BY <1>5, <3>1, <3>2 DEF Referenced
    <3> QED BY <3>3 DEF IInv, TablesAgree, CleanupIsRight
  <2>2. ASSUME NEW v \in Uploads, jobs'[v] # None \/ InHand(v)', v \notin revived PROVE ~Referenced(v)'
    <3>1. CASE v \in Replaced(u)
      BY <1>7, <3>1
    <3>2. CASE v \notin Replaced(u)
      <4>1. jobs[v] # None \/ InHand(v)
        BY <1>9, <1>12, <2>2, <3>2
      <4>2. v # u /\ ~Referenced(v)
        BY <1>2, <2>2, <4>1 DEF IInv, TablesAgree, CleanupIsRight
      <4> QED BY <1>6, <4>2
    <3> QED BY <3>1, <3>2
  <2>3. ASSUME NEW v \in stored \cap revived PROVE objects'[v] # None
    <3>1. v \in Uploads /\ v # u /\ objects[v] # None
      BY <1>2 DEF IInv, TypeOK, TablesAgree, CleanupIsRight
    <3> QED BY <1>8, <3>1
  <2> QED BY <2>1, <2>2, <2>3 DEF CleanupIsRight, Referenced
<1>18. PutsAreSeen'
  <2>1. ASSUME NEW v \in Uploads
        PROVE  /\ writer'[v] \in {"end", "attach"} /\ v \in Active' => v \in stored'
               /\ writer'[v] \in {"start", "put", "end", "attach"} /\ v \in Active' => uploads'[v].actual
               /\ writer'[v] \notin {"put", "abandon", "done"} => flight'[v] = 0
               /\ flight'[v] > 0 => /\ uploads'[v] # None /\ uploads'[v].actual /\ uploads'[v].state # "attached"
                                    /\ v \in Active' => flight'[v] <= PutTime + uploads'[v].lease
               /\ jobs'[v] # None => flight'[v] <= jobs'[v].ready
               /\ InHand(v)' => flight'[v] = 0
    <3>1. CASE v = u
      <4>1. v \notin Replaced(u) /\ jobs'[v] = None /\ v \notin Active' /\ flight'[v] = 0
        BY <1>2, <1>7, <1>9, <1>12, <3>1
      <4> QED BY <4>1
    <3>2. CASE v # u
      <4>1. jobs'[v] # None => flight[v] <= jobs'[v].ready
        BY <1>9, <1>10 DEF IInv, TablesAgree, PutsAreSeen
      <4> QED BY <1>3, <1>4, <1>12, <3>2, <4>1 DEF IInv, TablesAgree, PutsAreSeen
    <3> QED BY <3>1, <3>2
  <2> QED BY <2>1 DEF PutsAreSeen
<1>19. TakesAreServed'
  <2>1. ASSUME NEW s \in Takes, takes'[s] # None
        PROVE  /\ takes'[s] \in stored'
               /\ takes'[s] \in revived' \/ (objects'[takes'[s]] # None /\ objects'[takes'[s]].state = "attached")
    <3>1. CASE s = t
      BY <1>2, <1>5, <1>8, <3>1
    <3>2. CASE s # t
      <4>1. PICK k \in Uploads : k = takes[s] /\ k = takes'[s] /\ k # u
        BY <1>5, <2>1, <3>2 DEF IInv, TypeOK
      <4>2. Referenced(k)'
        BY <4>1 DEF Referenced
      <4>3. k \notin Replaced(u)
        BY <1>7, <4>2
      <4>4. k \in stored /\ (k \in revived \/ (objects[k] # None /\ objects[k].state = "attached"))
        BY <2>1, <4>1 DEF IInv, TablesAgree, TakesAreServed
      <4>5. objects'[k] = objects[k]
        BY <1>8, <4>1, <4>3
      <4> QED BY <4>1, <4>4, <4>5
    <3> QED BY <3>1, <3>2
  <2> QED BY <2>1 DEF TakesAreServed
<1>20. AttachedIsReferenced'
  <2>1. ASSUME revived = {}, NEW v \in Uploads, objects'[v] # None, objects'[v].state = "attached"
        PROVE  Referenced(v)'
    <3>1. CASE v = u
      BY <1>13, <3>1
    <3>2. CASE v # u
      <4>1. v \notin Replaced(u)
        BY <1>8, <2>1
      <4>2. objects'[v] = objects[v]
        BY <1>8, <3>2, <4>1
      <4>3. PICK s \in Takes : takes[s] = v
        BY <2>1, <4>2 DEF IInv, TablesAgree, AttachedIsReferenced, Referenced
      <4>4. s # t
        BY <2>1, <4>1, <4>2, <4>3 DEF Replaced, t
      <4> QED BY <1>5, <4>3, <4>4 DEF Referenced
    <3> QED BY <3>1, <3>2
  <2> QED BY <2>1 DEF AttachedIsReferenced
<1>21. BytesAreAccounted'
  <2>1. ASSUME NEW v \in stored PROVE objects'[v] # None \/ (uploads'[v] # None /\ uploads'[v].actual)
    BY <1>4, <1>8 DEF IInv, TypeOK, TablesAgree, BytesAreAccounted
  <2> QED BY <2>1 DEF BytesAreAccounted
<1> QED BY <1>14, <1>15, <1>16, <1>17, <1>18, <1>19, <1>20, <1>21 DEF TablesAgree

-----------------------------------------------------------------------------
(* The steps of a recovery pass                                             *)

\* Every step of a recovery pass but Expire.
LEMMA PassKeeps ==
  ASSUME IInv, NEW w \in Workers, NEW row, worker' = [worker EXCEPT ![w] = row],
         row.pc \in {"delete", "forget"} => \A t \in Takes : takes[t] # row.key,
         row.pc \in {"promote", "recheck", "requeue"} => row.key \in revived,
         row.pc = "forget" => row.key \notin stored',
         \A v \in row.todo : v \in Uploads /\ (jobs[v] # None \/ InHand(v)) /\ flight[v] = 0,
         \A v \in Uploads : uploads'[v] = uploads[v] \/ (uploads'[v] = None /\ v \notin Active /\ flight[v] = 0),
         \A v \in stored' : uploads'[v] = uploads[v] \/ objects'[v] # None,
         \A v \in stored' : objects[v] # None => objects'[v] # None,
         \A v \in Uploads : objects'[v] # None => objects[v] # None \/ (Settled(v)' /\ writer[v] # "none"),
         \A v \in Uploads : v \in revived \/ ~Referenced(v) \/ objects'[v] = objects[v],
         \A v \in Uploads : objects'[v] # None /\ objects'[v].state = "attached"
                           => v \in revived \/ objects'[v] = objects[v],
         \A v \in Uploads : jobs'[v] # None =>
                /\ v \in revived \/ ~Referenced(v)
                /\ jobs[v] # None \/ (Settled(v) /\ writer[v] # "none")
                /\ flight[v] <= jobs'[v].ready,
         stored' \subseteq stored, \A v \in stored : v \in stored' \/ (~Referenced(v) /\ v \notin Active),
         UNCHANGED <<takes, leases, flight, writer, revived>>
  PROVE  TablesAgree'
<1>1. \A v \in Uploads : Referenced(v)' = Referenced(v)
  BY DEF Referenced
<1>2. \A v \in Uploads : /\ Settled(v) => Settled(v)'
                         /\ v \in Active' <=> v \in Active
  BY DEF Settled, Active, ActiveStates
<1>3. ASSUME NEW v \in Uploads, InHand(v)' PROVE jobs[v] # None \/ InHand(v)
  BY <1>3 DEF InHand, IInv, TypeOK
<1>4. ASSUME NEW v \in Uploads, InHand(v)' PROVE flight[v] = 0
  <2>1. PICK x \in Workers : v \in worker'[x].todo
    BY <1>4 DEF InHand
  <2>2. CASE x = w
    BY <2>1, <2>2 DEF IInv, TypeOK
  <2>3. CASE x # w
    BY <2>1, <2>3 DEF IInv, TypeOK, InHand, TablesAgree, PutsAreSeen
  <2> QED BY <2>2, <2>3
<1>5. UnusedIsClean'
  <2>1. ASSUME NEW v \in Uploads, writer'[v] = "none"
        PROVE  /\ uploads'[v] = None /\ objects'[v] = None /\ jobs'[v] = None /\ leases'[v] = 0
               /\ v \notin stored' /\ v \notin revived' /\ ~Referenced(v)' /\ ~InHand(v)'
    <3>1. /\ writer[v] = "none" /\ uploads[v] = None /\ objects[v] = None /\ jobs[v] = None /\ leases[v] = 0
          /\ v \notin stored /\ v \notin revived /\ ~Referenced(v) /\ ~InHand(v)
      BY <2>1 DEF IInv, TablesAgree, UnusedIsClean
    <3> QED BY <1>1, <1>3, <3>1
  <2> QED BY <2>1 DEF UnusedIsClean
<1>6. OneOwner'
  <2>1. ASSUME NEW v \in Uploads
        PROVE  /\ objects'[v] # None \/ Referenced(v)' \/ v \in revived' => Settled(v)'
               /\ jobs'[v] # None \/ InHand(v)' => v \notin Active'
    <3>1. objects[v] # None \/ Referenced(v) \/ v \in revived => Settled(v)
      BY DEF IInv, TablesAgree, OneOwner
    <3>2. jobs[v] # None \/ InHand(v) => v \notin Active
      BY DEF IInv, TablesAgree, OneOwner
    <3>3. Settled(v) => v \notin Active
      BY DEF Settled, Active, ActiveStates
    <3>4. jobs'[v] # None => v \notin Active'
      BY <1>2, <3>2, <3>3
    <3> QED BY <1>1, <1>2, <1>3, <3>1, <3>2, <3>4
  <2> QED BY <2>1 DEF OneOwner
<1>7. TakesDiffer'
  BY DEF IInv, TablesAgree, TakesDiffer
<1>8. CleanupIsRight'
  <2>1. ASSUME NEW x \in Workers
        PROVE  /\ worker'[x].pc \in {"delete", "forget"} => \A t \in Takes : takes'[t] # worker'[x].key
               /\ worker'[x].pc \in {"promote", "recheck", "requeue"} => worker'[x].key \in revived'
               /\ worker'[x].pc = "forget" => worker'[x].key \notin stored'
    <3>1. CASE x = w
      BY <3>1 DEF IInv, TypeOK
    <3>2. CASE x # w
      BY <3>2 DEF IInv, TypeOK, TablesAgree, CleanupIsRight, Referenced
    <3> QED BY <3>1, <3>2
  <2>2. ASSUME NEW v \in Uploads, jobs'[v] # None \/ InHand(v)', v \notin revived PROVE ~Referenced(v)'
    BY <1>1, <1>3, <2>2 DEF IInv, TablesAgree, CleanupIsRight
  <2>3. ASSUME NEW v \in stored' \cap revived PROVE objects'[v] # None
    BY DEF IInv, TablesAgree, CleanupIsRight
  <2> QED BY <2>1, <2>2, <2>3 DEF CleanupIsRight, Referenced
<1>9. PutsAreSeen'
  <2>1. ASSUME NEW v \in Uploads
        PROVE  /\ writer'[v] \in {"end", "attach"} /\ v \in Active' => v \in stored'
               /\ writer'[v] \in {"start", "put", "end", "attach"} /\ v \in Active' => uploads'[v].actual
               /\ writer'[v] \notin {"put", "abandon", "done"} => flight'[v] = 0
               /\ flight'[v] > 0 => /\ uploads'[v] # None /\ uploads'[v].actual /\ uploads'[v].state # "attached"
                                    /\ v \in Active' => flight'[v] <= PutTime + uploads'[v].lease
               /\ jobs'[v] # None => flight'[v] <= jobs'[v].ready
               /\ InHand(v)' => flight'[v] = 0
    <3>1. v \in Active' \/ flight[v] > 0 => uploads'[v] = uploads[v]
      BY <1>2
    <3> QED BY <1>2, <1>4, <3>1 DEF IInv, TablesAgree, PutsAreSeen
  <2> QED BY <2>1 DEF PutsAreSeen
<1>10. TakesAreServed'
  <2>1. ASSUME NEW t \in Takes, takes[t] # None
        PROVE  /\ takes[t] \in stored'
               /\ takes[t] \in revived \/ (objects'[takes[t]] # None /\ objects'[takes[t]].state = "attached")
    <3>1. PICK v \in Uploads : v = takes[t]
      BY <2>1 DEF IInv, TypeOK
    <3>2. Referenced(v)
      BY <3>1 DEF Referenced
    <3>3. v \in stored /\ (v \in revived \/ (objects[v] # None /\ objects[v].state = "attached"))
      BY <2>1, <3>1 DEF IInv, TablesAgree, TakesAreServed
    <3> QED BY <3>1, <3>2, <3>3
  <2> QED BY <2>1 DEF TakesAreServed
<1>11. AttachedIsReferenced'
  BY <1>1 DEF IInv, TablesAgree, AttachedIsReferenced
<1>12. BytesAreAccounted'
  BY DEF IInv, TablesAgree, BytesAreAccounted
<1> QED BY <1>5, <1>6, <1>7, <1>8, <1>9, <1>10, <1>11, <1>12 DEF TablesAgree

\* What is known of a key that a pass has in hand.
LEMMA InHandFacts ==
  ASSUME IInv, NEW u \in Uploads, InHand(u)
  PROVE  /\ u \notin Active /\ flight[u] = 0 /\ writer[u] # "none"
         /\ u \in revived \/ ~Referenced(u)
BY DEF IInv, TablesAgree, OneOwner, PutsAreSeen, UnusedIsClean, CleanupIsRight

\* The key a pass works on is one of those it claimed.
LEMMA KeyInHand ==
  ASSUME IInv, NEW w \in Workers, worker[w].pc \in WithKey
  PROVE  /\ worker[w].key \in worker[w].todo /\ worker[w].key \in Uploads /\ InHand(worker[w].key)
BY DEF IInv, WorkersFit, TypeOK, PassRows, InHand

\* The jobs as they are.
LEMMA JobsAsTheyAre ==
  ASSUME IInv, NEW u \in Uploads, jobs[u] # None
  PROVE  /\ u \in revived \/ ~Referenced(u)
         /\ flight[u] <= jobs[u].ready /\ jobs[u] \in JobRows
BY DEF IInv, TypeOK, TablesAgree, PutsAreSeen, CleanupIsRight

\* A pass that changes no table.
LEMMA PassOnly ==
  ASSUME IInv, NEW w \in Workers, NEW row, worker' = [worker EXCEPT ![w] = row],
         row.pc \in {"delete", "forget"} => \A t \in Takes : takes[t] # row.key,
         row.pc \in {"promote", "recheck", "requeue"} => row.key \in revived,
         row.pc # "forget", row.todo \subseteq worker[w].todo,
         UNCHANGED <<tables, stored, flight, writer, revived>>
  PROVE  TablesAgree'
<1>1. \A v \in row.todo : v \in Uploads /\ InHand(v) /\ flight[v] = 0
  BY InHandFacts DEF IInv, TypeOK, PassRows, InHand
<1>2. \A v \in Uploads : jobs'[v] # None => (v \in revived \/ ~Referenced(v)) /\ flight[v] <= jobs'[v].ready
  BY JobsAsTheyAre DEF tables
<1> QED BY <1>1, <1>2, PassKeeps DEF tables

\* The job u is left, done or not.
LEMMA AfterFacts ==
  ASSUME IInv, NEW w \in Workers, NEW u
  PROVE  /\ After(w, u).pc \notin WithKey /\ After(w, u).todo \subseteq worker[w].todo
         /\ \A v \in After(w, u).todo : v \in Uploads /\ InHand(v) /\ flight[v] = 0
<1>1. After(w, u).pc \notin WithKey /\ After(w, u).todo \subseteq worker[w].todo
  BY AfterRow DEF IInv, Resting, WithKey
<1>2. \A v \in worker[w].todo : v \in Uploads /\ InHand(v)
  BY DEF IInv, TypeOK, PassRows, InHand
<1> QED BY <1>1, <1>2, InHandFacts

\* A pass that goes on to key u in step pc.
LEMMA WorkingFacts ==
  ASSUME IInv, NEW w \in Workers, NEW pc \in Steps, NEW u \in Uploads, Working(w, pc, u)
  PROVE  \E row : /\ worker' = [worker EXCEPT ![w] = row] /\ row.pc = pc /\ row.key = u
                 /\ row.todo = worker[w].todo
<1>1. worker' = [worker EXCEPT ![w] = worker'[w]]
  BY WorkingRow DEF IInv, TypeOK
<1> QED BY <1>1, WorkingRow DEF IInv

\* A pass claims jobs that are ready: no PUT of their keys can still arrive.
LEMMA ClaimKeeps ==
  ASSUME IInv, NEW w \in Workers, Claim(w)
  PROVE  TablesAgree'
<1> DEFINE row == IF Claimable = {} THEN Resting
                  ELSE [pc |-> "work", todo |-> Claimable, key |-> None,
                        sizes |-> [u \in Uploads |-> IF u \in Claimable THEN jobs[u].size ELSE 0]]
<1>1. worker' = [worker EXCEPT ![w] = row]
  BY DEF Claim
<1>2. row.pc \notin WithKey /\ row.todo \subseteq Claimable
  BY DEF Resting, WithKey
<1>3. ASSUME NEW v \in Claimable PROVE v \in Uploads /\ jobs[v] # None /\ flight[v] = 0
  BY JobsAsTheyAre DEF Claimable, IInv, TypeOK, JobRows
<1>4. ASSUME NEW v \in Uploads, jobs'[v] # None
      PROVE  /\ v \in revived \/ ~Referenced(v)
             /\ jobs[v] # None /\ flight[v] <= jobs'[v].ready
  <2>1. CASE v \in Claimable
    <3>1. jobs[v] \in JobRows /\ jobs[v] # None
      BY <2>1 DEF Claimable, IInv, TypeOK
    <3>2. jobs'[v].ready = jobs[v].ready
      BY <2>1, <3>1 DEF Claim, JobRows
    <3> QED BY <3>1, <3>2, JobsAsTheyAre
  <2>2. CASE v \notin Claimable
    BY <1>4, <2>2, JobsAsTheyAre DEF Claim
  <2> QED BY <2>1, <2>2
<1>5. UNCHANGED <<takes, uploads, objects, leases, stored, flight, writer, revived>>
  BY DEF Claim
<1> HIDE DEF row
<1> QED BY <1>1, <1>2, <1>3, <1>4, <1>5, PassKeeps DEF WithKey

\* A pass asks whether its key is named.
LEMMA CheckKeeps ==
  ASSUME IInv, NEW w \in Workers, NEW u \in Uploads, Check(w, u)
  PROVE  TablesAgree'
<1> DEFINE pc == IF Referenced(u) THEN "promote" ELSE "delete"
<1>1. pc \in Steps /\ Working(w, pc, u) /\ InHand(u)
  BY DEF Check, Steps, InHand
<1>2. Referenced(u) => u \in revived
  BY <1>1, InHandFacts
<1>3. PICK row : worker' = [worker EXCEPT ![w] = row] /\ row.pc = pc /\ row.key = u /\ row.todo = worker[w].todo
  BY <1>1, WorkingFacts
<1>4. UNCHANGED <<tables, stored, flight, writer, revived>>
  BY DEF Check
<1> QED BY <1>2, <1>3, <1>4, PassOnly DEF Referenced

\* It asks again after a promotion.
LEMMA RecheckKeeps ==
  ASSUME IInv, NEW w \in Workers, Recheck(w)
  PROVE  TablesAgree'
<1> DEFINE u == worker[w].key
<1>1. worker[w].pc = "recheck" /\ UNCHANGED <<tables, stored, flight, writer, revived>>
  BY DEF Recheck
<1>2. u \in Uploads /\ u \in revived /\ "requeue" \in Steps
  BY <1>1, KeyInHand DEF WithKey, IInv, TablesAgree, CleanupIsRight, Steps
<1>3. CASE NextJob(w)
  <2>1. worker' = [worker EXCEPT ![w] = After(w, u)]
    BY <1>3, NextJobRow DEF IInv
  <2> HIDE DEF u
  <2> QED BY <1>1, <2>1, AfterFacts, PassOnly DEF WithKey
<1>4. CASE Working(w, "requeue", u)
  <2>1. PICK row : worker' = [worker EXCEPT ![w] = row] /\ row.pc = "requeue" /\ row.key = u /\ row.todo = worker[w].todo
    BY <1>2, <1>4, WorkingFacts
  <2> QED BY <1>1, <1>2, <2>1, PassOnly
<1> QED BY <1>3, <1>4 DEF Recheck

\* A pass dies.
LEMMA WorkerDiesKeeps ==
  ASSUME IInv, NEW w \in Workers, WorkerDies(w)
  PROVE  TablesAgree'
<1>1. worker' = [worker EXCEPT ![w] = Resting] /\ UNCHANGED <<tables, stored, flight, writer, revived>>
  BY DEF WorkerDies
<1>2. Resting.pc = "idle" /\ Resting.todo = {}
  BY DEF Resting
<1> QED BY <1>1, <1>2, PassOnly

\* A pass deletes the bytes of its key.
LEMMA DeleteObjectKeeps ==
  ASSUME IInv, NEW w \in Workers, DeleteObject(w)
  PROVE  TablesAgree'
<1> DEFINE u == worker[w].key
<1>1. /\ worker[w].pc = "delete" /\ stored' = stored \ {u} /\ Working(w, "forget", u)
      /\ UNCHANGED <<tables, flight, writer, revived>>
  BY DEF DeleteObject
<1>2. u \in Uploads /\ InHand(u) /\ u \notin Active /\ ~Referenced(u)
  BY <1>1, KeyInHand, InHandFacts DEF WithKey, IInv, TablesAgree, CleanupIsRight
<1>3. PICK row : worker' = [worker EXCEPT ![w] = row] /\ row.pc = "forget" /\ row.key = u /\ row.todo = worker[w].todo
  <2>1. "forget" \in Steps
    BY DEF Steps
  <2> QED BY <1>1, <1>2, <2>1, WorkingFacts
<1>4. \A v \in row.todo : v \in Uploads /\ InHand(v) /\ flight[v] = 0
  BY <1>3, InHandFacts DEF IInv, TypeOK, PassRows, InHand
<1>5. \A v \in Uploads : jobs'[v] # None => (v \in revived \/ ~Referenced(v)) /\ flight[v] <= jobs'[v].ready
  BY <1>1, JobsAsTheyAre DEF tables
<1> HIDE DEF u
<1> QED BY <1>1, <1>2, <1>3, <1>4, <1>5, PassKeeps, ZenonT(60) DEF tables, Referenced

\* A pass puts the row of a named key back.
LEMMA PromoteKeeps ==
  ASSUME IInv, NEW w \in Workers, Promote(w)
  PROVE  TablesAgree'
<1>0. PICK u : u = worker[w].key
  OBVIOUS
<1> USE <1>0
<1>1. worker[w].pc = "promote" /\ Working(w, "recheck", u) /\ UNCHANGED <<takes, leases, stored, flight, writer, revived>>
  BY DEF Promote
<1>2. u \in Uploads /\ u \in worker[w].todo /\ InHand(u) /\ u \notin Active /\ flight[u] = 0 /\ writer[u] # "none" /\ u \in revived
  BY <1>1, KeyInHand, InHandFacts DEF WithKey, IInv, TablesAgree, CleanupIsRight
<1>3. PICK row : worker' = [worker EXCEPT ![w] = row] /\ row.pc = "recheck" /\ row.key = u /\ row.todo = worker[w].todo
  <2>1. "recheck" \in Steps
    BY DEF Steps
  <2> QED BY <1>1, <1>2, <2>1, WorkingFacts
<1>4. \A v \in row.todo : v \in Uploads /\ InHand(v) /\ flight[v] = 0
  BY <1>3, InHandFacts DEF IInv, TypeOK, PassRows, InHand
<1>5. \A v \in Uploads \ {u} : uploads'[v] = uploads[v] /\ objects'[v] = objects[v] /\ jobs'[v] = jobs[v]
  BY <1>2 DEF Promote, IInv, TypeOK
<1>6. uploads'[u] = uploads[u] \/ uploads'[u] = None
  BY <1>2 DEF Promote, IInv, TypeOK
<1>7. Settled(u)'
  <2>1. CASE uploads[u] # None /\ uploads[u].state = "abandoned"
    BY <1>2, <2>1 DEF Promote, IInv, TypeOK, Settled
  <2>2. CASE ~(uploads[u] # None /\ uploads[u].state = "abandoned")
    <3>1. uploads'[u] = uploads[u]
      BY <1>2, <2>2 DEF Promote, IInv, TypeOK
    <3>2. uploads[u] = None \/ uploads[u].state = "attached"
      BY <1>2, <2>2 DEF IInv, TypeOK, UploadRows, UploadStates, Active
    <3> QED BY <3>1, <3>2 DEF Settled
  <2> QED BY <2>1, <2>2
<1>8. objects'[u] # None
  <2>1. objects'[u].state = "attached" /\ objects'[u].size \in 1 .. MaxObject /\ objects'[u] \in ObjectRows
    <3>1. uploads[u] # None => uploads[u].size \in 1 .. MaxObject
      BY <1>2 DEF IInv, TypeOK, UploadRows
    <3>2. objects[u] # None => objects[u].size \in 1 .. MaxObject
      BY <1>2 DEF IInv, TypeOK, ObjectRows
    <3>3. worker[w].sizes[u] \in 1 .. MaxObject
      BY <1>2 DEF IInv, WorkersFit
    <3> QED BY <1>2, <3>1, <3>2, <3>3 DEF Promote, IInv, TypeOK, ObjectRows
  <2> QED BY <2>1, NoneIsNoRow
<1>9. jobs'[u] = jobs[u] \/ jobs'[u] = None
  BY <1>2 DEF Promote, IInv, TypeOK
<1>10. \A v \in Uploads : jobs'[v] # None => (v \in revived \/ ~Referenced(v)) /\ flight[v] <= jobs'[v].ready /\ jobs[v] # None
  BY <1>5, <1>9, JobsAsTheyAre
<1>11. stored \subseteq Uploads
  BY DEF IInv, TypeOK
<1>12. \A v \in Uploads : uploads'[v] = uploads[v] \/ (uploads'[v] = None /\ v \notin Active /\ flight[v] = 0)
  BY <1>2, <1>5, <1>6
<1>13. \A v \in stored : /\ uploads'[v] = uploads[v] \/ objects'[v] # None
                         /\ objects[v] # None => objects'[v] # None
  BY <1>5, <1>8, <1>11
<1>14. \A v \in Uploads : objects'[v] # None => objects[v] # None \/ (Settled(v)' /\ writer[v] # "none")
  BY <1>2, <1>5, <1>7
<1>15. \A v \in Uploads : v \in revived \/ objects'[v] = objects[v]
  BY <1>2, <1>5
<1>16. /\ row.pc \in {"delete", "forget"} => \A t \in Takes : takes[t] # row.key
       /\ row.pc \in {"promote", "recheck", "requeue"} => row.key \in revived
       /\ row.pc = "forget" => row.key \notin stored'
  BY <1>2, <1>3
<1> HIDE <1>0
<1>17. /\ \A v \in stored' : uploads'[v] = uploads[v] \/ objects'[v] # None
       /\ \A v \in stored' : objects[v] # None => objects'[v] # None
       /\ stored' \subseteq stored
       /\ \A v \in stored : v \in stored' \/ (~Referenced(v) /\ v \notin Active)
  <2>1. stored' = stored
    BY DEF Promote
  <2> QED BY <1>13, <2>1
<1>18. /\ \A v \in Uploads : v \in revived \/ ~Referenced(v) \/ objects'[v] = objects[v]
       /\ \A v \in Uploads : objects'[v] # None /\ objects'[v].state = "attached"
                             => v \in revived \/ objects'[v] = objects[v]
  BY <1>15
<1>19. \A v \in Uploads : jobs'[v] # None =>
          /\ v \in revived \/ ~Referenced(v)
          /\ jobs[v] # None \/ (Settled(v) /\ writer[v] # "none")
          /\ flight[v] <= jobs'[v].ready
  BY <1>10
<1>20. \A v \in row.todo : v \in Uploads /\ (jobs[v] # None \/ InHand(v)) /\ flight[v] = 0
  BY <1>4
<1>21. UNCHANGED <<takes, leases, flight, writer, revived>>
  BY <1>1
<1>22. worker' = [worker EXCEPT ![w] = row]
  BY <1>3
<1> QED BY <1>12, <1>14, <1>16, <1>17, <1>18, <1>19, <1>20, <1>21, <1>22, PassKeeps, ZenonT(60)

\* A pass takes a promotion back.
LEMMA RequeueKeeps ==
  ASSUME IInv, NEW w \in Workers, Requeue(w)
  PROVE  TablesAgree'
<1>0. PICK u : u = worker[w].key
  OBVIOUS
<1> USE <1>0
<1>1. worker[w].pc = "requeue" /\ NextJob(w) /\ UNCHANGED <<takes, uploads, leases, stored, flight, writer, revived>>
  BY DEF Requeue
<1>2. u \in Uploads /\ InHand(u) /\ flight[u] = 0 /\ writer[u] # "none" /\ u \in revived /\ u \notin Active
  BY <1>1, KeyInHand, InHandFacts DEF WithKey, IInv, TablesAgree, CleanupIsRight
<1>3. worker' = [worker EXCEPT ![w] = After(w, u)]
  BY <1>1, NextJobRow DEF IInv
<1>4. \A v \in Uploads \ {u} : objects'[v] = objects[v] /\ jobs'[v] = jobs[v]
  BY <1>2 DEF Requeue, IInv, TypeOK
<1>5. CASE objects[u] # None /\ objects[u].state = "attached"
  <2>1. objects[u] \in ObjectRows /\ [objects[u] EXCEPT !.state = "cleanup_pending"] \in ObjectRows
    BY <1>2, <1>5 DEF IInv, TypeOK, ObjectRows
  <2>2. objects'[u] = [objects[u] EXCEPT !.state = "cleanup_pending"] /\ jobs'[u] = Queued(u, 0, objects[u].size)
    BY <1>2, <1>5 DEF Requeue, IInv, TypeOK
  <2>3. jobs'[u] \in JobRows
    <3>1. objects[u].size \in 1 .. MaxObject /\ 0 \in 0 .. Later(Quiet, 1)
      BY <2>1, QuietOutlastsPut DEF ObjectRows, Later
    <3> QED BY <1>2, <2>2, <3>1, QueuedRow DEF IInv
  <2>4. objects'[u] # None /\ flight[u] <= jobs'[u].ready
    BY <1>2, <2>1, <2>2, <2>3, NoneIsNoRow DEF JobRows
  <2>5. Settled(u)
    BY <1>2 DEF IInv, TablesAgree, OneOwner
  <2>6. ASSUME NEW v \in Uploads, jobs'[v] # None
        PROVE  /\ v \in revived \/ ~Referenced(v)
               /\ jobs[v] # None \/ (Settled(v) /\ writer[v] # "none")
               /\ flight[v] <= jobs'[v].ready
    BY <1>2, <1>4, <2>4, <2>5, <2>6, JobsAsTheyAre
  <2>7. stored \subseteq Uploads
    BY DEF IInv, TypeOK
  <2> DEFINE row == After(w, u)
  <2>8. row.pc \notin {"delete", "forget", "promote", "recheck", "requeue"}
        /\ \A v \in row.todo : v \in Uploads /\ InHand(v) /\ flight[v] = 0
    BY AfterFacts DEF WithKey
  <2> HIDE DEF row
  <2>9. worker' = [worker EXCEPT ![w] = row]
    BY <1>3 DEF row
  <2>10. ASSUME NEW v \in Uploads
         PROVE  /\ objects[v] # None <=> objects'[v] # None
                /\ v \in revived \/ objects'[v] = objects[v]
    BY <1>2, <1>4, <1>5, <2>4
  <2>11. /\ \A v \in Uploads : objects'[v] # None => objects[v] # None \/ (Settled(v)' /\ writer[v] # "none")
         /\ \A v \in Uploads : v \in revived \/ ~Referenced(v) \/ objects'[v] = objects[v]
         /\ \A v \in Uploads : objects'[v] # None /\ objects'[v].state = "attached"
                               => v \in revived \/ objects'[v] = objects[v]
    BY <2>10
  <2>12. /\ \A v \in Uploads : uploads'[v] = uploads[v] \/ (uploads'[v] = None /\ v \notin Active /\ flight[v] = 0)
         /\ \A v \in stored' : uploads'[v] = uploads[v] \/ objects'[v] # None
         /\ \A v \in stored' : objects[v] # None => objects'[v] # None
         /\ stored' \subseteq stored
         /\ \A v \in stored : v \in stored' \/ (~Referenced(v) /\ v \notin Active)
    <3>1. stored' = stored /\ uploads' = uploads
      BY DEF Requeue
    <3> QED BY <2>7, <2>10, <3>1
  <2>13. UNCHANGED <<takes, leases, flight, writer, revived>>
    BY <1>1
  <2>14. /\ row.pc \in {"delete", "forget"} => \A t \in Takes : takes[t] # row.key
         /\ row.pc \in {"promote", "recheck", "requeue"} => row.key \in revived
         /\ row.pc = "forget" => row.key \notin stored'
         /\ \A v \in row.todo : v \in Uploads /\ (jobs[v] # None \/ InHand(v)) /\ flight[v] = 0
    BY <2>8
  <2> HIDE <1>0
  <2> QED BY <2>6, <2>9, <2>11, <2>12, <2>13, <2>14, PassKeeps, ZenonT(60)
<1>6. CASE ~(objects[u] # None /\ objects[u].state = "attached")
  <2>1. UNCHANGED <<objects, jobs>>
    BY <1>6 DEF Requeue
  <2> QED BY <1>1, <1>3, <2>1, AfterFacts, PassOnly, ZenonT(60) DEF WithKey, tables
<1> QED BY <1>5, <1>6

\* A pass drops the rows of a key whose bytes it deleted.
LEMMA ForgetKeeps ==
  ASSUME IInv, NEW w \in Workers, Forget(w)
  PROVE  TablesAgree'
<1>0. PICK u : u = worker[w].key
  OBVIOUS
<1> USE <1>0
<1>1. worker[w].pc = "forget" /\ NextJob(w) /\ UNCHANGED <<takes, leases, stored, flight, writer, revived>>
  BY DEF Forget
<1>2. u \in Uploads /\ InHand(u) /\ flight[u] = 0 /\ u \notin Active /\ u \notin stored /\ ~Referenced(u)
  BY <1>1, KeyInHand, InHandFacts DEF WithKey, IInv, TablesAgree, CleanupIsRight
<1>3. worker' = [worker EXCEPT ![w] = After(w, u)]
  BY <1>1, NextJobRow DEF IInv
<1>4. \A v \in Uploads \ {u} : uploads'[v] = uploads[v] /\ objects'[v] = objects[v] /\ jobs'[v] = jobs[v]
  BY <1>2 DEF Forget, IInv, TypeOK
<1>5. objects'[u] = None /\ (uploads'[u] = uploads[u] \/ uploads'[u] = None) /\ (jobs'[u] = jobs[u] \/ jobs'[u] = None)
  BY <1>2 DEF Forget, IInv, TypeOK
<1>6. ASSUME NEW v \in Uploads, jobs'[v] # None
      PROVE  /\ v \in revived \/ ~Referenced(v)
             /\ jobs[v] # None /\ flight[v] <= jobs'[v].ready
  BY <1>4, <1>5, <1>6, JobsAsTheyAre
<1>7. stored \subseteq Uploads
  BY DEF IInv, TypeOK
<1> DEFINE row == After(w, u)
<1>8. row.pc \notin {"delete", "forget", "promote", "recheck", "requeue"}
      /\ \A v \in row.todo : v \in Uploads /\ InHand(v) /\ flight[v] = 0
  BY AfterFacts DEF WithKey
<1> HIDE DEF row
<1>9. worker' = [worker EXCEPT ![w] = row]
  BY <1>3 DEF row
<1>10. ASSUME NEW v \in Uploads
       PROVE  /\ uploads'[v] = uploads[v] \/ (uploads'[v] = None /\ v \notin Active /\ flight[v] = 0)
              /\ v \in stored => uploads'[v] = uploads[v] /\ objects'[v] = objects[v]
              /\ objects'[v] # None => objects'[v] = objects[v]
              /\ ~Referenced(v) \/ objects'[v] = objects[v]
  BY <1>2, <1>4, <1>5
<1> QED BY <1>1, <1>6, <1>7, <1>8, <1>9, <1>10, PassKeeps, ZenonT(60)

\* A step of a pass fails.
LEMMA WorkFailsKeeps ==
  ASSUME IInv, NEW w \in Workers, WorkFails(w)
  PROVE  TablesAgree'
<1>1. UNCHANGED <<takes, uploads, objects, leases, stored, flight, writer, revived>> /\ worker[w].pc # "recheck"
  BY DEF WorkFails
<1>2. PICK u \in (IF worker[w].pc = "work" THEN worker[w].todo ELSE {worker[w].key}) :
        /\ jobs' = [jobs EXCEPT ![u] = IF Mine(w, u) THEN [@ EXCEPT !.ready = 1, !.owner = None, !.claim = 0] ELSE @]
        /\ worker' = [worker EXCEPT ![w] = After(w, u)]
  BY DEF WorkFails, After, IInv, TypeOK
<1>3. u \in Uploads /\ InHand(u) /\ flight[u] = 0
  <2>1. worker[w].pc # "work" => worker[w].pc \in WithKey
    BY DEF WorkFails, WithKey
  <2>2. worker[w].pc = "work" => u \in worker[w].todo /\ u \in Uploads
    BY <1>2 DEF IInv, TypeOK, PassRows
  <2>3. InHand(u) /\ u \in Uploads
    BY <1>2, <2>1, <2>2, KeyInHand DEF InHand
  <2> QED BY <2>3, InHandFacts
<1>4. \A v \in Uploads \ {u} : jobs'[v] = jobs[v]
  BY <1>2, <1>3 DEF IInv, TypeOK
<1>5. jobs'[u] # None => jobs[u] # None /\ flight[u] <= jobs'[u].ready
  <2>1. CASE Mine(w, u)
    <3>1. jobs[u] \in JobRows /\ jobs[u] # None
      BY <1>3, <2>1 DEF Mine, IInv, TypeOK
    <3>2. jobs'[u].ready = 1
      BY <1>2, <1>3, <2>1, <3>1 DEF IInv, TypeOK, JobRows
    <3> QED BY <1>3, <3>1, <3>2
  <2>2. CASE ~Mine(w, u)
    BY <1>2, <1>3, <2>2, JobsAsTheyAre DEF IInv, TypeOK
  <2> QED BY <2>1, <2>2
<1>6. ASSUME NEW v \in Uploads, jobs'[v] # None
      PROVE  /\ v \in revived \/ ~Referenced(v)
             /\ jobs[v] # None /\ flight[v] <= jobs'[v].ready
  BY <1>4, <1>5, <1>6, JobsAsTheyAre
<1> QED BY <1>1, <1>2, <1>3, <1>6, AfterFacts, PassKeeps DEF WithKey

-----------------------------------------------------------------------------
(* The record, the clock, and the invariant                                 *)

\* The record names a replaced key again.
LEMMA ReferKeeps ==
  ASSUME IInv, NEW t \in Takes, NEW u \in Uploads, Refer(t, u)
  PROVE  TablesAgree'
<1>1. /\ objects[u] # None /\ objects[u].state = "cleanup_pending" /\ ~Referenced(u) /\ u \in stored
      /\ \A w \in Workers : worker[w].key = u => worker[w].pc \notin {"delete", "forget"}
      /\ takes' = [takes EXCEPT ![t] = u] /\ revived' = revived \cup {u}
      /\ UNCHANGED <<uploads, objects, jobs, leases, stored, flight, writer, worker>>
  BY DEF Refer
<1>2. takes'[t] = u /\ \A s \in Takes \ {t} : takes'[s] = takes[s] /\ takes'[s] # u
  BY <1>1 DEF IInv, TypeOK, Referenced
<1>3. \A v \in Uploads : Referenced(v)' => Referenced(v) \/ v = u
  BY <1>2 DEF Referenced
<1>4. Settled(u) /\ writer[u] # "none"
  BY <1>1 DEF IInv, TablesAgree, OneOwner, UnusedIsClean
<1>5. UnusedIsClean'
  BY <1>1, <1>3, <1>4 DEF IInv, TablesAgree, UnusedIsClean, InHand
<1>6. OneOwner'
  BY <1>1, <1>3, <1>4 DEF IInv, TablesAgree, OneOwner, InHand, Settled, Active
<1>7. TakesDiffer'
  BY <1>1, <1>2 DEF IInv, TablesAgree, TakesDiffer
<1>8. CleanupIsRight'
  <2>1. ASSUME NEW w \in Workers, worker[w].pc \in {"delete", "forget"} PROVE \A s \in Takes : takes'[s] # worker[w].key
    BY <1>1, <1>2, <2>1 DEF IInv, TablesAgree, CleanupIsRight, Referenced
  <2>2. ASSUME NEW v \in Uploads, jobs[v] # None \/ InHand(v), v \notin revived, v # u PROVE ~Referenced(v)'
    BY <1>3, <2>2 DEF IInv, TablesAgree, CleanupIsRight
  <2>3. /\ \A w \in Workers : worker[w].pc \in {"promote", "recheck", "requeue"} => worker[w].key \in revived'
        /\ \A w \in Workers : worker[w].pc = "forget" => worker[w].key \notin stored
        /\ \A v \in stored \cap revived' : objects[v] # None
    BY <1>1 DEF IInv, TablesAgree, CleanupIsRight
  <2>4. \A v \in Uploads : InHand(v)' = InHand(v)
    BY <1>1 DEF InHand
  <2> QED BY <1>1, <2>1, <2>2, <2>3, <2>4 DEF CleanupIsRight, Referenced
<1>9. PutsAreSeen'
  BY <1>1 DEF IInv, TablesAgree, PutsAreSeen, InHand, Active
<1>10. TakesAreServed'
  BY <1>1, <1>2 DEF IInv, TablesAgree, TakesAreServed
<1>11. AttachedIsReferenced' /\ BytesAreAccounted'
  BY <1>1 DEF IInv, TablesAgree, AttachedIsReferenced, BytesAreAccounted
<1> QED BY <1>5, <1>6, <1>7, <1>8, <1>9, <1>10, <1>11 DEF TablesAgree

\* Time passes.
LEMMA TickKeeps ==
  ASSUME IInv, Tick
  PROVE  TablesAgree'
<1>1. UNCHANGED <<takes, objects, stored, writer, worker, revived>>
  BY DEF Tick
<1>2. ASSUME NEW v \in Uploads
      PROVE  /\ uploads'[v] = None <=> uploads[v] = None
             /\ uploads[v] # None => uploads'[v].state = uploads[v].state /\ uploads'[v].actual = uploads[v].actual
             /\ v \in Active => uploads'[v].lease = Lower(uploads[v].lease, -Quiet)
  <2>1. CASE v \in Active
    <3> DEFINE row == [uploads[v] EXCEPT !.lease = Lower(uploads[v].lease, -Quiet)]
    <3>1. uploads[v] \in UploadRows /\ uploads[v] # None
      BY <2>1 DEF Active, IInv, TypeOK
    <3>2. Lower(uploads[v].lease, -Quiet) \in -Quiet .. Lease
      BY <3>1, QuietOutlastsPut, LimitsPositive DEF UploadRows, Lower
    <3>3. /\ row \in UploadRows /\ row.state = uploads[v].state /\ row.actual = uploads[v].actual
          /\ row.lease = Lower(uploads[v].lease, -Quiet)
      BY <3>1, <3>2 DEF UploadRows
    <3>4. uploads'[v] = row
      BY <2>1 DEF Tick
    <3> HIDE DEF row
    <3> QED BY <3>1, <3>3, <3>4, NoneIsNoRow
  <2>2. CASE v \notin Active
    BY <2>2 DEF Tick
  <2> QED BY <2>1, <2>2
<1>3. ASSUME NEW v \in Uploads
      PROVE  /\ jobs'[v] = None <=> jobs[v] = None
             /\ jobs[v] # None => jobs'[v].ready = Lower(jobs[v].ready, 0) /\ jobs[v].ready \in Nat
  <2>1. CASE jobs[v] = None
    BY <2>1 DEF Tick
  <2>2. CASE jobs[v] # None
    <3> DEFINE row == [jobs[v] EXCEPT !.ready = Lower(jobs[v].ready, 0), !.claim = Lower(jobs[v].claim, 0)]
    <3>1. jobs[v] \in JobRows
      BY <2>2 DEF IInv, TypeOK
    <3>2. Lower(jobs[v].ready, 0) \in 0 .. Later(Quiet, 1) /\ Lower(jobs[v].claim, 0) \in 0 .. Quiet /\ jobs[v].ready \in Nat
      BY <3>1, QuietOutlastsPut DEF JobRows, Lower, Later
    <3>3. row \in JobRows /\ row.ready = Lower(jobs[v].ready, 0)
      BY <3>1, <3>2 DEF JobRows
    <3>4. jobs'[v] = row
      BY <2>2 DEF Tick
    <3> HIDE DEF row
    <3> QED BY <2>2, <3>2, <3>3, <3>4, NoneIsNoRow
  <2> QED BY <2>1, <2>2
<1>4. \A v \in Uploads : leases'[v] = Lower(leases[v], 0) /\ flight'[v] = Lower(flight[v], 0) /\ flight[v] \in Nat
  <2>1. \A v \in Uploads : flight[v] \in Nat
    BY QuietOutlastsPut DEF IInv, TypeOK
  <2>2. \A v \in Uploads : leases'[v] = Lower(leases[v], 0) /\ flight'[v] = Lower(flight[v], 0)
    BY DEF Tick
  <2> QED BY <2>1, <2>2
<1>5. \A v \in Uploads : /\ Settled(v)' <=> Settled(v)
                         /\ v \in Active' <=> v \in Active
                         /\ InHand(v)' = InHand(v) /\ Referenced(v)' = Referenced(v)
  BY <1>1, <1>2 DEF Settled, Active, InHand, Referenced
<1>6. UnusedIsClean'
  BY <1>1, <1>2, <1>3, <1>4, <1>5 DEF IInv, TablesAgree, UnusedIsClean, Lower
<1>7. OneOwner'
  BY <1>1, <1>3, <1>5 DEF IInv, TablesAgree, OneOwner
<1>8. TakesDiffer' /\ AttachedIsReferenced' /\ TakesAreServed'
  BY <1>1, <1>5 DEF IInv, TablesAgree, TakesDiffer, AttachedIsReferenced, TakesAreServed
<1>9. CleanupIsRight'
  BY <1>1, <1>3, <1>5 DEF IInv, TablesAgree, CleanupIsRight, Referenced
<1>10. PutsAreSeen'
  <2>1. ASSUME NEW v \in Uploads
        PROVE  /\ writer'[v] \in {"end", "attach"} /\ v \in Active' => v \in stored'
               /\ writer'[v] \in {"start", "put", "end", "attach"} /\ v \in Active' => uploads'[v].actual
               /\ writer'[v] \notin {"put", "abandon", "done"} => flight'[v] = 0
               /\ flight'[v] > 0 => /\ uploads'[v] # None /\ uploads'[v].actual /\ uploads'[v].state # "attached"
                                    /\ v \in Active' => flight'[v] <= PutTime + uploads'[v].lease
               /\ jobs'[v] # None => flight'[v] <= jobs'[v].ready
               /\ InHand(v)' => flight'[v] = 0
    <3>1. flight'[v] > 0 => flight[v] > 0 /\ flight'[v] = flight[v] - 1
      BY <1>4 DEF Lower
    <3>2. flight[v] = 0 => flight'[v] = 0
      BY <1>4 DEF Lower
    <3>3. jobs'[v] # None => flight'[v] <= jobs'[v].ready
      BY <1>3, <1>4 DEF Lower, IInv, TablesAgree, PutsAreSeen
    <3>4. v \in Active /\ flight'[v] > 0 => flight'[v] <= PutTime + uploads'[v].lease
      <4>1. SUFFICES ASSUME v \in Active, flight'[v] > 0 PROVE flight'[v] <= PutTime + uploads'[v].lease
        OBVIOUS
      <4>2. flight[v] <= PutTime + uploads[v].lease /\ uploads[v].lease \in Int
        BY <3>1, <4>1 DEF IInv, TypeOK, UploadRows, TablesAgree, PutsAreSeen, Active
      <4>3. uploads'[v].lease >= uploads[v].lease - 1 /\ uploads'[v].lease \in Int
        BY <1>2, <4>1, <4>2, QuietOutlastsPut DEF Lower
      <4> QED BY <1>4, <3>1, <4>1, <4>2, <4>3, QuietOutlastsPut
    <3> QED BY <1>1, <1>2, <1>5, <3>1, <3>2, <3>3, <3>4 DEF IInv, TablesAgree, PutsAreSeen
  <2> QED BY <2>1 DEF PutsAreSeen
<1>11. BytesAreAccounted'
  BY <1>1, <1>2 DEF IInv, TypeOK, TablesAgree, BytesAreAccounted
<1> QED BY <1>6, <1>7, <1>8, <1>9, <1>10, <1>11 DEF TablesAgree

\* The start of the PUT.
LEMMA StartPutKeeps ==
  ASSUME IInv, NEW u \in Uploads, StartPut(u), CanRenew(u)
  PROVE  TablesAgree'
<1> DEFINE row == [uploads[u] EXCEPT !.lease = Lease]
<1>1. uploads[u] \in UploadRows /\ u \in Active /\ uploads[u].state \in ActiveStates
  BY DEF IInv, TypeOK, CanRenew, Owned, Active
<1>2. /\ row \in UploadRows /\ row.lease = Lease /\ row.state = uploads[u].state /\ row.actual = uploads[u].actual
  BY <1>1, LimitsPositive, QuietOutlastsPut DEF UploadRows
<1>3. uploads' = [uploads EXCEPT ![u] = row]
  BY <1>1 DEF IInv, TypeOK, StartPut, Renewed
<1> HIDE DEF row
<1>4. /\ writer[u] = "start" /\ Goto(u, "put") /\ flight'[u] = PutTime
      /\ \A v \in Uploads \ {u} : flight'[v] = flight[v] /\ (leases[v] = 0 => leases'[v] = 0)
      /\ UNCHANGED <<takes, objects, jobs, stored, worker, revived>>
  BY DEF StartPut, Renewed, IInv, TypeOK
<1>5. uploads[u].actual
  BY <1>1, <1>4 DEF IInv, TablesAgree, PutsAreSeen
<1>6. flight'[u] <= PutTime + row.lease
  BY <1>2, <1>4, LimitsPositive, QuietOutlastsPut
<1> QED BY <1>1, <1>2, <1>3, <1>4, <1>5, <1>6, GoesOn

\* The first transaction of storeUpload.
LEMMA StoreBeginKeeps ==
  ASSUME IInv, NEW u \in Uploads, NEW size \in 1 .. MaxObject, StoreBegin(u, size), ~Fail(u)
  PROVE  TablesAgree'
<1> DEFINE row == [uploads[u] EXCEPT !.state = "transferring", !.size = size, !.actual = TRUE, !.lease = Lease]
<1>1. uploads[u] \in UploadRows /\ u \in Active
  BY DEF IInv, TypeOK, StoreBegin, Owned, Active, ActiveStates
<1>2. /\ row \in UploadRows /\ row.state \in ActiveStates /\ row.actual
  <2>1. "transferring" \in UploadStates /\ "transferring" \in ActiveStates /\ Lease \in -Quiet .. Lease
    BY LimitsPositive, QuietOutlastsPut DEF UploadStates, ActiveStates
  <2>2. row \in UploadRows
    BY <1>1, <2>1, UploadRow
  <2>3. row.state = "transferring" /\ row.actual
    BY <1>1 DEF UploadRows
  <2> QED BY <2>1, <2>2, <2>3
<1>3. uploads' = [uploads EXCEPT ![u] = row]
  BY <1>1 DEF IInv, TypeOK, StoreBegin
<1> HIDE DEF row
<1>4. /\ writer[u] = "begin" /\ Goto(u, "start")
      /\ UNCHANGED <<takes, objects, jobs, leases, stored, flight, worker, revived>>
  BY DEF StoreBegin
<1>5. flight[u] = 0
  BY <1>4 DEF IInv, TablesAgree, PutsAreSeen
<1> QED BY <1>1, <1>2, <1>3, <1>4, <1>5, GoesOn

\* The second transaction of storeUpload.
LEMMA StoreEndKeeps ==
  ASSUME IInv, NEW u \in Uploads, StoreEnd(u), ~Fail(u)
  PROVE  TablesAgree'
<1> DEFINE row == [uploads[u] EXCEPT !.state = "object_ready"]
<1>1. uploads[u] \in UploadRows /\ u \in Active
  BY DEF IInv, TypeOK, StoreEnd, Owned, Active, ActiveStates
<1>2. /\ row \in UploadRows /\ row.state \in ActiveStates /\ row.actual = uploads[u].actual
  BY <1>1 DEF UploadRows, UploadStates, ActiveStates
<1>3. uploads' = [uploads EXCEPT ![u] = row]
  BY <1>1 DEF IInv, TypeOK, StoreEnd
<1> HIDE DEF row
<1>4. /\ writer[u] = "end" /\ Goto(u, "attach")
      /\ UNCHANGED <<takes, objects, jobs, leases, stored, flight, worker, revived>>
  BY DEF StoreEnd
<1>5. flight[u] = 0 /\ uploads[u].actual
  BY <1>1, <1>4 DEF IInv, TablesAgree, PutsAreSeen
<1> QED BY <1>1, <1>2, <1>3, <1>4, <1>5, GoesOn

\* Every step keeps the tables, the bytes and the passes in agreement.
LEMMA TablesStep == IInv /\ [Next]_vars => TablesAgree'
<1> SUFFICES ASSUME IInv, [Next]_vars PROVE TablesAgree'
  OBVIOUS
<1>f. ASSUME NEW u \in Uploads, Fail(u), UNCHANGED <<stored, flight, worker, revived>> PROVE TablesAgree'
  BY <1>f, WriterOnly DEF Fail, tables
<1>1. ASSUME NEW u \in Uploads, NEW t \in Takes, NEW declared \in 1 .. MaxObject, Reserve(u, t, declared) PROVE TablesAgree'
  BY <1>1, ReserveKeeps
<1>2. ASSUME NEW u \in Uploads, StartStage(u) PROVE TablesAgree'
  BY <1>2, <1>f, RenewOnly DEF StartStage
<1>3. ASSUME NEW u \in Uploads, NEW ok \in BOOLEAN, StageEnds(u, ok) PROVE TablesAgree'
  BY <1>3, <1>f, WriterOnly DEF StageEnds, tables
<1>4. ASSUME NEW u \in Uploads, NEW size \in 1 .. MaxObject, StoreBegin(u, size) PROVE TablesAgree'
  <2>1. CASE Fail(u)
    BY <1>4, <1>f, <2>1 DEF StoreBegin
  <2>2. CASE ~Fail(u)
    BY <1>4, <2>2, StoreBeginKeeps
  <2> QED BY <2>1, <2>2
<1>5. ASSUME NEW u \in Uploads, StartPut(u) PROVE TablesAgree'
  <2>1. CASE CanRenew(u)
    BY <1>5, <2>1, StartPutKeeps
  <2>2. CASE ~CanRenew(u)
    BY <1>5, <1>f, <2>2 DEF StartPut
  <2> QED BY <2>1, <2>2
<1>6. ASSUME NEW u \in Uploads, PutTimesOut(u) PROVE TablesAgree'
  BY <1>6, <1>f DEF PutTimesOut
<1>7. ASSUME NEW u \in Uploads, StoreEnd(u) PROVE TablesAgree'
  <2>1. CASE Fail(u)
    BY <1>7, <1>f, <2>1 DEF StoreEnd
  <2>2. CASE ~Fail(u)
    BY <1>7, <2>2, StoreEndKeeps
  <2> QED BY <2>1, <2>2
<1>8. ASSUME NEW u \in Uploads, Attach(u) PROVE TablesAgree'
  <2>1. CASE Fail(u)
    BY <1>8, <1>f, <2>1 DEF Attach
  <2>2. CASE ~Fail(u)
    BY <1>8, <2>2, AttachKeeps DEF Attach
  <2> QED BY <2>1, <2>2
<1>9. ASSUME NEW u \in Uploads, Answer(u) PROVE TablesAgree'
  BY <1>9, WriterOnly DEF Answer, tables
<1>10. ASSUME NEW u \in Uploads, Abandon(u) PROVE TablesAgree'
  BY <1>10, AbandonKeeps
<1>11. ASSUME NEW u \in Uploads, Renew(u) PROVE TablesAgree'
  BY <1>11, <1>f, RenewOnly DEF Renew
<1>12. ASSUME NEW u \in Uploads, PutLands(u) PROVE TablesAgree'
  BY <1>12, PutLandsKeeps
<1>13. ASSUME NEW u \in Uploads, GiveUp(u) PROVE TablesAgree'
  BY <1>13, <1>f DEF GiveUp
<1>14. ASSUME NEW u \in Uploads, Die(u) PROVE TablesAgree'
  BY <1>14, WriterOnly DEF Die, tables
<1>15. ASSUME NEW u \in Uploads, NEW t \in Takes, Refer(t, u) PROVE TablesAgree'
  BY <1>15, ReferKeeps
<1>16. ASSUME NEW w \in Workers, WorkStep(w) \/ WorkFails(w) \/ WorkerDies(w) PROVE TablesAgree'
  BY <1>16, ExpireKeeps, ClaimKeeps, CheckKeeps, PromoteKeeps, RecheckKeeps, RequeueKeeps, DeleteObjectKeeps,
     ForgetKeeps, WorkFailsKeeps, WorkerDiesKeeps DEF WorkStep
<1>17. CASE Tick
  BY <1>17, TickKeeps
<1>18. CASE UNCHANGED vars
  BY <1>18 DEF vars, IInv, TablesAgree, UnusedIsClean, OneOwner, TakesDiffer, CleanupIsRight, PutsAreSeen, TakesAreServed,
     AttachedIsReferenced, BytesAreAccounted, Referenced, InHand, Settled, Active
<1> QED
  BY <1>1, <1>2, <1>3, <1>4, <1>5, <1>6, <1>7, <1>8, <1>9, <1>10, <1>11, <1>12, <1>13, <1>14, <1>15, <1>16, <1>17, <1>18
     DEF Next, UploadStep

\* The invariant holds at the start.
LEMMA InitIInv == Init => IInv
<1> SUFFICES ASSUME Init PROVE IInv
  OBVIOUS
<1>1. TypeOK
  BY LimitsPositive, QuietOutlastsPut, NoneIsNoUpload, RestingRow DEF Init, TypeOK, Places
<1>2. WorkersFit
  BY DEF Init, WorkersFit, Resting, WithKey
<1>3. \A u \in Uploads : /\ uploads[u] = None /\ objects[u] = None /\ jobs[u] = None /\ leases[u] = 0 /\ flight[u] = 0
                         /\ writer[u] = "none" /\ u \notin Active /\ ~Referenced(u) /\ ~InHand(u) /\ Settled(u)
  BY NoneIsNoUpload DEF Init, Active, Referenced, InHand, Settled, Resting
<1>4. \A w \in Workers : worker[w].pc = "idle"
  BY DEF Init, Resting
<1>5. stored = {} /\ revived = {} /\ \A t \in Takes : takes[t] = None
  BY DEF Init
<1>6. UnusedIsClean /\ OneOwner /\ TakesDiffer /\ PutsAreSeen
  BY <1>3, <1>5 DEF UnusedIsClean, OneOwner, TakesDiffer, PutsAreSeen
<1>7. CleanupIsRight /\ TakesAreServed /\ AttachedIsReferenced /\ BytesAreAccounted
  BY <1>3, <1>4, <1>5 DEF CleanupIsRight, TakesAreServed, AttachedIsReferenced, BytesAreAccounted
<1> QED BY <1>1, <1>2, <1>6, <1>7 DEF IInv, TablesAgree

\* Every step keeps the invariant.
LEMMA IInvStep == IInv /\ [Next]_vars => IInv'
BY TypeStep, WorkersStep, TablesStep DEF IInv

-----------------------------------------------------------------------------
(* The limits of the deployment and of the record                           *)

\* No step but Reserve, which asks first, makes a transfer lease.
LEMMA TransfersStep == TypeOK /\ TransfersBounded /\ [Next]_vars => TransfersBounded'
<1> SUFFICES ASSUME TypeOK, TransfersBounded, [Next]_vars PROVE TransfersBounded'
  OBVIOUS
<1>1. IsFiniteSet(Holders) /\ Cardinality(Holders) \in Nat /\ Holders \subseteq Uploads
  BY UploadsFinite, FS_Subset, FS_CardinalityType DEF Holders
<1>2. MaxTransfers \in Nat
  BY LimitsPositive
<1>3. ASSUME \A v \in Uploads : leases'[v] > 0 => leases[v] > 0 PROVE TransfersBounded'
  <2>1. Holders' \subseteq Holders
    BY <1>3 DEF Holders
  <2> HIDE DEF Holders
  <2>2. Cardinality(Holders') <= Cardinality(Holders) /\ Cardinality(Holders') \in Nat
    BY <1>1, <2>1, FS_Subset, FS_CardinalityType
  <2> QED BY <1>1, <1>2, <2>2 DEF TransfersBounded
<1>4. ASSUME NEW u \in Uploads, NEW t \in Takes, NEW declared \in 1 .. MaxObject, Reserve(u, t, declared)
      PROVE  TransfersBounded'
  <2>1. Holders' \subseteq Holders \cup {u} /\ Cardinality(Holders) < MaxTransfers
    BY <1>4 DEF Holders, Reserve, TypeOK
  <2> HIDE DEF Holders
  <2>2. IsFiniteSet(Holders \cup {u}) /\ Cardinality(Holders \cup {u}) <= Cardinality(Holders) + 1
        /\ Cardinality(Holders \cup {u}) \in Nat
    <3>1. IsFiniteSet(Holders \cup {u})
      BY <1>1, FS_AddElement
    <3>2. Cardinality(Holders \cup {u}) = Cardinality(Holders) \/ Cardinality(Holders \cup {u}) = Cardinality(Holders) + 1
      BY <1>1, FS_AddElement
    <3>3. Cardinality(Holders \cup {u}) \in Nat
      BY <3>1, FS_CardinalityType
    <3> QED BY <1>1, <3>1, <3>2, <3>3
  <2>3. Cardinality(Holders') <= Cardinality(Holders \cup {u}) /\ Cardinality(Holders') \in Nat
    BY <2>1, <2>2, FS_Subset, FS_CardinalityType
  <2> QED BY <1>1, <1>2, <2>1, <2>2, <2>3 DEF TransfersBounded
<1>5. ASSUME NEW u \in Uploads, CanRenew(u), Renewed(u) PROVE TransfersBounded'
  BY <1>3, <1>5 DEF CanRenew, Renewed, TypeOK
<1>6. ASSUME NEW u \in Uploads, Attach(u) \/ Abandon(u) PROVE TransfersBounded'
  BY <1>3, <1>6 DEF Attach, Attached, Abandon, Fail, tables, TypeOK
<1>7. CASE Tick
  <2>1. ASSUME NEW v \in Uploads PROVE leases'[v] > 0 => leases[v] > 0
    <3>1. leases'[v] = Lower(leases[v], 0)
      BY <1>7 DEF Tick
    <3>2. leases[v] \in Int
      BY LimitsPositive DEF TypeOK
    <3> QED BY <3>1, <3>2 DEF Lower
  <2> QED BY <1>3, <2>1
<1>8. CASE UNCHANGED leases
  BY <1>3, <1>8
<1> HIDE DEF TransfersBounded
<1>9. ASSUME NEW u \in Uploads, UploadStep(u) \/ Renew(u) \/ PutLands(u) \/ GiveUp(u) \/ Die(u) PROVE TransfersBounded'
  BY <1>5, <1>6, <1>8, <1>9
     DEF UploadStep, StartStage, StageEnds, StoreBegin, StartPut, PutTimesOut, StoreEnd, Answer, Renew, PutLands, GiveUp, Die,
         Fail, tables
<1>10. ASSUME NEW w \in Workers, WorkStep(w) \/ WorkFails(w) \/ WorkerDies(w) PROVE TransfersBounded'
  BY <1>8, <1>10
     DEF WorkStep, Expire, Claim, Check, Promote, Recheck, Requeue, DeleteObject, Forget, WorkFails, WorkerDies, tables
<1>11. ASSUME NEW u \in Uploads, NEW t \in Takes, Refer(t, u) PROVE TransfersBounded'
  BY <1>8, <1>11 DEF Refer
<1> QED BY <1>4, <1>7, <1>8, <1>9, <1>10, <1>11 DEF Next, vars

\* What a key may be charged with.
LEMMA ChargeIsNumber == ASSUME TypeOK, NEW u \in Uploads PROVE Charge(u) \in Nat
BY LimitsPositive DEF TypeOK, Charge, ObjectRows, UploadRows

\* The charge of the keys T, now and a step later.
LEMMA ChargedGrows ==
  ASSUME TypeOK, TypeOK', NEW S \in SUBSET Uploads, NEW T \in SUBSET S, \A v \in T : Charge(v)' <= Charge(v)
  PROVE  Charged(T)' <= Charged(S) /\ Charged(T)' \in Int /\ Charged(S) \in Int
<1> DEFINE f == [u \in Uploads |-> Charge(u)]
           g == [u \in Uploads |-> Charge(u)']
<1>1. IsFiniteSet(S) /\ IsFiniteSet(T)
  BY UploadsFinite, FS_Subset
<1>2. ASSUME NEW v \in Uploads PROVE f[v] \in Int /\ f[v] >= 0 /\ g[v] \in Int /\ f[v] = Charge(v) /\ g[v] = Charge(v)'
  <2>1. Charge(v) \in Nat
    BY ChargeIsNumber
  <2>2. Charge(v)' \in Nat
    BY LimitsPositive DEF TypeOK, Charge, ObjectRows, UploadRows
  <2> QED BY <2>1, <2>2
<1>3. Charged(S) = SumFunctionOnSet(f, S) /\ Charged(T)' = SumFunctionOnSet(g, T)
  BY DEF Charged
<1> HIDE DEF f, g
<1>4. /\ \A v \in S : f[v] \in Int /\ f[v] >= 0
      /\ \A v \in T : g[v] \in Int /\ g[v] <= f[v]
  BY <1>2
<1> QED BY <1>1, <1>3, <1>4, SumGrows, SumIsNumber

\* The keys that the quota is about.
Kept == stored \cup (Uploads \ revived)

\* A step that charges no key of the quota with more.
LEMMA QuotaShrinks ==
  ASSUME TypeOK, TypeOK', QuotaHolds, Kept' \subseteq Kept, \A v \in Kept' : Charge(v)' <= Charge(v)
  PROVE  QuotaHolds'
<1>1. Kept \in SUBSET Uploads /\ Kept' \in SUBSET Kept
  BY DEF Kept, TypeOK
<1>2. PICK T : T = Kept'
  OBVIOUS
<1>3. PICK S : S = Kept
  OBVIOUS
<1>4. Charged(T)' <= Charged(S) /\ Charged(T)' \in Int /\ Charged(S) \in Int
  BY <1>1, <1>2, <1>3, ChargedGrows
<1>5. Charged(S) <= MaxRecord
  BY <1>3 DEF QuotaHolds, Kept
<1>6. Charged(T)' <= MaxRecord
  BY <1>4, <1>5, LimitsPositive
<1> QED BY <1>2, <1>6 DEF QuotaHolds, Kept, Charged

\* A step that asked first what the other keys are charged with.
LEMMA QuotaAsked ==
  ASSUME TypeOK, TypeOK', NEW u \in Uploads, NEW size \in Nat, Charged(Uploads \ {u}) + size <= MaxRecord,
         Charge(u)' <= size, \A v \in Uploads \ {u} : Charge(v)' <= Charge(v)
  PROVE  QuotaHolds'
<1> DEFINE g == [v \in Uploads |-> Charge(v)']
<1>0. PICK T : T = stored' \cup (Uploads \ revived')
  OBVIOUS
<1>1. ASSUME NEW v \in Uploads PROVE g[v] \in Int /\ g[v] >= 0 /\ g[v] = Charge(v)'
  <2>1. Charge(v)' \in Nat
    BY LimitsPositive DEF TypeOK, Charge, ObjectRows, UploadRows
  <2> QED BY <2>1
<1>2. T \in SUBSET Uploads
  BY <1>0 DEF TypeOK
<1>3. /\ Charged(T)' = SumFunctionOnSet(g, T)
      /\ Charged(Uploads \ {u})' = SumFunctionOnSet(g, Uploads \ {u})
  BY DEF Charged
<1>4. Charged(Uploads \ {u})' <= Charged(Uploads \ {u}) /\ Charged(Uploads \ {u})' \in Int /\ Charged(Uploads \ {u}) \in Int
  BY ChargedGrows
<1>5. (Charged(T)' <= MaxRecord) => QuotaHolds'
  BY <1>0 DEF QuotaHolds, Charged
<1> HIDE DEF g
<1>6. SumFunctionOnSet(g, Uploads) = g[u] + SumFunctionOnSet(g, Uploads \ {u})
  BY <1>1, UploadsFinite, SumSplits
<1>7. SumFunctionOnSet(g, T) <= SumFunctionOnSet(g, Uploads)
  BY <1>1, <1>2, UploadsFinite, SumGrows
<1>8. SumFunctionOnSet(g, T) \in Int /\ SumFunctionOnSet(g, Uploads) \in Int
  <2>1. IsFiniteSet(T)
    BY <1>2, UploadsFinite, FS_Subset
  <2> QED BY <1>1, <1>2, <2>1, UploadsFinite, SumIsNumber
<1>9. g[u] <= size /\ g[u] \in Int
  BY <1>1
<1> QED BY <1>3, <1>4, <1>5, <1>6, <1>7, <1>8, <1>9, LimitsPositive

\* The charge does not grow where no row appears and no size changes.
LEMMA ChargeOfRows ==
  ASSUME TypeOK, TypeOK', NEW v \in Uploads,
         objects'[v] # None => objects[v] # None /\ objects'[v].size = objects[v].size,
         uploads'[v] # None /\ uploads'[v].state # "attached"
           => uploads[v] # None /\ uploads[v].state # "attached" /\ uploads'[v].size = uploads[v].size
  PROVE  Charge(v)' <= Charge(v)
<1>1. /\ objects[v] # None => objects[v].size \in Nat
      /\ uploads[v] # None => uploads[v].size \in Nat
  BY LimitsPositive DEF TypeOK, ObjectRows, UploadRows
<1> QED BY <1>1 DEF Charge

\* Every step keeps the quota: those that charge more have asked first.
LEMMA QuotaStep == IInv /\ TypeOK' /\ QuotaHolds /\ [Next]_vars => QuotaHolds'
<1> SUFFICES ASSUME IInv, TypeOK, TypeOK', QuotaHolds, [Next]_vars PROVE QuotaHolds'
  BY DEF IInv
<1> DEFINE Same(v) ==
      /\ objects'[v] # None => objects[v] # None /\ objects'[v].size = objects[v].size
      /\ uploads'[v] # None /\ uploads'[v].state # "attached"
           => uploads[v] # None /\ uploads[v].state # "attached" /\ uploads'[v].size = uploads[v].size
<1>s. ASSUME Kept' \subseteq Kept, \A v \in Kept' : Same(v) PROVE QuotaHolds'
  <2>1. ASSUME NEW v \in Kept' PROVE v \in Uploads /\ Same(v)
    BY <1>s DEF Kept, TypeOK
  <2> HIDE DEF Kept
  <2> QED BY <1>s, <2>1, ChargeOfRows, QuotaShrinks
<1>c. ASSUME UNCHANGED <<stored, revived>>, \A v \in Uploads : Charge(v)' <= Charge(v) PROVE QuotaHolds'
  <2>1. Kept' = Kept /\ \A v \in Kept' : v \in Uploads
    BY <1>c DEF Kept, TypeOK
  <2> QED BY <1>c, <2>1, QuotaShrinks
<1>k. ASSUME UNCHANGED <<stored, revived>>, \A v \in Uploads : Same(v) PROVE QuotaHolds'
  BY <1>k, <1>s DEF Kept, TypeOK
<1>f. ASSUME UNCHANGED <<uploads, objects>>, Kept' \subseteq Kept PROVE QuotaHolds'
  BY <1>f, <1>s
<1>u. ASSUME UNCHANGED <<uploads, objects, stored, revived>> PROVE QuotaHolds'
  BY <1>u, <1>f DEF Kept
<1>r. ASSUME NEW u \in Uploads, NEW row \in UploadRows, uploads[u] # None, uploads[u].state \in ActiveStates,
             row.size = uploads[u].size, uploads' = [uploads EXCEPT ![u] = row], UNCHANGED <<objects, stored, revived>>
      PROVE  QuotaHolds'
  BY <1>k, <1>r DEF TypeOK, ActiveStates
<1>n. ASSUME NEW u \in Uploads, CanRenew(u), Renewed(u), UNCHANGED <<stored, revived>> PROVE QuotaHolds'
  <2> DEFINE row == [uploads[u] EXCEPT !.lease = Lease]
  <2>1. uploads[u] # None /\ uploads[u].state \in ActiveStates /\ uploads[u] \in UploadRows
    BY <1>n DEF CanRenew, Owned, TypeOK
  <2>2. row \in UploadRows /\ row.size = uploads[u].size
    BY <2>1, LimitsPositive, QuietOutlastsPut DEF UploadRows
  <2>3. uploads' = [uploads EXCEPT ![u] = row]
    BY <1>n DEF Renewed, TypeOK
  <2> HIDE DEF row
  <2> QED BY <1>n, <1>r, <2>1, <2>2, <2>3 DEF Renewed
<1>1. ASSUME NEW u \in Uploads, NEW t \in Takes, NEW declared \in 1 .. MaxObject, Reserve(u, t, declared)
      PROVE  QuotaHolds'
  <2> DEFINE row == [state |-> "reserved", take |-> t, size |-> declared, actual |-> FALSE, lease |-> Lease]
             f == [v \in Uploads |-> Charge(v)]
  <2>1. uploads[u] = None /\ objects[u] = None
    BY <1>1 DEF Reserve, IInv, TablesAgree, UnusedIsClean
  <2>2. row \in UploadRows
    BY LimitsPositive, QuietOutlastsPut DEF UploadRows, UploadStates, ActiveStates
  <2>3. row.size = declared
    OBVIOUS
  <2>4. uploads' = [uploads EXCEPT ![u] = row] /\ UNCHANGED objects /\ Charged(Uploads) + declared <= MaxRecord
    BY <1>1 DEF Reserve
  <2> HIDE DEF row
  <2>5. Charge(u)' <= declared /\ \A v \in Uploads \ {u} : Charge(v)' = Charge(v)
    BY <2>1, <2>2, <2>3, <2>4 DEF Charge, TypeOK
  <2>6. \A v \in Uploads : Charge(v) \in Nat /\ f[v] = Charge(v)
    BY ChargeIsNumber
  <2>7. Charged(Uploads \ {u}) = SumFunctionOnSet(f, Uploads \ {u}) /\ Charged(Uploads) = SumFunctionOnSet(f, Uploads)
    BY DEF Charged
  <2> HIDE DEF f
  <2>8. Charged(Uploads) = Charge(u) + Charged(Uploads \ {u})
    BY <2>6, <2>7, UploadsFinite, SumSplits
  <2>9. Charged(Uploads) \in Int /\ Charged(Uploads \ {u}) \in Int
    <3>1. IsFiniteSet(Uploads \ {u})
      BY UploadsFinite, FS_Subset
    <3> QED BY <2>6, <2>7, <3>1, UploadsFinite, SumIsNumber
  <2>10. Charged(Uploads \ {u}) + declared <= MaxRecord
    BY <2>4, <2>6, <2>8, <2>9, LimitsPositive
  <2>11. \A v \in Uploads \ {u} : Charge(v)' <= Charge(v)
    BY <2>5, <2>6
  <2> QED BY <2>5, <2>10, <2>11, QuotaAsked
<1>2. ASSUME NEW u \in Uploads, NEW size \in 1 .. MaxObject, StoreBegin(u, size) PROVE QuotaHolds'
  <2>1. CASE Fail(u)
    BY <1>2, <1>u, <2>1 DEF StoreBegin, Fail, tables
  <2>2. CASE ~Fail(u)
    <3> DEFINE row == [uploads[u] EXCEPT !.state = "transferring", !.size = size, !.actual = TRUE, !.lease = Lease]
    <3>1. uploads[u] \in UploadRows /\ u \in Active /\ Charged(Uploads \ {u}) + size <= MaxRecord
      BY <1>2, <2>2 DEF TypeOK, StoreBegin, Owned, Active, ActiveStates
    <3>2. row \in UploadRows /\ row.size = size
      <4>1. "transferring" \in UploadStates /\ Lease \in -Quiet .. Lease
        BY LimitsPositive, QuietOutlastsPut DEF UploadStates, ActiveStates
      <4>2. row \in UploadRows
        BY <3>1, <4>1, UploadRow
      <4> QED BY <3>1, <4>2 DEF UploadRows
    <3>3. uploads' = [uploads EXCEPT ![u] = row] /\ UNCHANGED objects
      BY <1>2, <2>2, <3>1 DEF TypeOK, StoreBegin
    <3>4. objects[u] = None
      BY <3>1 DEF IInv, TablesAgree, OneOwner, Settled, Active, ActiveStates
    <3> HIDE DEF row
    <3>5. Charge(u)' <= size /\ \A v \in Uploads \ {u} : Charge(v)' = Charge(v)
      BY <3>2, <3>3, <3>4 DEF Charge, TypeOK
    <3>6. \A v \in Uploads \ {u} : Charge(v)' <= Charge(v)
      BY <3>5, ChargeIsNumber
    <3> QED BY <3>1, <3>5, <3>6, QuotaAsked
  <2> QED BY <2>1, <2>2
<1>3. ASSUME NEW u \in Uploads, StoreEnd(u) PROVE QuotaHolds'
  <2>1. CASE Fail(u)
    BY <1>3, <1>u, <2>1 DEF StoreEnd, Fail, tables
  <2>2. CASE ~Fail(u)
    <3> DEFINE row == [uploads[u] EXCEPT !.state = "object_ready"]
    <3>1. uploads[u] \in UploadRows /\ uploads[u] # None /\ uploads[u].state \in ActiveStates
      BY <1>3, <2>2 DEF TypeOK, StoreEnd, Owned, ActiveStates
    <3>2. row \in UploadRows /\ row.size = uploads[u].size
      BY <3>1 DEF UploadRows, UploadStates, ActiveStates
    <3>3. uploads' = [uploads EXCEPT ![u] = row] /\ UNCHANGED <<objects, stored, revived>>
      BY <1>3, <2>2, <3>1 DEF TypeOK, StoreEnd
    <3> HIDE DEF row
    <3> QED BY <1>r, <3>1, <3>2, <3>3
  <2> QED BY <2>1, <2>2
<1>4. ASSUME NEW u \in Uploads, Attach(u) PROVE QuotaHolds'
  <2>1. CASE Fail(u)
    BY <1>4, <1>u, <2>1 DEF Attach, Fail, tables
  <2>2. CASE ~Fail(u)
    <3>1. /\ uploads[u] \in UploadRows /\ uploads[u] # None /\ uploads[u].state = "object_ready" /\ Attached(u)
          /\ UNCHANGED <<stored, revived>>
      BY <1>4, <2>2 DEF TypeOK, Attach, Owned
    <3>2. objects[u] = None
      BY <3>1 DEF IInv, TablesAgree, OneOwner, Settled
    <3>3. objects'[u].size = uploads[u].size /\ uploads'[u].state = "attached"
      BY <3>1 DEF Attached, TypeOK, UploadRows
    <3>4. Charge(u)' <= Charge(u)
      <4>1. Charge(u) = uploads[u].size /\ uploads[u].size \in Nat
        BY <3>1, <3>2, LimitsPositive DEF Charge, UploadRows
      <4>2. Charge(u)' = uploads[u].size \/ Charge(u)' = 0
        BY <3>3, <4>1 DEF Charge
      <4> QED BY <4>1, <4>2
    <3>5. ASSUME NEW v \in Uploads \ {u} PROVE Charge(v)' <= Charge(v)
      <4>1. uploads'[v] = uploads[v]
        BY <3>1 DEF Attached, TypeOK
      <4>2. objects'[v] = objects[v] \/ (objects[v] # None /\ objects'[v].size = objects[v].size)
        <5>1. CASE v \in Replaced(u)
          <6>1. objects[v] # None /\ objects[v] \in ObjectRows
            BY <5>1 DEF Replaced, TypeOK
          <6>2. objects'[v] = [objects[v] EXCEPT !.state = "cleanup_pending"]
            BY <3>1, <5>1 DEF Attached
          <6> QED BY <6>1, <6>2 DEF ObjectRows
        <5>2. CASE v \notin Replaced(u)
          BY <3>1, <5>2 DEF Attached
        <5> QED BY <5>1, <5>2
      <4> QED BY <4>1, <4>2, ChargeOfRows
    <3> QED BY <1>c, <3>1, <3>4, <3>5
  <2> QED BY <2>1, <2>2
<1>5. ASSUME NEW u \in Uploads, Abandon(u) PROVE QuotaHolds'
  <2>1. CASE uploads[u] # None /\ uploads[u].state # "attached"
    <3>1. uploads[u] \in UploadRows
      BY <2>1 DEF TypeOK
    <3>2. uploads'[u] = None \/ uploads'[u] = [uploads[u] EXCEPT !.state = "abandoned"]
      BY <1>5, <2>1 DEF Abandon, TypeOK
    <3>3. Same(u)
      BY <1>5, <2>1, <3>1, <3>2 DEF Abandon, UploadRows
    <3>4. \A v \in Uploads \ {u} : Same(v)
      BY <1>5, <2>1 DEF Abandon, TypeOK
    <3> QED BY <1>5, <1>k, <3>3, <3>4 DEF Abandon
  <2>2. CASE ~(uploads[u] # None /\ uploads[u].state # "attached")
    BY <1>5, <1>u, <2>2 DEF Abandon
  <2> QED BY <2>1, <2>2
<1>6. ASSUME NEW u \in Uploads, PutLands(u) PROVE QuotaHolds'
  <2>1. u \notin revived
    BY <1>6 DEF PutLands, IInv, TablesAgree, PutsAreSeen, OneOwner, Settled
  <2>2. Kept' \subseteq Kept
    BY <1>6, <2>1 DEF Kept, PutLands
  <2> QED BY <1>6, <1>f, <2>2 DEF PutLands, tables
<1>7. ASSUME NEW u \in Uploads, NEW t \in Takes, Refer(t, u) PROVE QuotaHolds'
  <2>1. Kept' \subseteq Kept
    BY <1>7 DEF Kept, Refer
  <2> QED BY <1>7, <1>f, <2>1 DEF Refer
<1>8. ASSUME NEW w \in Workers, Expire(w) PROVE QuotaHolds'
  <2>1. ASSUME NEW v \in Uploads PROVE Same(v)
    <3>1. uploads'[v] = uploads[v] \/ uploads'[v] = None
          \/ (v \in Active /\ uploads'[v] = [uploads[v] EXCEPT !.state = "abandoned"])
      BY <1>8 DEF Expire
    <3>2. v \in Active => uploads[v] \in UploadRows /\ uploads[v] # None /\ uploads[v].state # "attached"
      BY DEF Active, ActiveStates, TypeOK
    <3>3. ASSUME NEW r \in UploadRows PROVE [r EXCEPT !.state = "abandoned"].size = r.size
      BY DEF UploadRows
    <3> QED BY <1>8, <3>1, <3>2, <3>3 DEF Expire
  <2> QED BY <1>8, <1>k, <2>1 DEF Expire
<1>9. ASSUME NEW w \in Workers, Promote(w) PROVE QuotaHolds'
  <2> DEFINE abandoned == uploads[worker[w].key] # None /\ uploads[worker[w].key].state = "abandoned"
  <2>1. PICK u \in Uploads : u = worker[w].key /\ u \in revived
    BY <1>9, KeyInHand DEF Promote, WithKey, IInv, TablesAgree, CleanupIsRight
  <2>2. UNCHANGED <<stored, revived>>
    BY <1>9 DEF Promote
  <2>3. Settled(u) /\ (u \in stored => objects[u] # None)
    BY <2>1 DEF IInv, TablesAgree, OneOwner, CleanupIsRight
  <2>4. UNCHANGED uploads
    BY <1>9, <2>1, <2>3 DEF Promote, Settled, TypeOK
  <2>5. \A v \in Uploads \ {u} : objects'[v] = objects[v]
    BY <1>9, <2>1 DEF Promote, TypeOK
  <2>6. u \in stored => objects'[u].size = objects[u].size
    BY <1>9, <2>1, <2>3 DEF Promote, TypeOK
  <2>7. \A v \in Kept' : v \in Uploads /\ Same(v)
    BY <2>1, <2>2, <2>3, <2>4, <2>5, <2>6 DEF Kept, TypeOK
  <2> QED BY <1>s, <2>2, <2>7 DEF Kept
<1>10. ASSUME NEW w \in Workers, Requeue(w) PROVE QuotaHolds'
  <2>1. PICK u \in Uploads : u = worker[w].key
    BY <1>10, KeyInHand DEF Requeue, WithKey
  <2>2. \A v \in Uploads \ {u} : objects'[v] = objects[v]
    BY <1>10, <2>1 DEF Requeue, TypeOK
  <2>3. objects'[u] # None => objects[u] # None /\ objects'[u].size = objects[u].size
    <3>1. CASE objects[u] # None /\ objects[u].state = "attached"
      <4>1. objects[u] \in ObjectRows /\ objects'[u] = [objects[u] EXCEPT !.state = "cleanup_pending"]
        BY <1>10, <2>1, <3>1 DEF Requeue, TypeOK
      <4> QED BY <3>1, <4>1 DEF ObjectRows
    <3>2. CASE ~(objects[u] # None /\ objects[u].state = "attached")
      BY <1>10, <2>1, <3>2 DEF Requeue
    <3> QED BY <3>1, <3>2
  <2> QED BY <1>10, <1>k, <2>2, <2>3 DEF Requeue
<1>11. ASSUME NEW w \in Workers, DeleteObject(w) PROVE QuotaHolds'
  <2>1. Kept' \subseteq Kept
    BY <1>11 DEF DeleteObject, Kept
  <2> QED BY <1>11, <1>f, <2>1 DEF DeleteObject, tables
<1>12. ASSUME NEW w \in Workers, Forget(w) PROVE QuotaHolds'
  <2>1. ASSUME NEW v \in Uploads PROVE (objects'[v] = objects[v] \/ objects'[v] = None) /\ (uploads'[v] = uploads[v] \/ uploads'[v] = None)
    BY <1>12 DEF Forget, TypeOK
  <2>2. \A v \in Uploads : Same(v)
    BY <2>1
  <2> QED BY <1>12, <1>k, <2>2 DEF Forget
<1>13. CASE Tick
  <2>1. ASSUME NEW v \in Uploads PROVE Same(v)
    <3>1. uploads'[v] = uploads[v]
          \/ (v \in Active /\ uploads'[v] = [uploads[v] EXCEPT !.lease = Lower(uploads[v].lease, -Quiet)])
      BY <1>13 DEF Tick
    <3>2. v \in Active => uploads[v] \in UploadRows /\ uploads[v] # None /\ uploads[v].state # "attached"
      BY DEF Active, ActiveStates, TypeOK
    <3>3. ASSUME NEW r \in UploadRows, NEW l PROVE [r EXCEPT !.lease = l].size = r.size
      BY DEF UploadRows
    <3>4. v \in Active => uploads'[v] = uploads[v] \/ uploads'[v].size = uploads[v].size
      BY <3>1, <3>2, <3>3
    <3> QED BY <1>13, <3>1, <3>2, <3>4 DEF Tick
  <2> QED BY <1>13, <1>k, <2>1 DEF Tick
<1>14. ASSUME NEW u \in Uploads, UploadStep(u) \/ Renew(u) \/ GiveUp(u) \/ Die(u) PROVE QuotaHolds'
  <2> HIDE DEF QuotaHolds
  <2> QED BY <1>n, <1>u, <1>2, <1>3, <1>4, <1>5, <1>14
     DEF UploadStep, StartStage, StageEnds, StartPut, PutTimesOut, Answer, Renew, GiveUp, Die, Fail, tables
<1>15. ASSUME NEW w \in Workers, WorkStep(w) \/ WorkFails(w) \/ WorkerDies(w) PROVE QuotaHolds'
  BY <1>u, <1>8, <1>9, <1>10, <1>11, <1>12, <1>15
     DEF WorkStep, Claim, Check, Recheck, WorkFails, WorkerDies, tables
<1>16. CASE UNCHANGED vars
  BY <1>16, <1>u DEF vars
<1> QED BY <1>1, <1>6, <1>7, <1>13, <1>14, <1>15, <1>16 DEF Next

-----------------------------------------------------------------------------
(* The theorems                                                             *)

\* The invariant holds in every state of every behaviour.
THEOREM InvariantHolds == Spec => []IInv
BY InitIInv, IInvStep, PTL DEF Spec

\* The rows of the tables and the local state of uploads and passes keep their types.
THEOREM TypesHold == Spec => []TypeOK
<1>1. IInv => TypeOK
  BY DEF IInv
<1> QED BY <1>1, InvariantHolds, PTL

\* A take can be downloaded whatever leases ran out, processes died and passes ran:
\* no step of a recovery pass deletes bytes that the record names.
THEOREM TakesStayServed == Spec => []TakesAreServed
<1>1. IInv => TakesAreServed
  BY DEF IInv, TablesAgree
<1> QED BY <1>1, InvariantHolds, PTL

\* No replaced object keeps its place: as long as no replaced key is named again,
\* attached objects are those the takes name.
THEOREM AttachedStaysReferenced == Spec => []AttachedIsReferenced
<1>1. IInv => AttachedIsReferenced
  BY DEF IInv, TablesAgree
<1> QED BY <1>1, InvariantHolds, PTL

\* The quota of the record, the transfers of the deployment and the account of the
\* bytes hold for any number of uploads, passes and takes, and any limits.
THEOREM LimitsAlwaysHold == Spec => []LimitsHold
<1>1. Init => QuotaHolds /\ TransfersBounded
  <2> SUFFICES ASSUME Init PROVE QuotaHolds /\ TransfersBounded
    OBVIOUS
  <2>1. Holders = {}
    BY DEF Init, Holders
  <2>2. TransfersBounded
    BY <2>1, LimitsPositive, FS_EmptySet DEF TransfersBounded
  <2> DEFINE f == [u \in Uploads |-> Charge(u)]
  <2>3. \A u \in Uploads : f[u] = 0
    BY DEF Init, Charge
  <2>4. Charged(Kept) = SumFunctionOnSet(f, Kept) /\ Kept = Uploads
    BY DEF Init, Charged, Kept
  <2> HIDE DEF f
  <2>5. SumFunctionOnSet(f, Uploads) = 0
    BY <2>3, UploadsFinite, SumOfZeros
  <2> QED BY <2>2, <2>4, <2>5, LimitsPositive DEF QuotaHolds, Kept
<1>2. IInv /\ IInv' /\ QuotaHolds /\ TransfersBounded /\ [Next]_vars => (QuotaHolds /\ TransfersBounded)'
  BY QuotaStep, TransfersStep DEF IInv
<1>3. IInv /\ QuotaHolds /\ TransfersBounded => LimitsHold
  BY DEF IInv, TablesAgree, LimitsHold
<1> QED BY <1>1, <1>2, <1>3, InvariantHolds, PTL DEF Spec
===============================================================================
