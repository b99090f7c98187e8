--------------------------- MODULE LocalMediaProofs ---------------------------
(***************************************************************************)
(* LocalMedia, for any number of uploads and takes, any limits and any     *)
(* number of failures: what the record names is served, an object no take  *)
(* names is on its way out, the quota holds and no bytes are forgotten.    *)
(*                                                                         *)
(* None of the four is inductive.  IInv adds what the code relies on       *)
(* without saying so: that the pieces of code that hold the event loop are *)
(* alone (OneAtATime), that nobody knows a key before its bytes are all    *)
(* there (FreshIsUnnamed), what each place of serveUpload may count on     *)
(* (WriterFits), what the pass may (PassFits), that a key has one take     *)
(* (TakesDiffer) and one home in the state file (OneHome), and that an     *)
(* attached object which lost its take has a writer that will say so       *)
(* (AttachedIsKnown).                                                      *)
(*                                                                         *)
(* Steps are grouped by what they disturb: UploadMove for a writer that    *)
(* attaches and erases nothing, PassMove for the pass, and a lemma each    *)
(* for the others.                                                         *)
(***************************************************************************)
EXTENDS LocalMedia, FiniteSums

-----------------------------------------------------------------------------
(* The invariant                                                            *)

\* An upload whose bytes may still arrive: before the record hears of it, or while a
\* PUT to the bucket is under way.
Early == {"none", "stage", "put", "landed", "ended", "commit"}
Fresh(u) == writer[u].pc \in Early \/ flight[u] > 0

\* One event loop.
PassBusy == pass.pc \notin IF backend = "fs" THEN {"off"} ELSE {"off", "erase"}
OneAtATime ==
  /\ \A u, v \in Uploads : writer[u].pc \in Synchronous /\ writer[v].pc \in Synchronous => u = v
  /\ \A u \in Uploads : writer[u].pc \in Synchronous => ~PassBusy
\* A process that is down runs nothing.
DownIsQuiet == process = "down" => pass.pc = "off" /\ \A u \in Uploads : writer[u].pc \in {"none", "done"}

\* A fresh key is in nobody's hands: no take, no object, no pass and no replacement has it.
FreshIsUnnamed == \A u \in Uploads :
  /\ Fresh(u) => ~Referenced(u) /\ metas[u] = None /\ u \notin pass.todo
                 /\ ~(pass.loop = "objects" /\ pass.key = u) /\ \A v \in Uploads : writer[v].old # u
  /\ writer[u].pc = "none" => rows[u] = None /\ u \notin stored /\ pass.key # u
  /\ writer[u].pc \in {"none", "stage", "landed", "ended", "commit"} \/ backend = "fs" => flight[u] = 0

\* What serveUpload may count on at each of its places.
WriterFits(u) ==
  /\ writer[u].pc \in {"put", "landed", "ended"} /\ u \in Active => rows[u].actual
  /\ writer[u].pc \in {"landed", "ended"} /\ u \in Active => u \in stored
  /\ writer[u].pc \in {"commit", "attach"} => u \in Active /\ rows[u].actual /\ u \in stored
  /\ writer[u].pc = "attach" => Referenced(u)
  /\ writer[u].pc \in {"abandon", "erase", "forget"} => ~Referenced(u) \/ u \in thrown
  /\ writer[u].pc = "forget" => u \notin stored \/ u \in strays
  /\ writer[u].pc \in {"eraseOld", "forgetOld"} => writer[u].old # None
  /\ writer[u].pc = "forgetOld" => writer[u].old \notin stored \/ writer[u].old \in strays
  /\ writer[u].old # None => ~Referenced(writer[u].old)
WritersFit == \A u \in Uploads : WriterFits(u)

\* What the pass may count on: it only removes what no take names.
PassFits ==
  /\ pass.pc \in {"off", "next"} <=> pass.key = None
  /\ pass.pc = "recheck" => metas[pass.key] # None
  /\ pass.pc \in {"erase", "forget"} => ~Referenced(pass.key) /\ pass.key \notin Active
  /\ pass.pc = "forget" => pass.key \notin stored \/ pass.key \in strays

\* A key is the media of one take, and is an upload or an object of the state file.
TakesDiffer == \A s, t \in Takes : takes[s] = takes[t] /\ takes[s] # None => s = t
OneHome == \A u \in Uploads :
  /\ metas[u] # None => rows[u] = None
  /\ Referenced(u) /\ rows[u] # None => rows[u].actual

\* An attached object without a take has a writer that is about to make it pending.
AttachedIsKnown == \A u \in Uploads : metas[u] # None /\ ~metas[u].pending =>
  Referenced(u) \/ u \in overlooked \/ \E v \in Uploads : writer[v].pc = "attach" /\ writer[v].old = u

Agree == /\ OneAtATime /\ DownIsQuiet /\ FreshIsUnnamed /\ WritersFit /\ PassFits /\ TakesDiffer /\ OneHome
         /\ AttachedIsKnown /\ TakesAreServed /\ BytesAreAccounted
IInv == TypeOK /\ Agree

-----------------------------------------------------------------------------
(* Rows and types                                                           *)

\* Giving an upload up changes its state only.
LEMMA AbandonedRow ==
  ASSUME NEW r \in Rows
  PROVE  /\ Abandoned(r) \in Rows /\ Abandoned(r) # None /\ Abandoned(r).state = "abandoned"
         /\ Abandoned(r).actual = r.actual /\ Abandoned(r).size = r.size /\ Abandoned(r).lease = r.lease
<1>1. Abandoned(r) \in Rows
  BY DEF Abandoned, Rows
<1> QED BY <1>1, NoneIsNoRow DEF Abandoned, Rows

\* The other updates of a row.
LEMMA UpdatedRow ==
  ASSUME NEW r \in Rows
  PROVE  /\ \A l \in 0 .. Lease : [r EXCEPT !.lease = l] \in Rows
         /\ \A n \in 1 .. MaxObject : [r EXCEPT !.size = n, !.actual = TRUE] \in Rows
         /\ [r EXCEPT !.state = "object_ready"] \in Rows
BY DEF Rows

\* The updates of the pass.
PassSteps == {"off", "next", "recheck", "erase", "forget"}
LEMMA UpdatedPass ==
  ASSUME NEW r \in Passes
  PROVE  /\ \A pc \in PassSteps, k \in Uploads \cup {None} : [r EXCEPT !.pc = pc, !.key = k] \in Passes
         /\ \A pc \in PassSteps : [r EXCEPT !.pc = pc] \in Passes
         /\ \A s \in SUBSET Uploads : [r EXCEPT !.seen = s] \in Passes /\ [r EXCEPT !.todo = s] \in Passes
         /\ \A l \in {"uploads", "objects"} : [r EXCEPT !.loop = l] \in Passes
BY DEF Passes, PassSteps

\* Goto moves one writer.
LEMMA GotoWriter ==
  ASSUME TypeOK, NEW u \in Uploads, NEW place \in Places, Goto(u, place)
  PROVE  /\ writer' \in [Uploads -> Writers] /\ writer'[u].pc = place /\ writer'[u].old = writer[u].old
         /\ \A v \in Uploads \ {u} : writer'[v] = writer[v]
BY DEF TypeOK, Writers, Goto

\* Losing an upload leaves the rows of the state file in their type.
LEMMA DisownedRows ==
  ASSUME TypeOK, NEW u \in Uploads, Disowned(u)
  PROVE  rows' \in [Uploads -> Rows \cup {None}]
<1>1. u \in Active => rows[u] \in Rows
  BY DEF TypeOK, Active
<1>2. u \in Active => Abandoned(rows[u]) \in Rows
  BY <1>1, AbandonedRow
<1> QED BY <1>2 DEF TypeOK, Disowned

\* So does the sweep.
LEMMA SweptRows ==
  ASSUME TypeOK
  PROVE  Swept \in [Uploads -> Rows \cup {None}]
<1>1. \A u \in Active : rows[u] \in Rows
  BY DEF TypeOK, Active
<1>2. \A u \in Active : Abandoned(rows[u]) \in Rows
  BY <1>1, AbandonedRow
<1> QED BY <1>2 DEF TypeOK, Swept

\* Every step keeps the types.
LEMMA TypeStep == IInv /\ [Next]_vars => TypeOK'
<1> SUFFICES ASSUME IInv, TypeOK, [Next]_vars PROVE TypeOK'
  BY DEF IInv
<1> USE LimitsPositive, NoneIsNoUpload
<1>0. /\ "stage" \in Places /\ "landed" \in Places /\ "ended" \in Places /\ "commit" \in Places /\ "attach" \in Places
      /\ "abandon" \in Places /\ "erase" \in Places /\ "forget" \in Places /\ "eraseOld" \in Places /\ "forgetOld" \in Places
      /\ "done" \in Places /\ "put" \in Places /\ "none" \in Places
  BY DEF Places
<1>1. ASSUME NEW u \in Uploads, NEW t \in Takes, NEW declared \in 1 .. MaxObject, Reserve(u, t, declared) PROVE TypeOK'
  <2>1. [state |-> "reserved", take |-> t, size |-> declared, actual |-> FALSE, lease |-> Lease] \in Rows
    BY DEF Rows
  <2>2. writer' \in [Uploads -> Writers]
    BY <1>0, <1>1, GotoWriter DEF Reserve, TypeOK
  <2>3. rows' \in [Uploads -> Rows \cup {None}]
    <3> DEFINE row == [state |-> "reserved", take |-> t, size |-> declared, actual |-> FALSE, lease |-> Lease]
    <3>1. rows' = Swept \/ rows' = [Swept EXCEPT ![u] = row]
      BY <1>1 DEF Reserve
    <3> HIDE DEF row
    <3> QED BY <2>1, <3>1, SweptRows DEF row
  <2> QED BY <1>1, <2>2, <2>3 DEF Reserve, TypeOK, history
<1>2. ASSUME NEW u \in Uploads, Renew(u) PROVE TypeOK'
  <2>1. CASE Owned(u)
    <3>1. rows[u] \in Rows /\ [rows[u] EXCEPT !.lease = Lease] \in Rows
      <4>1. rows[u] \in Rows /\ Lease \in 0 .. Lease
        BY <2>1 DEF Owned, Active, TypeOK
      <4> QED BY <4>1, UpdatedRow
    <3> QED BY <1>2, <2>1, <3>1 DEF Renew, TypeOK, history
  <2>2. CASE ~Owned(u)
    BY <1>0, <1>2, <2>2, DisownedRows, GotoWriter DEF Renew, TypeOK, history
  <2> QED BY <2>1, <2>2
<1>3. ASSUME NEW u \in Uploads, NEW size \in 1 .. MaxObject, StageEnds(u, size) PROVE TypeOK'
  <2>1. writer' \in [Uploads -> Writers]
    BY <1>0, <1>3, GotoWriter DEF StageEnds
  <2>2. flight' \in [Uploads -> 0 .. PutTime]
    BY <1>3 DEF StageEnds, TypeOK
  <2>3. rows' \in [Uploads -> Rows \cup {None}]
    <3>1. CASE Owned(u) /\ Fits(u, size)
      <4>1. rows[u] \in Rows /\ [rows[u] EXCEPT !.size = size, !.actual = TRUE] \in Rows
        BY <3>1, UpdatedRow DEF Owned, Active, TypeOK
      <4>2. rows' = [rows EXCEPT ![u] = [rows[u] EXCEPT !.size = size, !.actual = TRUE]]
        BY <1>3, <3>1 DEF StageEnds, TypeOK
      <4> QED BY <4>1, <4>2 DEF TypeOK
    <3>2. CASE ~(Owned(u) /\ Fits(u, size))
      BY <1>3, <3>2, DisownedRows DEF StageEnds, TypeOK
    <3> QED BY <3>1, <3>2
  <2> QED BY <1>3, <2>1, <2>2, <2>3 DEF StageEnds, TypeOK, history
<1>4. ASSUME NEW u \in Uploads, TransferFails(u) PROVE TypeOK'
  BY <1>0, <1>4, GotoWriter DEF TransferFails, TypeOK, history
<1>5. ASSUME NEW u \in Uploads, PutArrives(u) PROVE TypeOK'
  <2>1. writer' \in [Uploads -> Writers]
    BY <1>0, <1>5, GotoWriter DEF PutArrives, TypeOK
  <2>2. flight' \in [Uploads -> 0 .. PutTime] /\ stored' \subseteq Uploads /\ strays' \subseteq Uploads
    BY <1>5 DEF PutArrives, Arrived, TypeOK
  <2> QED BY <1>5, <2>1, <2>2 DEF PutArrives, TypeOK, history
<1>6. ASSUME NEW u \in Uploads, PutEnds(u) PROVE TypeOK'
  <2>1. writer' \in [Uploads -> Writers]
    BY <1>0, <1>6, GotoWriter DEF PutEnds
  <2>2. stored' \subseteq Uploads /\ strays' \subseteq Uploads
    BY <1>6 DEF PutEnds, Arrived, TypeOK
  <2> QED BY <1>6, <2>1, <2>2 DEF PutEnds, TypeOK, history
<1>7. ASSUME NEW u \in Uploads, ObjectReady(u) PROVE TypeOK'
  <2>1. writer' \in [Uploads -> Writers]
    BY <1>0, <1>7, GotoWriter DEF ObjectReady
  <2>2. rows' \in [Uploads -> Rows \cup {None}]
    <3>1. CASE Owned(u)
      <4>1. rows[u] \in Rows /\ [rows[u] EXCEPT !.state = "object_ready"] \in Rows
        BY <3>1, UpdatedRow DEF Owned, Active, TypeOK
      <4> QED BY <1>7, <3>1, <4>1 DEF ObjectReady, TypeOK
    <3>2. CASE ~Owned(u)
      BY <1>7, <3>2, DisownedRows DEF ObjectReady
    <3> QED BY <3>1, <3>2
  <2> QED BY <1>7, <2>1, <2>2 DEF ObjectReady, TypeOK, history
<1>8. ASSUME NEW u \in Uploads, CommitRecord(u) PROVE TypeOK'
  <2>1. rows[u] \in Rows /\ rows[u].take \in Takes
    BY <1>8 DEF CommitRecord, IInv, Agree, WritersFit, WriterFits, Active, TypeOK, Rows
  <2>2. takes[rows[u].take] \in Uploads \cup {None}
    BY <2>1 DEF TypeOK
  <2>3. writer' \in [Uploads -> Writers]
    BY <1>0, <1>8, <2>2, GotoWriter DEF CommitRecord, TypeOK, Writers
  <2>4. takes' \in [Takes -> Uploads \cup {None}] /\ thrown' \subseteq Uploads /\ overlooked' \subseteq Uploads
        /\ stops' \in 0 .. MaxStops
    BY <1>8, <2>1, <2>2 DEF CommitRecord, TypeOK
  <2> QED BY <1>8, <2>3, <2>4 DEF CommitRecord, TypeOK, history
<1>9. ASSUME NEW u \in Uploads, AttachUpload(u) PROVE TypeOK'
  <2>1. writer' \in [Uploads -> Writers]
    BY <1>0, <1>9, GotoWriter DEF AttachUpload
  <2>2. rows' \in [Uploads -> Rows \cup {None}]
    BY <1>9, DisownedRows DEF AttachUpload, TypeOK
  <2>3. metas' \in [Uploads -> Metas \cup {None}]
    <3>1. CASE Owned(u)
      <4>1. rows[u] \in Rows
        BY <3>1 DEF Owned, Active, TypeOK
      <4>2. [size |-> rows[u].size, pending |-> FALSE] \in Metas
        BY <4>1 DEF Rows, Metas
      <4>3. ASSUME NEW k \in Replaced(u) PROVE [metas[k] EXCEPT !.pending = TRUE] \in Metas
        <5>1. metas[k] \in Metas
          BY DEF Replaced, TypeOK
        <5> QED BY <5>1 DEF Metas
      <4> DEFINE row == [size |-> rows[u].size, pending |-> FALSE]
      <4>4. /\ metas' = [k \in Uploads |-> metas'[k]]
            /\ metas'[u] = row
            /\ \A k \in Uploads \ {u} : metas'[k] = IF k \in Replaced(u) THEN [metas[k] EXCEPT !.pending = TRUE] ELSE metas[k]
        BY <1>9, <3>1 DEF AttachUpload
      <4>5. ASSUME NEW k \in Uploads PROVE metas'[k] \in Metas \cup {None}
        <5>1. CASE k = u
          BY <4>2, <4>4, <5>1
        <5>2. CASE k # u /\ k \in Replaced(u)
          BY <4>3, <4>4, <5>2
        <5>3. CASE k # u /\ k \notin Replaced(u)
          BY <4>4, <5>3 DEF TypeOK
        <5> QED BY <5>1, <5>2, <5>3
      <4> HIDE DEF row
      <4> QED BY <4>4, <4>5
    <3>2. CASE ~Owned(u)
      BY <1>9, <3>2 DEF AttachUpload, TypeOK
    <3> QED BY <3>1, <3>2
  <2>4. overlooked' \subseteq Uploads
    BY <1>9 DEF AttachUpload, TypeOK, Writers
  <2> QED BY <1>9, <2>1, <2>2, <2>3, <2>4 DEF AttachUpload, TypeOK, history
<1>10. ASSUME NEW u \in Uploads, Abandon(u) PROVE TypeOK'
  <2>1. writer' \in [Uploads -> Writers]
    BY <1>0, <1>10, GotoWriter DEF Abandon
  <2>2. rows[u] # None => Abandoned(rows[u]) \in Rows
    BY AbandonedRow DEF TypeOK
  <2>3. rows' \in [Uploads -> Rows \cup {None}]
    BY <1>10, <2>2 DEF Abandon, TypeOK
  <2> QED BY <1>10, <2>1, <2>3 DEF Abandon, TypeOK, history
<1>11. ASSUME NEW u \in Uploads, Erase(u) \/ EraseFails(u) \/ Forget(u) PROVE TypeOK'
  <2>1. writer' \in [Uploads -> Writers]
    BY <1>0, <1>11, GotoWriter DEF Erase, EraseFails, Forget
  <2>2. stored' \subseteq Uploads /\ stops' \in 0 .. MaxStops
    BY <1>11 DEF Erase, EraseFails, Forget, TypeOK
  <2>4. debris' \in BOOLEAN
    BY <1>11 DEF Erase, EraseFails, Forget, Leftover, TypeOK
  <2>3. rows' \in [Uploads -> Rows \cup {None}] /\ metas' \in [Uploads -> Metas \cup {None}]
    BY <1>11 DEF Erase, EraseFails, Forget, TypeOK
  <2> QED BY <1>11, <2>1, <2>2, <2>3, <2>4 DEF Erase, EraseFails, Forget, TypeOK, history
<1>12. Begun \in Passes /\ Off \in Passes
  BY DEF Begun, Off, Passes, Pending
<1>13. ASSUME StartPass \/ PassTurns \/ PassEnds PROVE TypeOK'
  <2>1. pass' \in Passes
    BY <1>12, <1>13 DEF StartPass, PassTurns, PassEnds, TypeOK, Passes
  <2> QED BY <1>13, <2>1 DEF StartPass, PassTurns, PassEnds, TypeOK, history
<1>14. ASSUME NEW u \in Uploads, PassUpload(u) PROVE TypeOK'
  <2>1. rows[u] \in Rows /\ Abandoned(rows[u]) \in Rows
    BY <1>14, AbandonedRow DEF PassUpload, TypeOK
  <2>2. pass' \in Passes
    <3> DEFINE seen == [pass EXCEPT !.seen = pass.seen \cup {u}]
    <3>1. seen \in Passes /\ "recheck" \in PassSteps /\ "erase" \in PassSteps
      <4>1. pass \in Passes /\ pass.seen \cup {u} \in SUBSET Uploads
        BY DEF TypeOK, Passes
      <4> QED BY <4>1, UpdatedPass DEF PassSteps
    <3>2. pass' = seen \/ pass' = [seen EXCEPT !.pc = "recheck", !.key = u] \/ pass' = [seen EXCEPT !.pc = "erase", !.key = u]
      BY <1>14 DEF PassUpload
    <3> HIDE DEF seen
    <3>3. [seen EXCEPT !.pc = "recheck", !.key = u] \in Passes /\ [seen EXCEPT !.pc = "erase", !.key = u] \in Passes
      BY <3>1, UpdatedPass
    <3> QED BY <3>1, <3>2, <3>3
  <2>3. rows' \in [Uploads -> Rows \cup {None}]
    BY <1>14, <2>1 DEF PassUpload, TypeOK
  <2>5. metas' \in [Uploads -> Metas \cup {None}]
    <3>1. [size |-> rows[u].size, pending |-> FALSE] \in Metas
      BY <2>1 DEF Rows, Metas
    <3>2. metas' = metas \/ metas' = [metas EXCEPT ![u] = [size |-> rows[u].size, pending |-> FALSE]]
      BY <1>14 DEF PassUpload
    <3> QED BY <3>1, <3>2 DEF TypeOK
  <2>4. stops' \in 0 .. MaxStops
    BY <1>14 DEF PassUpload, Failing, TypeOK
  <2> QED BY <1>14, <2>2, <2>3, <2>4, <2>5 DEF PassUpload, TypeOK, history
<1>15. ASSUME PassRecheck PROVE TypeOK'
  <2>1. pass.key \in Uploads /\ metas[pass.key] \in Metas
    BY <1>15 DEF PassRecheck, IInv, Agree, PassFits, TypeOK, Passes
  <2>2. pass' \in Passes
    <3>1. pass \in Passes /\ "next" \in PassSteps /\ None \in Uploads \cup {None}
      BY DEF TypeOK, PassSteps
    <3>2. [pass EXCEPT !.pc = "next", !.key = None] \in Passes
      BY <3>1, UpdatedPass
    <3> QED BY <1>15, <3>2 DEF PassRecheck
  <2>3. metas' \in [Uploads -> Metas \cup {None}]
    <3>1. [metas[pass.key] EXCEPT !.pending = TRUE] \in Metas
      BY <2>1 DEF Metas
    <3> QED BY <1>15, <3>1 DEF PassRecheck, TypeOK
  <2>4. stops' \in 0 .. MaxStops
    BY <1>15 DEF PassRecheck, Failing, TypeOK
  <2> QED BY <1>15, <2>2, <2>3, <2>4 DEF PassRecheck, TypeOK, history
<1>16. ASSUME NEW u \in Uploads, PassObject(u) PROVE TypeOK'
  <2>1. metas' \in [Uploads -> Metas \cup {None}]
    <3>1. u \in Pending => [metas[u] EXCEPT !.pending = FALSE] \in Metas
      <4>1. u \in Pending => metas[u] \in Metas
        BY DEF Pending, TypeOK
      <4> QED BY <4>1 DEF Metas
    <3>2. metas' = metas \/ (u \in Pending /\ metas' = [metas EXCEPT ![u] = [metas[u] EXCEPT !.pending = FALSE]])
      BY <1>16 DEF PassObject, TypeOK
    <3> QED BY <3>1, <3>2 DEF TypeOK
  <2>2. pass' \in Passes
    <3> DEFINE rest == [pass EXCEPT !.todo = pass.todo \ {u}]
    <3>1. rest \in Passes /\ "erase" \in PassSteps
      <4>1. pass \in Passes /\ pass.todo \ {u} \in SUBSET Uploads
        BY DEF TypeOK, Passes
      <4> QED BY <4>1, UpdatedPass DEF PassSteps
    <3>2. pass' = rest \/ pass' = [rest EXCEPT !.pc = "erase", !.key = u]
      BY <1>16 DEF PassObject
    <3> HIDE DEF rest
    <3>3. [rest EXCEPT !.pc = "erase", !.key = u] \in Passes
      BY <3>1, UpdatedPass
    <3> QED BY <3>1, <3>2, <3>3
  <2>3. stops' \in 0 .. MaxStops
    BY <1>16 DEF PassObject, Failing, TypeOK
  <2> QED BY <1>16, <2>1, <2>2, <2>3 DEF PassObject, TypeOK, history
<1>17. ASSUME PassErase \/ PassEraseFails \/ PassForget PROVE TypeOK'
  <2>1. pass' \in Passes
    <3>1. pass \in Passes /\ "next" \in PassSteps /\ "forget" \in PassSteps /\ None \in Uploads \cup {None}
      BY DEF TypeOK, PassSteps
    <3>2. [pass EXCEPT !.pc = "next", !.key = None] \in Passes /\ [pass EXCEPT !.pc = "forget"] \in Passes
      BY <3>1, UpdatedPass
    <3> QED BY <1>17, <3>2 DEF PassErase, PassEraseFails, PassForget
  <2>3. stops' \in 0 .. MaxStops /\ stored' \subseteq Uploads
    BY <1>17 DEF PassErase, PassEraseFails, PassForget, Failing, TypeOK
  <2>4. debris' \in BOOLEAN
    BY <1>17 DEF PassErase, PassEraseFails, PassForget, Leftover, TypeOK
  <2>2. rows' \in [Uploads -> Rows \cup {None}] /\ metas' \in [Uploads -> Metas \cup {None}]
    BY <1>17 DEF PassErase, PassEraseFails, PassForget, TypeOK
  <2> QED BY <1>17, <2>1, <2>2, <2>3, <2>4 DEF PassErase, PassEraseFails, PassForget, TypeOK, history
<1>18. CASE Crash
  <2>1. writer' \in [Uploads -> Writers]
    BY <1>0, <1>18 DEF Crash, Gone, Writers
  <2>2. stops' \in 0 .. MaxStops
    BY <1>18 DEF Crash, Failing, TypeOK
  <2>4. debris' \in BOOLEAN
    BY <1>18 DEF Crash, TypeOK
  <2>3. overlooked' \subseteq Uploads
    BY <1>18 DEF Crash, TypeOK, Writers
  <2> QED BY <1>12, <1>18, <2>1, <2>2, <2>3, <2>4 DEF Crash, TypeOK, history
<1>19. CASE Start
  <2>1. ASSUME NEW u \in Uploads, rows[u] # None PROVE Abandoned(rows[u]) \in Rows
    BY <2>1, AbandonedRow DEF TypeOK
  <2>2. rows' \in [Uploads -> Rows \cup {None}]
    BY <1>19, <2>1 DEF Start
  <2> QED BY <1>12, <1>19, <2>2 DEF Start, TypeOK, history
<1>20. CASE CleanRoot
  BY <1>20 DEF CleanRoot, TypeOK, history
<1>21. CASE Tick
  <2>1. ASSUME NEW u \in Uploads, rows[u] # None PROVE [rows[u] EXCEPT !.lease = Lower(@)] \in Rows
    <3>1. rows[u] \in Rows
      BY <2>1 DEF TypeOK
    <3>2. Lower(rows[u].lease) \in 0 .. Lease
      BY <3>1 DEF Rows, Lower
    <3> QED BY <3>1, <3>2, UpdatedRow
  <2>2. ASSUME NEW u \in Uploads PROVE Lower(flight[u]) \in 0 .. PutTime
    BY DEF Lower, TypeOK
  <2>3. rows' \in [Uploads -> Rows \cup {None}] /\ flight' \in [Uploads -> 0 .. PutTime]
    BY <1>21, <2>1, <2>2 DEF Tick
  <2> QED BY <1>21, <2>3 DEF Tick, TypeOK, history
<1>22. CASE UNCHANGED vars
  BY <1>22 DEF vars, TypeOK
<1> QED
  BY <1>1, <1>2, <1>3, <1>4, <1>5, <1>6, <1>7, <1>8, <1>9, <1>10, <1>11, <1>13, <1>14, <1>15, <1>16, <1>17, <1>18,
     <1>19, <1>20, <1>21, <1>22 DEF Next, UploadStep, PassStep

-----------------------------------------------------------------------------
(* The writers                                                              *)

\* A step of one writer that attaches, erases and forgets nothing.
RowStays(v) == rows[v] # None => rows'[v] # None /\ (rows[v].actual => rows'[v].actual)
OthersRows(u) == \A v \in Uploads \ {u} :
  /\ rows'[v] # None => rows[v] # None
  /\ v \in Active' => v \in Active
  /\ v \in Active => v \in Active' \/ ~Busy
WriterMoves(u) ==
  /\ writer'[u].old = writer[u].old /\ \A v \in Uploads \ {u} : writer'[v] = writer[v]
  /\ writer'[u].pc \in Early => writer[u].pc \in Early
  /\ writer'[u].pc = "none" => writer[u].pc = "none" /\ rows'[u] = None /\ u \notin stored'
  /\ writer[u].pc = "attach" => writer'[u].pc = "attach"
  /\ ~Busy \/ writer[u].pc \in Synchronous \/ writer'[u].pc \notin Synchronous
  /\ process = "down" => writer'[u].pc = writer[u].pc
  /\ WriterFits(u)'
BytesMove(u) ==
  /\ flight'[u] > 0 => Fresh(u) /\ backend = "s3"
                       /\ writer'[u].pc \notin {"none", "stage", "landed", "ended", "commit"}
  /\ \A v \in Uploads \ {u} : flight'[v] = flight[v]
  /\ stored \subseteq stored' /\ stored' \subseteq stored \cup {u} /\ strays \subseteq strays'
  /\ u \in stored' \ stored => Fresh(u) /\ (u \in strays' \/ (Known(u) /\ ~Leaving(u)))
UploadMove(u) ==
  /\ UNCHANGED <<backend, takes, metas, process, pass, overlooked, thrown>>
  /\ \A v \in Uploads : RowStays(v)
  /\ OthersRows(u)
  /\ rows'[u] # None => rows[u] # None \/ writer[u].pc = "none"
  /\ u \in Active' => u \in Active \/ writer[u].pc = "none"
  /\ WriterMoves(u) /\ BytesMove(u)

\* It keeps the invariant.
LEMMA MoveKeeps ==
  ASSUME IInv, TypeOK', NEW u \in Uploads, UploadMove(u)
  PROVE  Agree'
<1> USE NoneIsNoUpload DEF UploadMove
<1>0. TypeOK /\ Agree
  BY DEF IInv
<1>1. Synchronous' = Synchronous /\ (PassBusy' <=> PassBusy)
  BY DEF Synchronous, PassBusy
<1>2. \A v \in Uploads : Fresh(v)' => Fresh(v)
  BY DEF Fresh, WriterMoves, BytesMove, TypeOK
<1>3. \A v \in Uploads : Referenced(v)' <=> Referenced(v)
  BY DEF Referenced
<1>4. OneAtATime'
  <2>1. \A v \in Uploads : writer'[v].pc \in Synchronous => writer[v].pc \in Synchronous \/ (v = u /\ ~Busy)
    BY DEF WriterMoves
  <2>2. ~Busy => ~PassBusy /\ \A v \in Uploads : writer[v].pc \notin Synchronous
    BY DEF Busy, PassBusy
  <2> HIDE DEF UploadMove
  <2> QED BY <1>0, <1>1, <2>1, <2>2 DEF Agree, OneAtATime
<1>5. DownIsQuiet'
  BY <1>0 DEF Agree, DownIsQuiet, WriterMoves
<1>6. FreshIsUnnamed'
  <2> SUFFICES ASSUME NEW v \in Uploads
               PROVE  /\ Fresh(v)' => /\ ~Referenced(v) /\ metas[v] = None /\ v \notin pass.todo
                                      /\ ~(pass.loop = "objects" /\ pass.key = v)
                                      /\ \A w \in Uploads : writer'[w].old # v
                      /\ writer'[v].pc = "none" => rows'[v] = None /\ v \notin stored' /\ pass.key # v
                      /\ writer'[v].pc \in {"none", "stage", "landed", "ended", "commit"} \/ backend = "fs" => flight'[v] = 0
    BY <1>3 DEF FreshIsUnnamed
  <2>1. \A w \in Uploads : writer'[w].old = writer[w].old
    BY DEF WriterMoves
  <2>2. writer'[v].pc = "none" => writer[v].pc = "none" /\ rows'[v] = None /\ v \notin stored'
    BY <1>0 DEF WriterMoves, BytesMove, OthersRows, Agree, FreshIsUnnamed
  <2>3. writer'[v].pc \in {"none", "stage", "landed", "ended", "commit"} \/ backend = "fs" => flight'[v] = 0
    <3>1. flight'[v] \in Nat
      BY DEF TypeOK
    <3> QED BY <1>0, <3>1 DEF WriterMoves, BytesMove, Agree, FreshIsUnnamed
  <2> QED BY <1>0, <1>2, <2>1, <2>2, <2>3 DEF Agree, FreshIsUnnamed
<1>7. WritersFit'
  <2> SUFFICES ASSUME NEW v \in Uploads, v # u PROVE WriterFits(v)'
    BY DEF WritersFit, WriterMoves
  <2>1. WriterFits(v) /\ writer'[v] = writer[v] /\ RowStays(v)
    BY <1>0 DEF Agree, WritersFit, WriterMoves
  <2>2. v \in Active' => v \in Active
    BY DEF OthersRows
  <2>3. writer[v].pc \in {"commit", "attach"} => v \in Active'
    BY <2>1 DEF WriterFits, OthersRows, Busy, Synchronous
  <2>4. v \in Active => rows[v] # None
    BY DEF Active
  <2>5. writer[v].old # None => (writer[v].old \in stored' => writer[v].old \in stored)
    BY <1>0 DEF BytesMove, Agree, FreshIsUnnamed, TypeOK
  <2>6. /\ \A k \in Uploads : Referenced(k)' <=> Referenced(k)
        /\ writer[v].old # None => writer[v].old \in Uploads
        /\ stored \subseteq stored' /\ strays \subseteq strays' /\ thrown' = thrown
        /\ v \in stored' => v \in stored
    BY <1>0, <1>3 DEF BytesMove, TypeOK, Writers
  <2>7. v \in Active => rows'[v] # None /\ (rows[v].actual => rows'[v].actual)
    BY <2>1, <2>4 DEF RowStays
  <2> HIDE DEF UploadMove
  <2> QED BY <2>1, <2>2, <2>3, <2>5, <2>6, <2>7 DEF WriterFits
<1>8. PassFits'
  <2>1. pass.key \in Uploads \cup {None}
    BY <1>0 DEF TypeOK, Passes
  <2>2. pass.key # None /\ pass.key \in Active' => pass.key \in Active
    BY <1>0, <2>1 DEF OthersRows, Agree, FreshIsUnnamed
  <2>3. pass.pc = "forget" => pass.key \notin stored' \/ pass.key \in strays'
    BY <1>0, <2>1 DEF BytesMove, Leaving, Agree, PassFits
  <2> QED BY <1>0, <1>3, <2>1, <2>2, <2>3 DEF Agree, PassFits, Referenced
<1>9. TakesDiffer'
  BY <1>0 DEF Agree, TakesDiffer
<1>10. OneHome'
  <2> SUFFICES ASSUME NEW v \in Uploads
               PROVE  /\ metas[v] # None => rows'[v] = None
                      /\ Referenced(v) /\ rows'[v] # None => rows'[v].actual
    BY <1>3 DEF OneHome
  <2>1. RowStays(v) /\ (rows'[v] # None => rows[v] # None \/ (v = u /\ writer[u].pc = "none"))
    BY DEF OthersRows
  <2>2. v = u /\ writer[u].pc = "none" => metas[v] = None /\ ~Referenced(v)
    BY <1>0 DEF Agree, FreshIsUnnamed, Fresh, Early
  <2> QED BY <1>0, <2>1, <2>2 DEF Agree, OneHome, RowStays
<1>11. AttachedIsKnown'
  <2>1. \A v \in Uploads : writer[v].pc = "attach" => writer'[v].pc = "attach" /\ writer'[v].old = writer[v].old
    BY DEF WriterMoves
  <2> QED BY <1>0, <1>3, <2>1 DEF Agree, AttachedIsKnown
<1>12. TakesAreServed'
  BY <1>0 DEF Agree, TakesAreServed, RowStays, BytesMove, TypeOK
<1>13. BytesAreAccounted'
  BY <1>0 DEF Agree, BytesAreAccounted, Known, RowStays, BytesMove, TypeOK
<1> QED BY <1>4, <1>5, <1>6, <1>7, <1>8, <1>9, <1>10, <1>11, <1>12, <1>13 DEF Agree

\* What becomes of the rows when an upload is lost, and of those the sweep reaches.
OneRow(u) == \A v \in Uploads \ {u} : rows'[v] = rows[v] /\ (v \in Active' <=> v \in Active)
RowsMove(u) ==
  /\ \A v \in Uploads : RowStays(v)
  /\ OthersRows(u)

LEMMA OneRowMoves ==
  ASSUME NEW u \in Uploads, OneRow(u), RowStays(u)
  PROVE  RowsMove(u)
BY DEF OneRow, RowStays, OthersRows, RowsMove

\* Rows other than the one a step changes.
LEMMA OtherRowsAlike ==
  ASSUME NEW u \in Uploads, \A v \in Uploads \ {u} : rows'[v] = rows[v]
  PROVE  OneRow(u)
BY DEF OneRow, Active

\* An upload that is lost keeps its row, which is active no more.
LEMMA DisownedMoves ==
  ASSUME TypeOK, TypeOK', NEW u \in Uploads, Disowned(u)
  PROVE  /\ OneRow(u) /\ RowStays(u)
         /\ rows'[u] # None => rows[u] # None
         /\ u \notin Active'
<1>1. \A v \in Uploads \ {u} : rows'[v] = rows[v]
  BY DEF Disowned, TypeOK
<1>2. CASE u \in Active
  <2>1. rows[u] \in Rows
    BY <1>2 DEF Active, TypeOK
  <2>2. rows'[u] = Abandoned(rows[u])
    BY <1>2 DEF Disowned, TypeOK
  <2>3. rows'[u] # None /\ rows'[u].state = "abandoned" /\ rows'[u].actual = rows[u].actual
    BY <2>1, <2>2, AbandonedRow
  <2>4. u \notin Active'
    BY <2>3 DEF Active
  <2> QED BY <1>1, <1>2, <2>3, <2>4, OtherRowsAlike DEF RowStays, Active
<1>3. CASE u \notin Active
  <2>1. rows'[u] = rows[u]
    BY <1>3 DEF Disowned, TypeOK
  <2> QED BY <1>1, <1>3, <2>1, OtherRowsAlike DEF RowStays, Active
<1> QED BY <1>2, <1>3

\* The sweep gives rows up and adds none.
LEMMA SweptMoves ==
  ASSUME TypeOK, NEW v \in Uploads
  PROVE  /\ Swept[v] # None <=> rows[v] # None
         /\ rows[v] # None => (Swept[v].actual <=> rows[v].actual)
         /\ Swept[v] # None /\ Swept[v].state \in {"reserved", "object_ready"} => v \in Active
<1>1. CASE v \in Active /\ rows[v].lease = 0
  <2>1. rows[v] \in Rows /\ Swept[v] = Abandoned(rows[v])
    BY <1>1 DEF Active, Swept, TypeOK
  <2> QED BY <1>1, <2>1, AbandonedRow, NoneIsNoRow DEF Active
<1>2. CASE ~(v \in Active /\ rows[v].lease = 0)
  <2>1. Swept[v] = rows[v]
    BY <1>2 DEF Swept
  <2> QED BY <2>1 DEF Active
<1> QED BY <1>1, <1>2

\* Steps that leave the object store and its PUTs alone.
LEMMA BytesStay ==
  ASSUME IInv, TypeOK', NEW u \in Uploads, UNCHANGED <<stored, flight, strays>>,
         writer'[u].pc \in {"landed", "ended", "commit"} => writer[u].pc \in {"landed", "ended", "commit"},
         writer'[u].pc \in {"none", "stage"} => writer[u].pc \in {"none", "stage"}
  PROVE  BytesMove(u)
<1>1. flight[u] \in Nat /\ backend \in {"fs", "s3"}
  BY DEF IInv, TypeOK
<1> QED BY <1>1 DEF IInv, Agree, FreshIsUnnamed, Fresh, BytesMove

\* What is left to show of a writer before it attaches, or that gives up.
LEMMA StillFits ==
  ASSUME IInv, NEW u \in Uploads, UNCHANGED <<takes, thrown>>, writer'[u].old = writer[u].old,
         writer[u].pc \in Early \cup {"abandon"}, writer'[u].pc \in Early \cup {"abandon", "erase", "done"},
         writer'[u].pc \in {"put", "landed", "ended"} /\ u \in Active' => rows'[u].actual,
         writer'[u].pc \in {"landed", "ended"} /\ u \in Active' => u \in stored',
         writer'[u].pc = "commit" => u \in Active' /\ rows'[u].actual /\ u \in stored'
  PROVE  WriterFits(u)'
<1>1. writer'[u].old # None => ~\E s \in Takes : takes'[s] = writer'[u].old
  BY DEF IInv, Agree, WritersFit, WriterFits, Referenced
<1>2. (\E s \in Takes : takes'[s] = u) => u \in thrown'
  BY DEF IInv, Agree, WritersFit, WriterFits, FreshIsUnnamed, Fresh, Referenced
<1> QED BY <1>1, <1>2 DEF WriterFits, Referenced, Early

\* The steps of one upload up to its record update are moves: reserveUpload, ...
LEMMA ReserveMoves ==
  ASSUME IInv, TypeOK', NEW u \in Uploads, NEW t \in Takes, NEW declared \in 1 .. MaxObject, Reserve(u, t, declared)
  PROVE  UploadMove(u)
<1> DEFINE row == [state |-> "reserved", take |-> t, size |-> declared, actual |-> FALSE, lease |-> Lease]
<1>0. TypeOK /\ Agree
  BY DEF IInv
<1>1. writer[u].pc = "none" /\ rows[u] = None /\ u \notin stored /\ ~Busy /\ ~Referenced(u) /\ Swept[u] = None
  BY <1>0, SweptMoves DEF Reserve, Agree, FreshIsUnnamed, Fresh, Early
<1>2. \/ rows' = Swept /\ writer' = writer
      \/ rows' = [Swept EXCEPT ![u] = row] /\ Goto(u, "stage")
  BY DEF Reserve
<1>3. \A v \in Uploads \ {u} : rows'[v] = Swept[v] /\ writer'[v] = writer[v]
  BY <1>0, <1>2, SweptRows DEF Goto, TypeOK
<1>4. writer'[u].pc \in {"none", "stage"} /\ writer'[u].old = writer[u].old /\ (writer'[u].pc = "none" => rows'[u] = None)
  BY <1>0, <1>1, <1>2, GotoWriter DEF Places
<1>5. OthersRows(u)
  BY <1>0, <1>1, <1>3, SweptMoves DEF OthersRows, Active
<1>6. \A v \in Uploads : RowStays(v)
  BY <1>0, <1>1, <1>3, SweptMoves DEF RowStays
<1>7. UNCHANGED <<backend, takes, metas, stored, flight, process, pass, overlooked, thrown, strays>> /\ process = "open"
  BY DEF Reserve, history
<1>8. WriterFits(u)'
  BY <1>1, <1>4, <1>7, StillFits DEF Early
<1>9. BytesMove(u)
  BY <1>1, <1>4, <1>7, BytesStay
<1>10. WriterMoves(u)
  BY <1>1, <1>3, <1>4, <1>7, <1>8 DEF WriterMoves, Early, Synchronous
<1> QED BY <1>1, <1>5, <1>6, <1>7, <1>9, <1>10 DEF UploadMove

\* ... the renewal of the lease, ...
LEMMA RenewMoves ==
  ASSUME IInv, TypeOK', NEW u \in Uploads, Renew(u)
  PROVE  UploadMove(u)
<1>0. TypeOK /\ Agree
  BY DEF IInv
<1>1. writer[u].pc \in {"stage", "put", "landed"} /\ ~Busy
      /\ UNCHANGED <<backend, takes, metas, stored, flight, process, pass, overlooked, thrown, strays>>
  BY DEF Renew, history
<1>2. /\ writer'[u].old = writer[u].old /\ \A v \in Uploads \ {u} : writer'[v] = writer[v]
      /\ writer'[u].pc = writer[u].pc \/ (~Owned(u) /\ writer'[u].pc = "abandon")
  BY <1>0, GotoWriter DEF Renew, Places
<1>3. OneRow(u) /\ RowStays(u) /\ (rows'[u] # None => rows[u] # None) /\ (u \in Active' => u \in Active /\ Owned(u))
  <2>1. CASE Owned(u)
    <3>1. rows[u] \in Rows /\ rows'[u] = [rows[u] EXCEPT !.lease = Lease] /\ \A v \in Uploads \ {u} : rows'[v] = rows[v]
      BY <1>0, <2>1 DEF Renew, Owned, Active, TypeOK
    <3>2. rows'[u].actual = rows[u].actual /\ rows'[u].state = rows[u].state
      BY <3>1 DEF Rows
    <3>3. rows'[u] # None
      <4>1. Lease \in 0 .. Lease
        BY LimitsPositive
      <4>2. [rows[u] EXCEPT !.lease = Lease] \in Rows
        BY <3>1, <4>1, UpdatedRow
      <4> QED BY <3>1, <4>2, NoneIsNoRow
    <3> QED BY <2>1, <3>1, <3>2, <3>3, OtherRowsAlike DEF RowStays, Active, Owned
  <2>2. CASE ~Owned(u)
    BY <1>0, <2>2, DisownedMoves DEF Renew
  <2> QED BY <2>1, <2>2
<1>4. RowsMove(u)
  BY <1>3, OneRowMoves
<1>5. WriterFits(u)'
  <2>1. WriterFits(u) /\ (u \in Active => rows[u] # None)
    BY <1>0 DEF Agree, WritersFit, Active
  <2> QED BY <1>1, <1>2, <1>3, <2>1, StillFits DEF WriterFits, RowStays, Early
<1>6. BytesMove(u)
  BY <1>1, <1>2, BytesStay
<1>7. WriterMoves(u)
  BY <1>0, <1>1, <1>2, <1>5 DEF WriterMoves, Early, Synchronous, Agree, DownIsQuiet
<1> QED BY <1>1, <1>3, <1>4, <1>6, <1>7 DEF UploadMove, RowsMove

\* ... a transfer that fails, ...
LEMMA TransferFailsMoves ==
  ASSUME IInv, TypeOK', NEW u \in Uploads, TransferFails(u)
  PROVE  UploadMove(u)
<1>0. TypeOK /\ Agree
  BY DEF IInv
<1>1. writer[u].pc \in {"stage", "put", "landed"} /\ ~Busy
      /\ UNCHANGED <<backend, takes, rows, metas, stored, flight, process, pass, overlooked, thrown, strays>>
  BY DEF TransferFails, history
<1>2. writer'[u].old = writer[u].old /\ writer'[u].pc = "abandon" /\ \A v \in Uploads \ {u} : writer'[v] = writer[v]
  BY <1>0, GotoWriter DEF TransferFails, Places
<1>3. RowsMove(u) /\ Active' = Active
  BY <1>1 DEF RowsMove, RowStays, OthersRows, Active
<1>4. WriterFits(u)'
  BY <1>1, <1>2, StillFits DEF Early
<1>5. BytesMove(u)
  BY <1>1, <1>2, BytesStay
<1>6. WriterMoves(u)
  BY <1>0, <1>1, <1>2, <1>4 DEF WriterMoves, Early, Synchronous, Agree, DownIsQuiet
<1> QED BY <1>1, <1>3, <1>5, <1>6 DEF UploadMove, RowsMove

\* ... abandonUpload, ...
LEMMA AbandonMoves ==
  ASSUME IInv, TypeOK', NEW u \in Uploads, Abandon(u)
  PROVE  UploadMove(u)
<1>0. TypeOK /\ Agree
  BY DEF IInv
<1>1. writer[u].pc = "abandon" /\ ~Busy
      /\ UNCHANGED <<backend, takes, metas, stored, flight, process, pass, overlooked, thrown, strays>>
  BY DEF Abandon, history
<1>2. writer'[u].old = writer[u].old /\ writer'[u].pc \in {"erase", "done"} /\ \A v \in Uploads \ {u} : writer'[v] = writer[v]
  BY <1>0, GotoWriter DEF Abandon, Places
<1>3. OneRow(u) /\ RowStays(u) /\ (rows'[u] # None => rows[u] # None) /\ u \notin Active'
  <2>1. /\ \A v \in Uploads \ {u} : rows'[v] = rows[v]
        /\ rows'[u] = IF rows[u] = None THEN None ELSE Abandoned(rows[u])
    BY <1>0 DEF Abandon, TypeOK
  <2>2. rows[u] # None => /\ Abandoned(rows[u]) # None /\ Abandoned(rows[u]).actual = rows[u].actual
                          /\ Abandoned(rows[u]).state = "abandoned"
    BY <1>0, AbandonedRow DEF TypeOK
  <2> QED BY <2>1, <2>2, OtherRowsAlike DEF RowStays, Active
<1>4. RowsMove(u)
  BY <1>3, OneRowMoves
<1>5. WriterFits(u)'
  BY <1>1, <1>2, StillFits DEF Early
<1>6. BytesMove(u)
  BY <1>1, <1>2, BytesStay
<1>7. WriterMoves(u)
  BY <1>0, <1>1, <1>2, <1>5 DEF WriterMoves, Early, Agree, DownIsQuiet
<1> QED BY <1>1, <1>3, <1>4, <1>6, <1>7 DEF UploadMove, RowsMove

\* ... the start of the PUT, ...
LEMMA StageEndsMoves ==
  ASSUME IInv, TypeOK', NEW u \in Uploads, NEW size \in 1 .. MaxObject, StageEnds(u, size)
  PROVE  UploadMove(u)
<1>0. TypeOK /\ Agree
  BY DEF IInv
<1>1. writer[u].pc = "stage" /\ ~Busy /\ Fresh(u)
      /\ UNCHANGED <<backend, takes, metas, stored, process, pass, overlooked, thrown, strays>>
  BY DEF StageEnds, history, Fresh, Early
<1>2. /\ writer'[u].old = writer[u].old /\ \A v \in Uploads \ {u} : writer'[v] = writer[v]
      /\ \/ /\ writer'[u].pc = "put" /\ Owned(u) /\ rows' = [rows EXCEPT ![u].size = size, ![u].actual = TRUE]
            /\ flight' = [flight EXCEPT ![u] = IF backend = "s3" THEN PutTime ELSE 0]
         \/ writer'[u].pc = "abandon" /\ flight' = flight /\ (rows' = rows \/ Disowned(u))
  BY <1>0, GotoWriter DEF StageEnds, Places
<1>3. /\ OneRow(u) /\ RowStays(u) /\ (rows'[u] # None => rows[u] # None) /\ (u \in Active' => u \in Active)
      /\ writer'[u].pc = "put" => rows'[u].actual
  <2>1. CASE writer'[u].pc = "put"
    <3>1. /\ rows[u] \in Rows /\ rows'[u] = [rows[u] EXCEPT !.size = size, !.actual = TRUE] /\ u \in Active
          /\ \A v \in Uploads \ {u} : rows'[v] = rows[v]
      BY <1>0, <1>2, <2>1 DEF Owned, Active, TypeOK
    <3>2. [rows[u] EXCEPT !.size = size, !.actual = TRUE] \in Rows
      BY <3>1, UpdatedRow
    <3>3. rows'[u].actual /\ rows'[u] # None
      BY <3>1, <3>2, NoneIsNoRow DEF Rows
    <3> QED BY <3>1, <3>3, OtherRowsAlike DEF RowStays, Active
  <2>2. CASE rows' = rows /\ writer'[u].pc = "abandon"
    BY <2>2 DEF OneRow, RowStays, Active
  <2>3. CASE Disowned(u) /\ writer'[u].pc = "abandon"
    BY <1>0, <2>3, DisownedMoves
  <2> QED BY <1>2, <2>1, <2>2, <2>3
<1>4. RowsMove(u)
  BY <1>3, OneRowMoves
<1>5. WriterFits(u)'
  BY <1>1, <1>2, <1>3, StillFits DEF Early
<1>6. BytesMove(u)
  <2>1. flight[u] \in Nat /\ PutTime \in Nat /\ (writer'[u].pc = "abandon" => flight[u] = 0)
        /\ \A v \in Uploads \ {u} : flight'[v] = flight[v]
    BY <1>0, <1>1, <1>2, LimitsPositive DEF TypeOK, Agree, FreshIsUnnamed
  <2>2. flight'[u] > 0 => backend = "s3" /\ writer'[u].pc \notin {"none", "stage", "landed", "ended", "commit"}
    BY <1>0, <1>2, <2>1 DEF TypeOK
  <2> QED BY <1>1, <2>1, <2>2 DEF BytesMove
<1>7. WriterMoves(u)
  BY <1>0, <1>1, <1>2, <1>5 DEF WriterMoves, Early, Synchronous, Agree, DownIsQuiet
<1> QED BY <1>1, <1>3, <1>4, <1>6, <1>7 DEF UploadMove, RowsMove

\* Bytes that arrive.
LEMMA ArrivedMoves ==
  ASSUME TypeOK, NEW u \in Uploads, Fresh(u), Arrived(u)
  PROVE  /\ stored' = stored \cup {u} /\ strays \subseteq strays'
         /\ u \in stored' \ stored => Fresh(u) /\ (u \in strays' \/ (Known(u) /\ ~Leaving(u)))
BY DEF Arrived

\* ... its arrival at the bucket, ...
LEMMA PutArrivesMoves ==
  ASSUME IInv, TypeOK', NEW u \in Uploads, PutArrives(u)
  PROVE  UploadMove(u)
<1>0. TypeOK /\ Agree
  BY DEF IInv
<1>1. /\ Fresh(u) /\ UNCHANGED <<backend, takes, rows, metas, process, pass, overlooked, thrown>>
      /\ flight'[u] = 0 /\ \A v \in Uploads \ {u} : flight'[v] = flight[v]
      /\ writer[u].pc # "none" /\ writer[u].pc # "attach"
      /\ ~Referenced(u)
  BY <1>0 DEF PutArrives, Fresh, TypeOK, Agree, FreshIsUnnamed, WritersFit, WriterFits
<1>2. /\ stored' = stored \cup {u} /\ strays \subseteq strays'
      /\ u \in stored' \ stored => Fresh(u) /\ (u \in strays' \/ (Known(u) /\ ~Leaving(u)))
  BY <1>0, <1>1, ArrivedMoves DEF PutArrives
<1>3. /\ writer'[u].old = writer[u].old /\ \A v \in Uploads \ {u} : writer'[v] = writer[v]
      /\ writer'[u].pc = writer[u].pc \/ (writer[u].pc = "put" /\ writer'[u].pc = "landed")
  BY <1>0, GotoWriter DEF PutArrives, Places
<1>4. RowsMove(u) /\ Active' = Active
  BY <1>1 DEF RowsMove, RowStays, OthersRows, Active
<1>5. WriterFits(u)'
  <2>1. \A k \in Uploads : Referenced(k)' <=> Referenced(k)
    BY <1>1 DEF Referenced
  <2>2. writer[u].old # None => writer[u].old \in Uploads /\ writer[u].old # u
    BY <1>0, <1>1 DEF Agree, FreshIsUnnamed, TypeOK, Writers
  <2>3. WriterFits(u) /\ (writer[u].pc = "forget" => Leaving(u)) /\ u \in stored'
    BY <1>0, <1>2 DEF Agree, WritersFit, Leaving
  <2>4. writer[u].pc = "forget" => u \in strays'
    BY <1>2, <2>3 DEF WriterFits
  <2>5. writer[u].old # None => (writer[u].old \in stored' => writer[u].old \in stored)
    BY <1>2, <2>2
  <2>6. writer'[u].old # None => ~\E s \in Takes : takes'[s] = writer'[u].old
    BY <1>1, <1>3, <2>3 DEF WriterFits, Referenced
  <2>7. ~\E s \in Takes : takes'[s] = u
    BY <1>1 DEF Referenced
  <2> QED BY <1>1, <1>2, <1>3, <1>4, <2>2, <2>3, <2>4, <2>5, <2>6, <2>7 DEF WriterFits, Referenced
<1>6. BytesMove(u)
  BY <1>1, <1>2 DEF BytesMove
<1>7. WriterMoves(u)
  BY <1>0, <1>1, <1>3, <1>5 DEF WriterMoves, Early, Synchronous, Agree, DownIsQuiet
<1> QED BY <1>1, <1>4, <1>6, <1>7 DEF UploadMove, RowsMove

\* ... its end, ...
LEMMA PutEndsMoves ==
  ASSUME IInv, TypeOK', NEW u \in Uploads, PutEnds(u)
  PROVE  UploadMove(u)
<1>0. TypeOK /\ Agree
  BY DEF IInv
<1>1. /\ Fresh(u) /\ ~Busy /\ UNCHANGED <<backend, takes, rows, metas, flight, process, pass, overlooked, thrown>>
      /\ (writer[u].pc = "put" /\ backend = "fs") \/ writer[u].pc = "landed"
  BY DEF PutEnds, Fresh, Early
<1>2. /\ stored \subseteq stored' /\ stored' \subseteq stored \cup {u} /\ strays \subseteq strays'
      /\ u \in stored' \ stored => Fresh(u) /\ (u \in strays' \/ (Known(u) /\ ~Leaving(u)))
      /\ writer[u].pc = "put" => u \in stored'
  BY <1>0, <1>1, ArrivedMoves DEF PutEnds
<1>3. /\ writer'[u].old = writer[u].old /\ \A v \in Uploads \ {u} : writer'[v] = writer[v]
      /\ writer'[u].pc \in {"ended", "abandon"}
  BY <1>0, GotoWriter DEF PutEnds, Places
<1>4. RowsMove(u) /\ Active' = Active
  BY <1>1 DEF RowsMove, RowStays, OthersRows, Active
<1>5. WriterFits(u)'
  <2>1. WriterFits(u)
    BY <1>0 DEF Agree, WritersFit
  <2>2. u \in Active => rows'[u].actual /\ u \in stored'
    BY <1>1, <1>2, <2>1 DEF WriterFits
  <2> QED BY <1>1, <1>3, <1>4, <2>2, StillFits DEF Early
<1>6. BytesMove(u)
  <2>1. flight[u] = 0
    BY <1>0, <1>1 DEF Agree, FreshIsUnnamed
  <2> QED BY <1>1, <1>2, <2>1 DEF BytesMove
<1>7. WriterMoves(u)
  BY <1>0, <1>1, <1>3, <1>5 DEF WriterMoves, Early, Agree, DownIsQuiet
<1> QED BY <1>1, <1>4, <1>6, <1>7 DEF UploadMove, RowsMove

\* ... and the end of storeUpload.
LEMMA ObjectReadyMoves ==
  ASSUME IInv, TypeOK', NEW u \in Uploads, ObjectReady(u)
  PROVE  UploadMove(u)
<1>0. TypeOK /\ Agree
  BY DEF IInv
<1>1. writer[u].pc = "ended" /\ writer[u].pc \in Synchronous
      /\ UNCHANGED <<backend, takes, metas, stored, flight, process, pass, overlooked, thrown, strays>>
  BY DEF ObjectReady, history, Synchronous
<1>2. /\ writer'[u].old = writer[u].old /\ \A v \in Uploads \ {u} : writer'[v] = writer[v]
      /\ \/ writer'[u].pc = "commit" /\ Owned(u) /\ rows' = [rows EXCEPT ![u].state = "object_ready"]
         \/ writer'[u].pc = "abandon" /\ Disowned(u)
  BY <1>0, GotoWriter DEF ObjectReady, Places
<1>3. /\ OneRow(u) /\ RowStays(u) /\ (rows'[u] # None => rows[u] # None) /\ (u \in Active' => u \in Active)
      /\ writer'[u].pc = "commit" => u \in Active' /\ rows'[u].actual /\ u \in stored
  <2>1. CASE writer'[u].pc = "commit"
    <3>1. /\ rows[u] \in Rows /\ rows'[u] = [rows[u] EXCEPT !.state = "object_ready"] /\ u \in Active
          /\ \A v \in Uploads \ {u} : rows'[v] = rows[v]
      BY <1>0, <1>2, <2>1 DEF Owned, Active, TypeOK
    <3>2. rows[u].actual /\ u \in stored
      BY <1>0, <1>1, <3>1 DEF Agree, WritersFit, WriterFits
    <3>3. [rows[u] EXCEPT !.state = "object_ready"] \in Rows
      BY <3>1, UpdatedRow
    <3>4. rows'[u].actual = rows[u].actual /\ rows'[u] # None /\ rows'[u].state = "object_ready"
      BY <3>1, <3>3, NoneIsNoRow DEF Rows
    <3> QED BY <3>1, <3>2, <3>4, OtherRowsAlike DEF RowStays, Active
  <2>2. CASE writer'[u].pc = "abandon" /\ Disowned(u)
    BY <1>0, <2>2, DisownedMoves
  <2> QED BY <1>2, <2>1, <2>2
<1>4. RowsMove(u)
  BY <1>3, OneRowMoves
<1>5. WriterFits(u)'
  BY <1>1, <1>2, <1>3, StillFits DEF Early
<1>6. BytesMove(u)
  BY <1>1, <1>2, BytesStay
<1>7. WriterMoves(u)
  BY <1>0, <1>1, <1>2, <1>5 DEF WriterMoves, Early, Agree, DownIsQuiet
<1> QED BY <1>1, <1>3, <1>4, <1>6, <1>7 DEF UploadMove, RowsMove

\* A piece of code that holds the event loop is alone.
LEMMA Alone ==
  ASSUME IInv, NEW u \in Uploads, writer[u].pc \in Synchronous
  PROVE  /\ pass.pc = "off" \/ (backend = "s3" /\ pass.pc = "erase")
         /\ \A v \in Uploads \ {u} : writer[v].pc \notin Synchronous
BY DEF IInv, Agree, OneAtATime, PassBusy, TypeOK

\* Between two pieces of code nobody holds the loop.
LEMMA NotBusy ==
  ASSUME TypeOK, ~Busy
  PROVE  /\ pass.pc = "off" \/ (backend = "s3" /\ pass.pc = "erase")
         /\ \A v \in Uploads : writer[v].pc \notin Synchronous
BY DEF Busy, TypeOK

\* One writer moves while the pass stays where it is.
LEMMA WriterAlone ==
  ASSUME IInv, NEW u \in Uploads, ~Busy \/ writer[u].pc \in Synchronous,
         UNCHANGED <<backend, process, pass>>, \A v \in Uploads \ {u} : writer'[v] = writer[v],
         writer[u].pc \notin {"none", "done"}
  PROVE  OneAtATime' /\ DownIsQuiet'
<1>1. /\ pass.pc = "off" \/ (backend = "s3" /\ pass.pc = "erase")
      /\ \A v \in Uploads \ {u} : writer[v].pc \notin Synchronous
  BY Alone, NotBusy DEF IInv
<1>2. Synchronous' = Synchronous /\ ~PassBusy'
  BY <1>1 DEF Synchronous, PassBusy
<1>3. OneAtATime'
  BY <1>1, <1>2 DEF OneAtATime
<1> QED BY <1>3 DEF IInv, Agree, DownIsQuiet

\* The record update names the key and lets go of the one it replaces.
LEMMA CommitKeeps ==
  ASSUME IInv, TypeOK', NEW u \in Uploads, CommitRecord(u)
  PROVE  Agree'
<1> USE NoneIsNoUpload
<1>0. TypeOK /\ Agree /\ WriterFits(u)
  BY DEF IInv, Agree, WritersFit
<1>1. /\ writer[u].pc = "commit" /\ writer[u].pc \in Synchronous
      /\ UNCHANGED <<backend, rows, metas, stored, flight, process, pass, strays>>
  BY DEF CommitRecord, Synchronous
<1>2. /\ u \in Active /\ rows[u].actual /\ u \in stored /\ rows[u] # None /\ rows[u].take \in Takes
      /\ Fresh(u) /\ flight[u] = 0
  <2>1. u \in Active /\ rows[u].actual /\ u \in stored /\ Fresh(u) /\ flight[u] = 0
    BY <1>0, <1>1 DEF WriterFits, Fresh, Early, Agree, FreshIsUnnamed
  <2> QED BY <1>0, <2>1 DEF Active, TypeOK, Rows
<1>3. /\ ~Referenced(u) /\ metas[u] = None /\ u \notin pass.todo /\ ~(pass.loop = "objects" /\ pass.key = u)
      /\ \A v \in Uploads : writer[v].old # u
  BY <1>0, <1>2 DEF Agree, FreshIsUnnamed
<1>4. PICK t \in Takes : t = rows[u].take
  BY <1>2
<1>5. PICK o \in Uploads \cup {None} : o = takes[t]
  BY <1>0 DEF TypeOK
<1>6. /\ \A v \in Uploads \ {u} : writer'[v] = writer[v]
      /\ \/ takes' = [takes EXCEPT ![t] = u] /\ writer'[u] = [pc |-> "attach", old |-> o] /\ UNCHANGED <<thrown, overlooked>>
         \/ takes' = takes /\ writer'[u].pc = "abandon" /\ writer'[u].old = writer[u].old /\ UNCHANGED <<thrown, overlooked>>
         \/ /\ takes' = [takes EXCEPT ![t] = u] /\ writer'[u].pc = "abandon" /\ writer'[u].old = writer[u].old
            /\ thrown' = thrown \cup {u} /\ overlooked' = overlooked \cup ({o} \ {None})
  BY <1>0, <1>4, <1>5, GotoWriter DEF CommitRecord, Places, TypeOK
<1>7. \/ takes' = takes
      \/ takes'[t] = u /\ \A s \in Takes \ {t} : takes'[s] = takes[s]
  BY <1>0, <1>6 DEF TypeOK
<1>8. /\ thrown \subseteq thrown' /\ overlooked \subseteq overlooked' /\ Active' = Active
      /\ \A v \in Uploads \ {u} : writer[v].pc \notin Synchronous
      /\ pass.pc = "off" \/ pass.pc = "erase"
  BY <1>0, <1>1, <1>6, Alone DEF Active
<1>9. o # None => o \in Uploads /\ o # u /\ Referenced(o) /\ ~Fresh(o)
  BY <1>0, <1>3, <1>5 DEF Referenced, Agree, FreshIsUnnamed
<1>10. ASSUME NEW k \in Uploads, k # u, k # o
       PROVE  Referenced(k)' <=> Referenced(k)
  BY <1>5, <1>7, <1>10 DEF Referenced
<1>11. o # None => (takes' = takes \/ ~Referenced(o)')
  BY <1>0, <1>5, <1>7, <1>9 DEF Referenced, Agree, TakesDiffer
<1>12. \A v \in Uploads : Fresh(v)' => Fresh(v) /\ v # u
  BY <1>1, <1>2, <1>6 DEF Fresh, Early
<1>20. OneAtATime' /\ DownIsQuiet'
  BY <1>1, <1>6, WriterAlone
<1>21. FreshIsUnnamed'
  <2>1. ASSUME NEW v \in Uploads, Fresh(v)' PROVE ~Referenced(v)' /\ \A w \in Uploads : writer'[w].old # v
    <3>1. Fresh(v) /\ v # u /\ v # o
      BY <1>9, <1>12, <2>1
    <3> QED BY <1>0, <1>6, <1>10, <3>1 DEF Agree, FreshIsUnnamed
  <2> QED BY <1>0, <1>1, <1>6, <1>12, <2>1 DEF Agree, FreshIsUnnamed
<1>22. WritersFit'
  <2>1. ASSUME NEW k \in Uploads, ~Referenced(k), k # u PROVE ~Referenced(k)'
    BY <1>9, <1>10, <2>1
  <2>2. ASSUME NEW v \in Uploads \ {u} PROVE WriterFits(v)'
    <3>1. WriterFits(v) /\ writer'[v] = writer[v] /\ writer[v].pc # "attach"
      BY <1>0, <1>6, <1>8 DEF Agree, WritersFit, Synchronous
    <3>2. writer[v].old # None => writer[v].old \in Uploads /\ writer[v].old # u
      BY <1>0, <1>3 DEF TypeOK, Writers
    <3>3. writer'[v].old # None => ~\E s \in Takes : takes'[s] = writer'[v].old
      BY <2>1, <3>1, <3>2 DEF WriterFits, Referenced
    <3>4. ~Referenced(v) => ~Referenced(v)'
      BY <2>1
    <3> QED BY <1>1, <1>8, <3>1, <3>3, <3>4 DEF WriterFits, Referenced
  <2>3. WriterFits(u)'
    <3>1. CASE takes' = takes /\ writer'[u].pc = "abandon" /\ writer'[u].old = writer[u].old
      BY <1>0, <1>3, <3>1 DEF WriterFits, Referenced
    <3>2. CASE writer'[u] = [pc |-> "attach", old |-> o] /\ takes'[t] = u
      <4>1. o # None => ~\E s \in Takes : takes'[s] = o
        BY <1>9, <1>11, <3>2, <1>5 DEF Referenced
      <4>2. Referenced(u)'
        BY <3>2 DEF Referenced
      <4> QED BY <1>1, <1>2, <1>8, <3>2, <4>1, <4>2 DEF WriterFits, Referenced
    <3>3. CASE writer'[u].pc = "abandon" /\ thrown' = thrown \cup {u} /\ writer'[u].old = writer[u].old
      <4>1. writer[u].old # None => writer[u].old \in Uploads /\ writer[u].old # u /\ ~Referenced(writer[u].old)
        BY <1>0, <1>3 DEF TypeOK, Writers, WriterFits
      <4>2. writer[u].old # None => ~\E s \in Takes : takes'[s] = writer[u].old
        BY <2>1, <4>1 DEF Referenced
      <4> QED BY <3>3, <4>2 DEF WriterFits, Referenced
    <3>4. takes' = [takes EXCEPT ![t] = u] => takes'[t] = u
      BY <1>0 DEF TypeOK
    <3> QED BY <1>6, <3>1, <3>2, <3>3, <3>4
  <2> QED BY <2>2, <2>3 DEF WritersFit
<1>23. PassFits'
  <2>1. pass.pc = "erase" => pass.key \in Uploads /\ ~Referenced(pass.key) /\ pass.key # u
    BY <1>0, <1>2 DEF Agree, PassFits, TypeOK, Passes
  <2>2. pass.pc = "erase" => ~\E s \in Takes : takes'[s] = pass.key
    BY <1>5, <1>7, <2>1 DEF Referenced
  <2> QED BY <1>0, <1>1, <1>8, <2>2 DEF Agree, PassFits, Referenced
<1>24. TakesDiffer'
  BY <1>0, <1>3, <1>7 DEF Agree, TakesDiffer, Referenced
<1>25. OneHome'
  <2>1. ASSUME NEW k \in Uploads, Referenced(k)' PROVE k = u \/ Referenced(k)
    BY <1>7, <2>1 DEF Referenced
  <2> QED BY <1>0, <1>1, <1>2, <2>1 DEF Agree, OneHome
<1>26. AttachedIsKnown'
  <2> SUFFICES ASSUME NEW k \in Uploads, metas[k] # None, ~metas[k].pending
               PROVE  Referenced(k)' \/ k \in overlooked' \/ \E v \in Uploads : writer'[v].pc = "attach" /\ writer'[v].old = k
    BY <1>1 DEF AttachedIsKnown
  <2>1. Referenced(k) \/ k \in overlooked
    BY <1>0, <1>1, <1>8 DEF Agree, AttachedIsKnown, Synchronous
  <2>2. k # u
    BY <1>3
  <2>3. CASE k = o
    BY <1>6, <1>7, <2>1, <2>3 DEF Referenced
  <2> QED BY <1>8, <1>10, <2>1, <2>2, <2>3
<1>27. TakesAreServed'
  <2> SUFFICES ASSUME NEW s \in Takes, takes'[s] # None, takes'[s] \notin thrown'
               PROVE  takes'[s] \in stored /\ (metas[takes'[s]] # None \/ (rows[takes'[s]] # None /\ rows[takes'[s]].actual))
    BY <1>1 DEF TakesAreServed
  <2>1. takes'[s] = takes[s] \/ takes'[s] = u
    BY <1>7
  <2> QED BY <1>0, <1>2, <1>8, <2>1 DEF Agree, TakesAreServed
<1>28. BytesAreAccounted'
  BY <1>0, <1>1 DEF Agree, BytesAreAccounted, Known
<1> QED BY <1>20, <1>21, <1>22, <1>23, <1>24, <1>25, <1>26, <1>27, <1>28 DEF Agree

\* attachUpload makes the upload an object, and the replaced object pending.
LEMMA AttachKeeps ==
  ASSUME IInv, TypeOK', NEW u \in Uploads, AttachUpload(u)
  PROVE  Agree'
<1> USE NoneIsNoUpload
<1>0. TypeOK /\ Agree /\ WriterFits(u)
  BY DEF IInv, Agree, WritersFit
<1>1. /\ writer[u].pc = "attach" /\ writer[u].pc \in Synchronous
      /\ UNCHANGED <<backend, takes, stored, flight, process, pass, thrown, strays>>
  BY DEF AttachUpload, Synchronous
<1>2. u \in Active /\ rows[u] \in Rows /\ rows[u].actual /\ u \in stored /\ Referenced(u) /\ metas[u] = None /\ ~Fresh(u)
  <2>1. u \in Active /\ rows[u].actual /\ u \in stored /\ Referenced(u)
    BY <1>0, <1>1 DEF WriterFits
  <2>2. rows[u] \in Rows /\ rows[u] # None
    BY <1>0, <2>1 DEF Active, TypeOK
  <2> QED BY <1>0, <2>1, <2>2 DEF Agree, FreshIsUnnamed, OneHome
<1>3. PICK o \in Uploads \cup {None} : o = writer[u].old
  BY <1>0 DEF TypeOK, Writers
<1>4. /\ writer'[u].old = o /\ writer'[u].pc \in {"done", "eraseOld"} /\ \A v \in Uploads \ {u} : writer'[v] = writer[v]
      /\ writer'[u].pc = "eraseOld" => o # None
      /\ \A v \in Uploads : writer'[v].old = writer[v].old
  BY <1>0, <1>3, GotoWriter DEF AttachUpload, Places, Replaced
<1>5. /\ \A v \in Uploads \ {u} : rows'[v] = rows[v] /\ (v \in Active' <=> v \in Active)
      /\ u \notin Active' /\ (rows'[u] # None => rows'[u].actual)
  <2>1. CASE Owned(u)
    <3>1. rows' = [rows EXCEPT ![u] = None]
      BY <2>1 DEF AttachUpload
    <3> QED BY <1>0, <3>1 DEF Active, TypeOK
  <2>2. CASE ~Owned(u)
    BY <1>0, <1>2, <2>2, DisownedMoves DEF AttachUpload, OneRow, RowStays
  <2> QED BY <2>1, <2>2
<1>6. \/ /\ rows'[u] = None /\ metas'[u] # None /\ overlooked' = overlooked
         /\ \A k \in Uploads \ {u} : (metas'[k] # None <=> metas[k] # None)
                                     /\ (metas[k] # None /\ ~metas'[k].pending => k # o /\ ~metas[k].pending)
      \/ rows'[u] # None /\ metas' = metas /\ overlooked' = overlooked \cup ({o} \ {None})
  <2>1. CASE Owned(u)
    <3>1. /\ rows'[u] = None /\ overlooked' = overlooked /\ metas'[u] = [size |-> rows[u].size, pending |-> FALSE]
          /\ \A k \in Uploads \ {u} : metas'[k] = IF k \in Replaced(u) THEN [metas[k] EXCEPT !.pending = TRUE] ELSE metas[k]
      BY <1>0, <2>1 DEF AttachUpload, TypeOK
    <3>2. [size |-> rows[u].size, pending |-> FALSE] \in Metas
      BY <1>2 DEF Rows, Metas
    <3>3. metas'[u] # None
      BY <3>1, <3>2, NoneIsNoRow
    <3>4. ASSUME NEW k \in Replaced(u), k # u
          PROVE  metas[k] # None /\ metas'[k] # None /\ metas'[k].pending
      <4>1. metas[k] \in Metas /\ metas'[k] = [metas[k] EXCEPT !.pending = TRUE]
        BY <1>0, <3>1, <3>4 DEF Replaced, TypeOK
      <4>2. metas'[k] \in Metas /\ metas'[k].pending
        BY <4>1 DEF Metas
      <4> QED BY <4>1, <4>2, NoneIsNoRow
    <3>5. ASSUME NEW k \in Uploads \ {u}, k \notin Replaced(u)
          PROVE  metas'[k] = metas[k] /\ (metas[k] # None => k # o)
      BY <1>3, <3>1, <3>5 DEF Replaced
    <3> QED BY <3>1, <3>3, <3>4, <3>5
  <2>2. CASE ~Owned(u)
    <3>1. rows'[u] # None
      BY <1>0, <1>2, <2>2, DisownedMoves, NoneIsNoRow DEF AttachUpload, RowStays
    <3> QED BY <1>3, <2>2, <3>1 DEF AttachUpload
  <2> QED BY <2>1, <2>2
<1>7. /\ \A v \in Uploads \ {u} : writer[v].pc \notin Synchronous
      /\ pass.pc = "off" \/ pass.pc = "erase"
      /\ \A v \in Uploads : (Referenced(v)' <=> Referenced(v)) /\ (Fresh(v)' => Fresh(v) /\ v # u)
  BY <1>1, <1>2, <1>4, Alone DEF Referenced, Fresh, Early
<1>8. \A v \in Uploads \ {u} : metas'[v] # None <=> metas[v] # None
  BY <1>6
<1>20. OneAtATime' /\ DownIsQuiet'
  BY <1>1, <1>4, WriterAlone
<1>21. FreshIsUnnamed'
  BY <1>0, <1>1, <1>4, <1>5, <1>7, <1>8 DEF Agree, FreshIsUnnamed
<1>22. WritersFit'
  <2>1. ASSUME NEW v \in Uploads \ {u} PROVE WriterFits(v)'
    <3>1. WriterFits(v) /\ writer'[v] = writer[v] /\ rows'[v] = rows[v] /\ (v \in Active' <=> v \in Active)
      BY <1>0, <1>4, <1>5 DEF Agree, WritersFit
    <3> QED BY <1>1, <1>7, <3>1 DEF WriterFits, Referenced
  <2>2. WriterFits(u)'
    <3>1. o # None => ~\E s \in Takes : takes'[s] = o
      BY <1>0, <1>1, <1>3 DEF WriterFits, Referenced
    <3> QED BY <1>4, <3>1 DEF WriterFits, Referenced
  <2> QED BY <2>1, <2>2 DEF WritersFit
<1>23. PassFits'
  <2>1. pass.key \in Uploads \cup {None}
    BY <1>0 DEF TypeOK, Passes
  <2> QED BY <1>0, <1>1, <1>5, <1>7, <2>1 DEF Agree, PassFits, Referenced
<1>24. TakesDiffer'
  BY <1>0, <1>1 DEF Agree, TakesDiffer
<1>25. OneHome'
  BY <1>0, <1>2, <1>5, <1>6, <1>7 DEF Agree, OneHome
<1>26. AttachedIsKnown'
  <2> SUFFICES ASSUME NEW k \in Uploads, metas'[k] # None, ~metas'[k].pending
               PROVE  Referenced(k) \/ k \in overlooked'
    BY <1>7 DEF AttachedIsKnown
  <2>1. CASE k = u
    BY <1>2, <2>1
  <2>2. CASE k # u
    <3>1. metas[k] # None /\ ~metas[k].pending /\ (k # o \/ k \in overlooked') /\ overlooked \subseteq overlooked'
      BY <1>6, <2>2
    <3>2. Referenced(k) \/ k \in overlooked \/ (\E v \in Uploads : writer[v].pc = "attach" /\ writer[v].old = k)
      BY <1>0, <3>1 DEF Agree, AttachedIsKnown
    <3>3. \A v \in Uploads : writer[v].pc = "attach" => v = u
      BY <1>7 DEF Synchronous
    <3> QED BY <1>3, <3>1, <3>2, <3>3
  <2> QED BY <2>1, <2>2
<1>27. TakesAreServed'
  <2> SUFFICES ASSUME NEW s \in Takes, takes[s] # None, takes[s] \notin thrown
               PROVE  /\ takes[s] \in stored
                      /\ metas'[takes[s]] # None \/ (rows'[takes[s]] # None /\ rows'[takes[s]].actual)
    BY <1>1 DEF TakesAreServed
  <2>1. PICK k \in Uploads : k = takes[s]
    BY <1>0 DEF TypeOK
  <2>2. k \in stored /\ (metas[k] # None \/ (rows[k] # None /\ rows[k].actual))
    BY <1>0, <2>1 DEF Agree, TakesAreServed
  <2>3. metas'[k] # None \/ (rows'[k] # None /\ rows'[k].actual)
    BY <1>5, <1>6, <2>2
  <2> QED BY <2>1, <2>2, <2>3
<1>28. BytesAreAccounted'
  BY <1>0, <1>1, <1>5, <1>6 DEF Agree, BytesAreAccounted, Known, TypeOK
<1> QED BY <1>20, <1>21, <1>22, <1>23, <1>24, <1>25, <1>26, <1>27, <1>28 DEF Agree

\* A deletion by a writer, and what follows it.  Its key is not one the record counts on.
LEMMA TargetIsFree ==
  ASSUME IInv, NEW u \in Uploads, writer[u].pc \in {"erase", "forget", "eraseOld", "forgetOld"}
  PROVE  /\ Target(u) \in Uploads /\ (~Referenced(Target(u)) \/ Target(u) \in thrown)
         /\ \A v \in Uploads \ {u} : writer[v].pc \in {"landed", "ended", "commit", "attach"} => v # Target(u)
         /\ Target(u) # u => ~Fresh(Target(u))
<1>1. TypeOK /\ Agree /\ WriterFits(u)
  BY DEF IInv, Agree, WritersFit
<1>2. CASE writer[u].pc \in {"erase", "forget"}
  BY <1>1, <1>2 DEF Target, WriterFits
<1>3. CASE writer[u].pc \in {"eraseOld", "forgetOld"}
  <2>1. Target(u) = writer[u].old /\ Target(u) \in Uploads /\ ~Referenced(Target(u))
    BY <1>1, <1>3 DEF Target, WriterFits, TypeOK, Writers
  <2>2. ~Fresh(Target(u))
    BY <1>1, <2>1 DEF Agree, FreshIsUnnamed
  <2>3. ASSUME NEW v \in Uploads \ {u}, writer[v].pc \in {"landed", "ended", "commit", "attach"} PROVE v # Target(u)
    BY <1>1, <2>1, <2>2, <2>3 DEF Agree, WritersFit, WriterFits, Fresh, Early
  <2> QED BY <2>1, <2>2, <2>3
<1> QED BY <1>2, <1>3

\* A deletion, done or failed.
LEMMA EraseKeeps ==
  ASSUME IInv, TypeOK', NEW u \in Uploads, Erase(u) \/ EraseFails(u)
  PROVE  Agree'
<1> USE NoneIsNoUpload
<1>0. TypeOK /\ Agree /\ WriterFits(u)
  BY DEF IInv, Agree, WritersFit
<1>1. /\ writer[u].pc \in {"erase", "eraseOld"} /\ (~Busy \/ writer[u].pc \in Synchronous)
      /\ UNCHANGED <<backend, takes, rows, metas, flight, process, pass, overlooked, thrown, strays>>
      /\ stored' \subseteq stored /\ stored \subseteq stored' \cup {Target(u)}
  BY DEF Erase, EraseFails, CanErase, history
<1>2. PICK o \in Uploads \cup {None} : o = writer[u].old
  BY <1>0 DEF TypeOK, Writers
<1>3. /\ \A v \in Uploads \ {u} : writer'[v] = writer[v]
      /\ writer'[u].old = o
      /\ \/ writer'[u].pc = "forget" /\ writer[u].pc = "erase" /\ u \notin stored'
         \/ writer'[u].pc = "forgetOld" /\ writer[u].pc = "eraseOld" /\ o \notin stored'
         \/ writer'[u].pc = "done"
  BY <1>0, <1>2, GotoWriter DEF Erase, EraseFails, CanErase, Target, Places
<1>4. /\ Target(u) \in Uploads /\ (~Referenced(Target(u)) \/ Target(u) \in thrown)
      /\ \A v \in Uploads \ {u} : writer[v].pc \in {"landed", "ended", "commit", "attach"} => v # Target(u)
  BY <1>1, TargetIsFree
<1>5. /\ \A v \in Uploads : (Referenced(v)' <=> Referenced(v)) /\ (Fresh(v)' => Fresh(v))
      /\ Active' = Active
      /\ \A v \in Uploads : writer'[v].old = writer[v].old
  BY <1>1, <1>2, <1>3 DEF Referenced, Fresh, Early, Active
<1>20. OneAtATime' /\ DownIsQuiet'
  BY <1>1, <1>3, WriterAlone
<1>21. FreshIsUnnamed'
  BY <1>0, <1>1, <1>3, <1>5 DEF Agree, FreshIsUnnamed
<1>22. WritersFit'
  <2>1. ASSUME NEW v \in Uploads \ {u} PROVE WriterFits(v)'
    <3>1. WriterFits(v) /\ writer'[v] = writer[v] /\ (writer[v].pc \in {"landed", "ended", "commit", "attach"} => v # Target(u))
      BY <1>0, <1>3, <1>4 DEF Agree, WritersFit
    <3>2. writer[v].pc \in {"landed", "ended", "commit", "attach"} => (v \in stored => v \in stored')
      BY <1>1, <3>1
    <3> QED BY <1>1, <1>5, <3>1, <3>2 DEF WriterFits, Referenced
  <2>2. WriterFits(u)'
    <3>1. o # None => ~\E s \in Takes : takes'[s] = o
      BY <1>0, <1>1, <1>2 DEF WriterFits, Referenced
    <3>2. writer[u].pc = "erase" => ~(\E s \in Takes : takes'[s] = u) \/ u \in thrown'
      BY <1>0, <1>1 DEF WriterFits, Referenced
    <3>3. writer[u].pc = "eraseOld" => o # None
      BY <1>0, <1>2 DEF WriterFits
    <3> QED BY <1>3, <3>1, <3>2, <3>3 DEF WriterFits, Referenced
  <2> QED BY <2>1, <2>2 DEF WritersFit
<1>23. PassFits'
  BY <1>0, <1>1, <1>5 DEF Agree, PassFits, Referenced
<1>24. TakesDiffer'
  BY <1>0, <1>1 DEF Agree, TakesDiffer
<1>25. OneHome'
  BY <1>0, <1>1, <1>5 DEF Agree, OneHome
<1>26. AttachedIsKnown'
  <2>1. \A v \in Uploads : writer[v].pc = "attach" => writer'[v] = writer[v]
    BY <1>1, <1>3
  <2> QED BY <1>0, <1>1, <1>5, <2>1 DEF Agree, AttachedIsKnown
<1>27. TakesAreServed'
  <2> SUFFICES ASSUME NEW s \in Takes, takes[s] # None, takes[s] \notin thrown
               PROVE  /\ takes[s] \in stored'
                      /\ metas[takes[s]] # None \/ (rows[takes[s]] # None /\ rows[takes[s]].actual)
    BY <1>1 DEF TakesAreServed
  <2>1. takes[s] # Target(u)
    BY <1>4 DEF Referenced
  <2> QED BY <1>0, <1>1, <2>1 DEF Agree, TakesAreServed
<1>28. BytesAreAccounted'
  BY <1>0, <1>1 DEF Agree, BytesAreAccounted, Known
<1> QED BY <1>20, <1>21, <1>22, <1>23, <1>24, <1>25, <1>26, <1>27, <1>28 DEF Agree

\* The state file forgets a key whose bytes are gone.
LEMMA ForgetKeeps ==
  ASSUME IInv, TypeOK', NEW u \in Uploads, Forget(u)
  PROVE  Agree'
<1> USE NoneIsNoUpload
<1>0. TypeOK /\ Agree /\ WriterFits(u)
  BY DEF IInv, Agree, WritersFit
<1>1. /\ writer[u].pc \in {"forget", "forgetOld"} /\ writer[u].pc \in Synchronous
      /\ UNCHANGED <<backend, takes, stored, flight, process, pass, overlooked, thrown, strays>>
  BY DEF Forget, history, Synchronous
<1>2. PICK o \in Uploads \cup {None} : o = writer[u].old
  BY <1>0 DEF TypeOK, Writers
<1>3. /\ \A v \in Uploads \ {u} : writer'[v] = writer[v]
      /\ writer'[u].old = o /\ writer'[u].pc = "done"
  BY <1>0, <1>2, GotoWriter DEF Forget, Places
<1>4. PICK k \in Uploads : k = Target(u)
  BY <1>1, TargetIsFree
<1>5. /\ ~Referenced(k) \/ k \in thrown
      /\ k \notin stored \/ k \in strays
      /\ k # u => ~Fresh(k)
  BY <1>0, <1>1, <1>4, TargetIsFree DEF Target, WriterFits
<1>6. \/ /\ k = u /\ rows'[u] = None /\ metas' = metas
         /\ \A v \in Uploads \ {u} : rows'[v] = rows[v]
      \/ /\ ~Referenced(k) /\ rows' = rows /\ metas'[k] = None
         /\ \A v \in Uploads \ {k} : metas'[v] = metas[v]
  BY <1>0, <1>1, <1>4 DEF Forget, Target, TypeOK, WriterFits
<1>7. /\ \A v \in Uploads : (Referenced(v)' <=> Referenced(v)) /\ (Fresh(v)' => Fresh(v))
      /\ \A v \in Uploads : writer'[v].old = writer[v].old
      /\ \A v \in Uploads : v \in Active' => v \in Active
      /\ \A v \in Uploads \ {u} : writer[v].pc \notin Synchronous
      /\ pass.pc = "off" \/ pass.pc = "erase"
  BY <1>1, <1>2, <1>3, <1>6, Alone DEF Referenced, Fresh, Early, Active
<1>8. /\ \A v \in Uploads : rows'[v] # None => rows'[v] = rows[v]
      /\ \A v \in Uploads : metas'[v] # None => metas'[v] = metas[v]
      /\ \A v \in Uploads : v # k => rows'[v] = rows[v] /\ metas'[v] = metas[v]
  BY <1>6
<1>20. OneAtATime' /\ DownIsQuiet'
  BY <1>1, <1>3, WriterAlone
<1>21. FreshIsUnnamed'
  BY <1>0, <1>1, <1>3, <1>7, <1>8 DEF Agree, FreshIsUnnamed
<1>22. WritersFit'
  <2>1. ASSUME NEW v \in Uploads \ {u} PROVE WriterFits(v)'
    <3>1. WriterFits(v) /\ writer'[v] = writer[v] /\ writer[v].pc \notin {"commit", "attach", "ended"}
      BY <1>0, <1>3, <1>7 DEF Agree, WritersFit, Synchronous
    <3>2. (v \in Active' => v \in Active) /\ rows'[v] = rows[v]
      BY <1>6, <1>7
    <3> QED BY <1>1, <1>7, <3>1, <3>2 DEF WriterFits, Referenced
  <2>2. WriterFits(u)'
    <3>1. o # None => ~\E s \in Takes : takes'[s] = o
      BY <1>0, <1>1, <1>2 DEF WriterFits, Referenced
    <3> QED BY <1>3, <3>1 DEF WriterFits, Referenced
  <2> QED BY <2>1, <2>2 DEF WritersFit
<1>23. PassFits'
  <2>1. pass.key \in Uploads \cup {None}
    BY <1>0 DEF TypeOK, Passes
  <2> QED BY <1>0, <1>1, <1>7, <2>1 DEF Agree, PassFits, Referenced
<1>24. TakesDiffer'
  BY <1>0, <1>1 DEF Agree, TakesDiffer
<1>25. OneHome'
  BY <1>0, <1>7, <1>8 DEF Agree, OneHome
<1>26. AttachedIsKnown'
  <2>1. \A v \in Uploads : writer[v].pc = "attach" => writer'[v] = writer[v]
    BY <1>1, <1>3
  <2>2. \A v \in Uploads : metas'[v] # None => metas[v] # None /\ metas'[v] = metas[v]
    BY <1>8
  <2> QED BY <1>0, <1>1, <1>7, <2>1, <2>2 DEF Agree, AttachedIsKnown
<1>27. TakesAreServed'
  <2> SUFFICES ASSUME NEW s \in Takes, takes[s] # None, takes[s] \notin thrown
               PROVE  /\ takes[s] \in stored
                      /\ metas'[takes[s]] # None \/ (rows'[takes[s]] # None /\ rows'[takes[s]].actual)
    BY <1>1 DEF TakesAreServed
  <2>1. takes[s] \in Uploads /\ takes[s] # k
    BY <1>0, <1>5 DEF TypeOK, Referenced
  <2> QED BY <1>0, <1>8, <2>1 DEF Agree, TakesAreServed
<1>28. BytesAreAccounted'
  <2> SUFFICES ASSUME NEW v \in stored, v \notin strays PROVE metas'[v] # None \/ rows'[v] # None
    BY <1>1 DEF BytesAreAccounted, Known
  <2>1. v \in Uploads /\ v # k
    BY <1>0, <1>5 DEF TypeOK
  <2> QED BY <1>0, <1>8, <2>1 DEF Agree, BytesAreAccounted, Known
<1> QED BY <1>20, <1>21, <1>22, <1>23, <1>24, <1>25, <1>26, <1>27, <1>28 DEF Agree

-----------------------------------------------------------------------------
(* The recovery pass                                                        *)

\* What any step of the pass may do.
PassRows(v) ==
  /\ rows'[v] # None => rows[v] # None /\ rows'[v].actual = rows[v].actual
  /\ v \in Active' => v \in Active
  /\ v \in Active => v \in Active' \/ pass.pc \in {"next", "forget"}
  /\ metas'[v] # None => rows'[v] = None /\ (metas[v] # None \/ Referenced(v))
  /\ metas'[v] # None /\ ~metas'[v].pending => Referenced(v) \/ (metas[v] # None /\ ~metas[v].pending)
  /\ Known(v) => metas'[v] # None \/ (rows[v] # None /\ rows'[v] # None) \/ (pass.pc = "forget" /\ pass.key = v)
PassMove ==
  /\ UNCHANGED <<backend, takes, flight, writer, overlooked, thrown, strays>>
  /\ process' # "down"
  /\ PassBusy' => PassBusy \/ ~Busy
  /\ \A v \in Uploads : PassRows(v)
  /\ stored' \subseteq stored /\ \A v \in stored \ stored' : pass.pc = "erase" /\ pass.key = v
  /\ \A v \in pass'.todo : v \in pass.todo \/ metas[v] # None
  /\ \/ pass'.key = None
     \/ pass'.key = pass.key /\ pass'.loop = pass.loop
     \/ pass'.key \in Uploads /\ pass'.loop = "uploads" /\ rows[pass'.key] # None
     \/ pass'.key \in pass.todo
  /\ PassFits'

\* It keeps the invariant.
LEMMA PassKeeps ==
  ASSUME IInv, TypeOK', PassMove
  PROVE  Agree'
<1> USE NoneIsNoUpload
<1>0. TypeOK /\ Agree
  BY DEF IInv
<1>1. /\ UNCHANGED <<backend, takes, flight, writer, overlooked, thrown, strays>>
      /\ \A v \in Uploads : (Referenced(v)' <=> Referenced(v)) /\ (Fresh(v)' <=> Fresh(v))
      /\ Synchronous' = Synchronous
  BY DEF PassMove, Referenced, Fresh, Synchronous
<1>2. \A v \in Uploads : PassRows(v)
  BY DEF PassMove
<1>3. OneAtATime'
  <2>1. PassBusy' => \A v \in Uploads : writer[v].pc \notin Synchronous
    BY <1>0, NotBusy DEF PassMove, Agree, OneAtATime
  <2> QED BY <1>0, <1>1, <2>1 DEF Agree, OneAtATime
<1>4. DownIsQuiet'
  BY DEF PassMove, DownIsQuiet
<1>5. FreshIsUnnamed'
  <2> SUFFICES ASSUME NEW v \in Uploads
               PROVE  /\ Fresh(v) => /\ ~Referenced(v) /\ metas'[v] = None /\ v \notin pass'.todo
                                     /\ ~(pass'.loop = "objects" /\ pass'.key = v)
                                     /\ \A w \in Uploads : writer[w].old # v
                      /\ writer[v].pc = "none" => rows'[v] = None /\ v \notin stored' /\ pass'.key # v
                      /\ writer[v].pc \in {"none", "stage", "landed", "ended", "commit"} \/ backend = "fs" => flight[v] = 0
    BY <1>1 DEF FreshIsUnnamed
  <2>1. Fresh(v) => ~Referenced(v) /\ metas'[v] = None /\ v \notin pass'.todo
    BY <1>0, <1>2 DEF Agree, FreshIsUnnamed, PassRows, PassMove
  <2>2. Fresh(v) => ~(pass'.loop = "objects" /\ pass'.key = v)
    BY <1>0 DEF Agree, FreshIsUnnamed, PassMove
  <2>3. writer[v].pc = "none" => rows'[v] = None /\ v \notin stored'
    BY <1>0, <1>2 DEF Agree, FreshIsUnnamed, PassRows, PassMove
  <2>4. writer[v].pc = "none" => pass'.key # v
    BY <1>0 DEF Agree, FreshIsUnnamed, PassMove, Fresh, Early
  <2> QED BY <1>0, <2>1, <2>2, <2>3, <2>4 DEF Agree, FreshIsUnnamed
<1>6. WritersFit'
  <2> SUFFICES ASSUME NEW v \in Uploads PROVE WriterFits(v)'
    BY DEF WritersFit
  <2>1. WriterFits(v) /\ PassRows(v) /\ writer' = writer
    BY <1>0, <1>1, <1>2 DEF Agree, WritersFit
  <2>2. v \in Active' => v \in Active /\ (v \in stored => v \in stored') /\ rows[v] # None
    BY <1>0, <2>1 DEF PassMove, PassRows, Agree, PassFits, Active
  <2>3. v \in Active' => rows'[v] # None
    BY DEF Active
  <2>4. writer[v].pc \in {"commit", "attach"} => v \in Active'
    <3>1. writer[v].pc \in {"commit", "attach"} => pass.pc \notin {"next", "forget"}
      BY <1>0, Alone DEF Synchronous
    <3> QED BY <2>1, <3>1 DEF PassRows, WriterFits
  <2>5. writer[v].pc = "attach" => Referenced(v)
    BY <2>1 DEF WriterFits
  <2>6. stored' \subseteq stored
    BY DEF PassMove
  <2> QED BY <1>1, <2>1, <2>2, <2>3, <2>4, <2>6 DEF WriterFits, PassRows, Referenced
<1>7. TakesDiffer'
  BY <1>0, <1>1 DEF Agree, TakesDiffer
<1>8. OneHome'
  BY <1>0, <1>1, <1>2 DEF Agree, OneHome, PassRows
<1>9. AttachedIsKnown'
  BY <1>0, <1>1, <1>2 DEF Agree, AttachedIsKnown, PassRows
<1>10. TakesAreServed'
  <2> SUFFICES ASSUME NEW s \in Takes, takes[s] # None, takes[s] \notin thrown
               PROVE  /\ takes[s] \in stored'
                      /\ metas'[takes[s]] # None \/ (rows'[takes[s]] # None /\ rows'[takes[s]].actual)
    BY <1>1 DEF TakesAreServed
  <2>1. PICK k \in Uploads : k = takes[s]
    BY <1>0 DEF TypeOK
  <2>2. k \in stored /\ (metas[k] # None \/ (rows[k] # None /\ rows[k].actual)) /\ Referenced(k)
    BY <1>0, <2>1 DEF Agree, TakesAreServed, Referenced
  <2>3. ~(pass.pc \in {"erase", "forget"} /\ pass.key = k)
    BY <1>0, <2>2 DEF Agree, PassFits
  <2>4. k \in stored'
    BY <2>2, <2>3 DEF PassMove
  <2>5. metas'[k] # None \/ (rows'[k] # None /\ rows'[k].actual)
    <3>1. Known(k) /\ PassRows(k)
      BY <1>2, <2>2 DEF Known
    <3>2. metas[k] # None => rows[k] = None
      BY <1>0 DEF Agree, OneHome
    <3> QED BY <2>2, <2>3, <3>1, <3>2 DEF PassRows
  <2> QED BY <2>1, <2>4, <2>5
<1>11. BytesAreAccounted'
  <2> SUFFICES ASSUME NEW v \in stored', v \notin strays PROVE metas'[v] # None \/ rows'[v] # None
    BY <1>1 DEF BytesAreAccounted, Known
  <2>1. v \in stored /\ v \in Uploads /\ Known(v)
    BY <1>0 DEF PassMove, TypeOK, Agree, BytesAreAccounted
  <2>2. ~(pass.pc = "forget" /\ pass.key = v)
    BY <1>0, <2>1 DEF Agree, PassFits
  <2> QED BY <1>2, <2>1, <2>2 DEF PassRows
<1> QED BY <1>3, <1>4, <1>5, <1>6, <1>7, <1>8, <1>9, <1>10, <1>11 DEF Agree, PassMove

\* Steps of the pass that leave the rows of the state file alone.
LEMMA SameRows ==
  ASSUME IInv, NEW v \in Uploads, rows' = rows, metas' = metas
  PROVE  PassRows(v)
BY DEF IInv, Agree, OneHome, PassRows, Active, Known

\* A pass that runs has an open or a starting process under it.
LEMMA PassRuns ==
  ASSUME IInv, pass.pc # "off"
  PROVE  process # "down"
BY DEF IInv, Agree, DownIsQuiet

\* The steps of a pass are such: its beginning, turn and end, ...
LEMMA PassFrameMoves ==
  ASSUME IInv, TypeOK', StartPass \/ PassTurns \/ PassEnds
  PROVE  PassMove
<1>0. TypeOK /\ Agree
  BY DEF IInv
<1>1. /\ UNCHANGED <<backend, takes, rows, metas, stored, flight, writer, overlooked, thrown, strays>>
      /\ process' # "down"
  BY PassRuns DEF StartPass, PassTurns, PassEnds, NextIs, history
<1>2. \A v \in Uploads : PassRows(v)
  BY <1>1, SameRows
<1>3. (PassBusy' => PassBusy \/ ~Busy) /\ pass'.key = None /\ pass'.pc \in {"off", "next"}
      /\ pass'.todo \subseteq pass.todo \cup Pending
  <2>1. CASE StartPass
    <3>1. pass' = [pc |-> "next", loop |-> "uploads", seen |-> {}, key |-> None, todo |-> Pending] /\ ~Busy
      BY <2>1 DEF StartPass, Begun, Off
    <3> QED BY <3>1
  <2>2. CASE PassTurns
    <3>1. pass \in Passes /\ pass.pc = "next" /\ pass.key = None /\ pass' = [pass EXCEPT !.loop = "objects"] /\ backend' = backend
      BY <1>0, <2>2 DEF PassTurns, NextIs, TypeOK, Agree, PassFits
    <3> QED BY <3>1 DEF Passes, PassBusy
  <2>3. CASE PassEnds
    <3>1. pass' = [pc |-> "off", loop |-> "uploads", seen |-> {}, key |-> None, todo |-> {}]
      BY <2>3 DEF PassEnds, Off
    <3> QED BY <3>1 DEF PassBusy
  <2> QED BY <2>1, <2>2, <2>3
<1>4. PassFits'
  BY <1>3 DEF PassFits
<1> QED BY <1>1, <1>2, <1>3, <1>4 DEF PassMove, Pending

\* ... an upload whose lease ran out, promoted or given up, ...
LEMMA PassUploadMoves ==
  ASSUME IInv, TypeOK', NEW u \in Uploads, PassUpload(u)
  PROVE  PassMove
<1> USE NoneIsNoUpload
<1>0. TypeOK /\ Agree
  BY DEF IInv
<1>1. /\ UNCHANGED <<backend, takes, stored, flight, writer, overlooked, thrown, strays>>
      /\ process' # "down" /\ pass.pc = "next" /\ pass.loop = "uploads" /\ pass.key = None
      /\ rows[u] # None /\ rows[u] \in Rows /\ metas[u] = None
  BY <1>0, PassRuns DEF PassUpload, NextIs, history, Agree, PassFits, OneHome, TypeOK
<1>2. /\ Abandoned(rows[u]) # None /\ Abandoned(rows[u]).actual = rows[u].actual
      /\ Abandoned(rows[u]).state = "abandoned"
  BY <1>1, AbandonedRow
<1>3. /\ pass'.loop = "uploads" /\ pass'.todo = pass.todo
      /\ \/ /\ pass'.pc = "next" /\ pass'.key = None /\ metas' = metas
            /\ rows' = rows \/ rows' = [rows EXCEPT ![u] = Abandoned(@)]
         \/ /\ pass'.pc = "recheck" /\ pass'.key = u /\ Referenced(u)
            /\ metas' = [metas EXCEPT ![u] = [size |-> rows[u].size, pending |-> FALSE]]
            /\ rows' = [rows EXCEPT ![u] = None]
         \/ /\ pass'.pc = "erase" /\ pass'.key = u /\ ~Referenced(u) /\ metas' = metas
            /\ rows' = [rows EXCEPT ![u] = Abandoned(@)]
  <2>1. pass.pc = "next" /\ pass.key = None /\ pass.loop = "uploads" /\ pass \in Passes
    BY <1>0, <1>1 DEF TypeOK
  <2> QED BY <2>1 DEF PassUpload, Passes
<1>4. \A v \in Uploads \ {u} : rows'[v] = rows[v] /\ metas'[v] = metas[v]
  BY <1>0, <1>3 DEF TypeOK
<1>5. ASSUME NEW v \in Uploads \ {u} PROVE PassRows(v)
  BY <1>0, <1>4 DEF PassRows, Active, Known, Agree, OneHome
<1>6. \/ metas' = metas /\ rows' = rows /\ pass'.key = None
      \/ /\ metas' = metas /\ rows'[u] = Abandoned(rows[u])
         /\ pass'.key = None \/ (pass'.pc = "erase" /\ ~Referenced(u))
      \/ rows'[u] = None /\ Referenced(u) /\ metas'[u] = [size |-> rows[u].size, pending |-> FALSE] /\ pass'.pc = "recheck"
  BY <1>0, <1>3 DEF TypeOK
<1>7. [size |-> rows[u].size, pending |-> FALSE] \in Metas
  BY <1>1 DEF Rows, Metas
<1>8. PassRows(u)
  <2>1. CASE metas' = metas /\ rows' = rows
    BY <2>1, SameRows
  <2>2. CASE metas' = metas /\ rows'[u] = Abandoned(rows[u])
    BY <1>1, <1>2, <2>2 DEF PassRows, Active, Known
  <2>3. CASE rows'[u] = None /\ Referenced(u) /\ metas'[u] = [size |-> rows[u].size, pending |-> FALSE]
    <3>1. metas'[u] # None
      BY <1>7, <2>3, NoneIsNoRow
    <3> QED BY <1>1, <2>3, <3>1 DEF PassRows, Active
  <2> QED BY <1>6, <2>1, <2>2, <2>3
<1>9. PassFits'
  <2>1. CASE pass'.pc = "next" /\ pass'.key = None
    BY <2>1 DEF PassFits
  <2>2. CASE pass'.pc = "recheck" /\ pass'.key = u /\ Referenced(u)
    <3>1. metas'[u] # None
      BY <1>2, <1>3, <1>6, <1>7, <2>2, NoneIsNoRow
    <3> QED BY <2>2, <3>1 DEF PassFits
  <2>3. CASE pass'.pc = "erase" /\ pass'.key = u /\ ~Referenced(u)
    <3>1. rows'[u] = Abandoned(rows[u])
      BY <1>3, <1>6, <2>3
    <3>2. u \notin Active'
      BY <1>2, <3>1 DEF Active
    <3>3. ~\E s \in Takes : takes'[s] = u
      BY <1>1, <2>3 DEF Referenced
    <3> QED BY <2>3, <3>2, <3>3 DEF PassFits, Referenced
  <2> QED BY <1>3, <2>1, <2>2, <2>3
<1>10. PassBusy
  BY <1>1 DEF PassBusy
<1> QED BY <1>1, <1>3, <1>5, <1>8, <1>9, <1>10 DEF PassMove

\* ... the second question about a promoted one, ...
LEMMA PassRecheckMoves ==
  ASSUME IInv, TypeOK', PassRecheck
  PROVE  PassMove
<1> USE NoneIsNoUpload
<1>0. TypeOK /\ Agree
  BY DEF IInv
<1>1. PICK k \in Uploads : k = pass.key
  BY <1>0 DEF PassRecheck, Agree, PassFits, TypeOK, Passes
<1>2. /\ UNCHANGED <<backend, takes, rows, stored, flight, writer, overlooked, thrown, strays>>
      /\ process' # "down" /\ pass.pc = "recheck"
      /\ metas' = metas \/ metas' = [metas EXCEPT ![k].pending = TRUE]
      /\ metas[k] # None /\ metas[k] \in Metas
  BY <1>0, <1>1, PassRuns DEF PassRecheck, history, Agree, PassFits, TypeOK
<1>3. pass'.pc = "next" /\ pass'.key = None /\ pass'.todo = pass.todo
  BY <1>0 DEF PassRecheck, TypeOK, Passes
<1>4. \A v \in Uploads : metas'[v] = metas[v] \/ (v = k /\ metas'[v] \in Metas /\ metas'[v].pending)
  <2>1. [metas[k] EXCEPT !.pending = TRUE] \in Metas /\ [metas[k] EXCEPT !.pending = TRUE].pending
    BY <1>2 DEF Metas
  <2>2. CASE metas' = [metas EXCEPT ![k].pending = TRUE]
    <3>1. metas'[k] = [metas[k] EXCEPT !.pending = TRUE] /\ \A v \in Uploads \ {k} : metas'[v] = metas[v]
      BY <1>0, <2>2 DEF TypeOK
    <3> QED BY <2>1, <3>1
  <2> QED BY <1>2, <2>2
<1>5. ASSUME NEW v \in Uploads PROVE PassRows(v)
  <2>1. Active' = Active /\ rows' = rows
    BY <1>2 DEF Active
  <2>2. metas[v] # None => rows[v] = None
    BY <1>0 DEF Agree, OneHome
  <2>3. metas'[v] # None <=> metas[v] # None
    BY <1>2, <1>4, NoneIsNoRow
  <2> QED BY <1>4, <2>1, <2>2, <2>3 DEF PassRows, Known
<1>6. PassFits' /\ PassBusy
  BY <1>2, <1>3 DEF PassFits, PassBusy
<1> QED BY <1>2, <1>3, <1>5, <1>6 DEF PassMove

\* ... a pending object, ...
LEMMA PassObjectMoves ==
  ASSUME IInv, TypeOK', NEW u \in Uploads, PassObject(u)
  PROVE  PassMove
<1> USE NoneIsNoUpload
<1>0. TypeOK /\ Agree
  BY DEF IInv
<1>1. /\ UNCHANGED <<backend, takes, rows, stored, flight, writer, overlooked, thrown, strays>>
      /\ process' # "down" /\ pass.pc = "next" /\ pass.loop = "objects" /\ pass.key = None /\ u \in pass.todo
  BY <1>0, PassRuns DEF PassObject, NextIs, history, Agree, PassFits
<1>2. /\ pass'.todo \subseteq pass.todo
      /\ \/ pass'.pc = "next" /\ pass'.key = None
         \/ pass'.pc = "erase" /\ pass'.key = u /\ ~Referenced(u) /\ u \in Pending
      /\ \/ metas' = metas
         \/ u \in Pending /\ Referenced(u) /\ metas' = [metas EXCEPT ![u].pending = FALSE]
  <2>1. pass.pc = "next" /\ pass.key = None /\ pass \in Passes
    BY <1>0, <1>1 DEF TypeOK
  <2> QED BY <2>1 DEF PassObject, Passes
<1>3. \A v \in Uploads : metas'[v] = metas[v] \/ (v = u /\ u \in Pending /\ Referenced(u) /\ metas'[v] \in Metas)
  <2>1. u \in Pending => metas[u] \in Metas /\ [metas[u] EXCEPT !.pending = FALSE] \in Metas
    <3>1. u \in Pending => metas[u] \in Metas
      BY <1>0 DEF Pending, TypeOK
    <3> QED BY <3>1 DEF Metas
  <2>2. CASE u \in Pending /\ Referenced(u) /\ metas' = [metas EXCEPT ![u].pending = FALSE]
    <3>1. metas'[u] = [metas[u] EXCEPT !.pending = FALSE] /\ \A v \in Uploads \ {u} : metas'[v] = metas[v]
      BY <1>0, <2>2 DEF TypeOK
    <3> QED BY <2>1, <2>2, <3>1
  <2> QED BY <1>2, <2>2
<1>4. ASSUME NEW v \in Uploads PROVE PassRows(v)
  <2>1. Active' = Active /\ rows' = rows
    BY <1>1 DEF Active
  <2>2. metas[v] # None => rows[v] = None
    BY <1>0 DEF Agree, OneHome
  <2>3. metas'[v] # None <=> metas[v] # None
    BY <1>3, NoneIsNoRow DEF Pending
  <2> QED BY <1>3, <2>1, <2>2, <2>3 DEF PassRows, Known
<1>5. PassFits'
  <2>1. u \in Pending => u \notin Active'
    BY <1>0, <1>1 DEF Pending, Active, Agree, OneHome
  <2>2. ~Referenced(u) => ~\E s \in Takes : takes'[s] = u
    BY <1>1 DEF Referenced
  <2> QED BY <1>2, <2>1, <2>2 DEF PassFits, Referenced
<1>6. PassBusy
  BY <1>1 DEF PassBusy
<1> QED BY <1>1, <1>2, <1>4, <1>5, <1>6 DEF PassMove

\* ... a deletion, ...
LEMMA PassEraseMoves ==
  ASSUME IInv, TypeOK', PassErase \/ PassEraseFails
  PROVE  PassMove
<1> USE NoneIsNoUpload
<1>0. TypeOK /\ Agree
  BY DEF IInv
<1>1. PICK k \in Uploads : k = pass.key
  BY <1>0 DEF PassErase, PassEraseFails, CanPassErase, Agree, PassFits, TypeOK, Passes
<1>2. /\ UNCHANGED <<backend, takes, rows, metas, flight, writer, overlooked, thrown, strays>>
      /\ process' # "down" /\ pass.pc = "erase" /\ (backend = "s3" => ~Busy)
      /\ ~Referenced(k) /\ k \notin Active
  BY <1>0, <1>1, PassRuns DEF PassErase, PassEraseFails, CanPassErase, history, Agree, PassFits
<1>3. /\ pass'.todo = pass.todo /\ pass'.loop = pass.loop
      /\ \/ pass'.pc = "next" /\ pass'.key = None
         \/ pass'.pc = "forget" /\ pass'.key = k /\ k \notin stored'
      /\ stored' \subseteq stored /\ stored \subseteq stored' \cup {k}
  BY <1>0, <1>1 DEF PassErase, PassEraseFails, TypeOK, Passes
<1>4. \A v \in Uploads : PassRows(v)
  BY <1>2, SameRows
<1>5. PassFits'
  <2>1. ~(\E s \in Takes : takes'[s] = k) /\ k \notin Active'
    BY <1>2 DEF Referenced, Active
  <2> QED BY <1>3, <2>1 DEF PassFits, Referenced
<1>6. PassBusy \/ ~Busy
  BY <1>0, <1>2 DEF PassBusy, TypeOK
<1> QED BY <1>1, <1>2, <1>3, <1>4, <1>5, <1>6 DEF PassMove

\* ... and what follows it.
LEMMA PassForgetMoves ==
  ASSUME IInv, TypeOK', PassForget
  PROVE  PassMove
<1> USE NoneIsNoUpload
<1>0. TypeOK /\ Agree
  BY DEF IInv
<1>1. PICK k \in Uploads : k = pass.key
  BY <1>0 DEF PassForget, Agree, PassFits, TypeOK, Passes
<1>2. /\ UNCHANGED <<backend, takes, stored, flight, writer, overlooked, thrown, strays>>
      /\ process' # "down" /\ pass.pc = "forget"
      /\ \/ rows' = [rows EXCEPT ![k] = None] /\ metas' = metas
         \/ metas' = [metas EXCEPT ![k] = None] /\ rows' = rows
  BY <1>0, <1>1, PassRuns DEF PassForget, history
<1>3. pass'.todo = pass.todo /\ pass'.pc = "next" /\ pass'.key = None
  BY <1>0 DEF PassForget, TypeOK, Passes
<1>4. ASSUME NEW v \in Uploads PROVE PassRows(v)
  <2>1. \/ rows'[v] = rows[v] /\ metas'[v] = metas[v]
        \/ v = k /\ rows'[v] = None /\ metas'[v] = metas[v]
        \/ v = k /\ rows'[v] = rows[v] /\ metas'[v] = None
    BY <1>0, <1>2 DEF TypeOK
  <2>2. metas[v] # None => rows[v] = None
    BY <1>0 DEF Agree, OneHome
  <2> QED BY <1>1, <1>2, <2>1, <2>2 DEF PassRows, Active, Known
<1>5. PassFits' /\ PassBusy
  BY <1>2, <1>3 DEF PassFits, PassBusy
<1> QED BY <1>2, <1>3, <1>4, <1>5 DEF PassMove

-----------------------------------------------------------------------------
(* The process and the clock                                                *)

\* A crash forgets the writers and the pass, not what they had done.
LEMMA CrashKeeps ==
  ASSUME IInv, TypeOK', Crash
  PROVE  Agree'
<1> USE NoneIsNoUpload
<1>0. TypeOK /\ Agree
  BY DEF IInv
<1>1. /\ UNCHANGED <<backend, takes, rows, metas, stored, flight, thrown, strays>>
      /\ overlooked \subseteq overlooked' /\ pass' = Off
      /\ \A v \in Uploads : /\ writer'[v].old = None
                            /\ writer'[v].pc = IF writer[v].pc = "none" THEN "none" ELSE "done"
  BY DEF Crash, Gone
<1>2. /\ pass'.pc = "off" /\ pass'.key = None /\ pass'.todo = {} /\ pass'.loop = "uploads"
  BY <1>1 DEF Off
<1>3. /\ \A v \in Uploads : (Referenced(v)' <=> Referenced(v)) /\ (Fresh(v)' => Fresh(v))
      /\ Active' = Active
  BY <1>1 DEF Referenced, Fresh, Early, Active
<1>4. OneAtATime' /\ DownIsQuiet'
  BY <1>1, <1>2 DEF OneAtATime, DownIsQuiet, Synchronous
<1>5. FreshIsUnnamed'
  BY <1>0, <1>1, <1>2, <1>3 DEF Agree, FreshIsUnnamed
<1>6. WritersFit' /\ PassFits'
  BY <1>1, <1>2 DEF WritersFit, WriterFits, PassFits
<1>7. TakesDiffer' /\ OneHome' /\ TakesAreServed' /\ BytesAreAccounted'
  BY <1>0, <1>1, <1>3 DEF Agree, TakesDiffer, OneHome, TakesAreServed, BytesAreAccounted, Known
<1>8. AttachedIsKnown'
  <2>1. ASSUME NEW v \in Uploads, writer[v].pc = "attach", writer[v].old # None
        PROVE  writer[v].old \in overlooked'
    BY <2>1 DEF Crash
  <2> QED BY <1>0, <1>1, <1>3, <2>1 DEF Agree, AttachedIsKnown
<1> QED BY <1>4, <1>5, <1>6, <1>7, <1>8 DEF Agree

\* While the process is down no writer and no pass is under way.
LEMMA QuietWriters ==
  ASSUME IInv, process = "down"
  PROVE  pass.pc = "off" /\ pass.key = None /\ \A v \in Uploads : writer[v].pc \in {"none", "done"}
BY DEF IInv, Agree, DownIsQuiet, PassFits

\* A start takes every upload of the state file for abandoned.
LEMMA StartKeeps ==
  ASSUME IInv, TypeOK', Start
  PROVE  Agree'
<1> USE NoneIsNoUpload
<1>0. TypeOK /\ Agree /\ \A v \in Uploads : writer[v].pc \in {"none", "done"}
  BY QuietWriters DEF IInv, Start
<1>1. /\ UNCHANGED <<backend, takes, metas, stored, flight, writer, overlooked, thrown, strays>>
      /\ pass' = Begun /\ process' = "starting"
  BY DEF Start, history
<1>2. pass'.pc = "next" /\ pass'.key = None /\ pass'.todo = Pending /\ pass'.loop = "uploads"
  BY <1>1 DEF Begun, Off
<1>3. ASSUME NEW v \in Uploads
      PROVE  /\ rows'[v] # None <=> rows[v] # None
             /\ rows[v] # None => rows'[v].actual = rows[v].actual
             /\ v \notin Active'
  <2>1. rows'[v] = IF rows[v] = None THEN None ELSE Abandoned(rows[v])
    BY DEF Start
  <2>2. rows[v] # None => /\ Abandoned(rows[v]) # None /\ Abandoned(rows[v]).actual = rows[v].actual
                          /\ Abandoned(rows[v]).state = "abandoned"
    BY <1>0, AbandonedRow DEF TypeOK
  <2> QED BY <2>1, <2>2 DEF Active
<1>4. \A v \in Uploads : (Referenced(v)' <=> Referenced(v)) /\ (Fresh(v)' <=> Fresh(v))
  BY <1>1 DEF Referenced, Fresh
<1>5. OneAtATime' /\ DownIsQuiet'
  BY <1>0, <1>1 DEF OneAtATime, DownIsQuiet, Synchronous
<1>6. FreshIsUnnamed'
  BY <1>0, <1>1, <1>2, <1>3, <1>4 DEF Agree, FreshIsUnnamed, Pending
<1>7. WritersFit' /\ PassFits'
  BY <1>0, <1>1, <1>2, <1>3 DEF Agree, WritersFit, WriterFits, PassFits, Referenced
<1>8. TakesDiffer' /\ OneHome' /\ AttachedIsKnown'
  BY <1>0, <1>1, <1>3, <1>4 DEF Agree, TakesDiffer, OneHome, AttachedIsKnown
<1>9. TakesAreServed' /\ BytesAreAccounted'
  BY <1>0, <1>1, <1>3 DEF Agree, TypeOK, TakesAreServed, BytesAreAccounted, Known
<1> QED BY <1>5, <1>6, <1>7, <1>8, <1>9 DEF Agree

\* The operator removes only bytes the state file does not know.
LEMMA CleanRootKeeps ==
  ASSUME IInv, TypeOK', CleanRoot
  PROVE  Agree'
<1> USE NoneIsNoUpload
<1>0. TypeOK /\ Agree /\ pass.pc = "off" /\ \A v \in Uploads : writer[v].pc \in {"none", "done"}
  BY QuietWriters DEF IInv, CleanRoot
<1>1. /\ UNCHANGED <<backend, takes, rows, metas, flight, writer, process, pass, overlooked, thrown, strays>>
      /\ stored' = {u \in stored : Known(u)}
  BY DEF CleanRoot, history
<1>2. /\ \A v \in Uploads : (Referenced(v)' <=> Referenced(v)) /\ (Fresh(v)' <=> Fresh(v))
      /\ Active' = Active /\ Synchronous' = Synchronous
  BY <1>1 DEF Referenced, Fresh, Active, Synchronous
<1>3. OneAtATime' /\ DownIsQuiet'
  BY <1>0, <1>1 DEF OneAtATime, DownIsQuiet, Synchronous
<1>4. FreshIsUnnamed'
  BY <1>0, <1>1, <1>2 DEF Agree, FreshIsUnnamed
<1>5. WritersFit' /\ PassFits'
  BY <1>0, <1>1, <1>2 DEF Agree, WritersFit, WriterFits, PassFits, Referenced
<1>6. TakesDiffer' /\ OneHome' /\ AttachedIsKnown'
  BY <1>0, <1>1, <1>2 DEF Agree, TakesDiffer, OneHome, AttachedIsKnown
<1>7. TakesAreServed' /\ BytesAreAccounted'
  BY <1>0, <1>1 DEF Agree, TakesAreServed, BytesAreAccounted, Known
<1> QED BY <1>3, <1>4, <1>5, <1>6, <1>7 DEF Agree

\* Time lowers leases and the time left to PUTs.
LEMMA TickKeeps ==
  ASSUME IInv, TypeOK', Tick
  PROVE  Agree'
<1> USE NoneIsNoUpload
<1>0. TypeOK /\ Agree
  BY DEF IInv
<1>1. UNCHANGED <<backend, takes, metas, stored, writer, process, pass, overlooked, thrown, strays>>
  BY DEF Tick, history
<1>2. ASSUME NEW v \in Uploads
      PROVE  /\ rows'[v] # None <=> rows[v] # None
             /\ rows[v] # None => rows'[v].actual = rows[v].actual
             /\ v \in Active' <=> v \in Active
             /\ flight[v] = 0 => flight'[v] = 0
             /\ flight'[v] > 0 => flight[v] > 0
  <2>1. CASE rows[v] # None
    <3>1. rows[v] \in Rows /\ rows'[v] = [rows[v] EXCEPT !.lease = Lower(@)]
      BY <1>0, <2>1 DEF Tick, TypeOK
    <3>2. Lower(rows[v].lease) \in 0 .. Lease
      BY <3>1, LimitsPositive DEF Rows, Lower
    <3>3. rows'[v] \in Rows
      BY <3>1, <3>2, UpdatedRow
    <3>4. rows'[v].actual = rows[v].actual /\ rows'[v].state = rows[v].state /\ rows'[v] # None
      BY <3>1, <3>3, NoneIsNoRow DEF Rows
    <3> QED BY <1>0, <2>1, <3>4 DEF Active, Tick, Lower, TypeOK
  <2>2. CASE rows[v] = None
    <3>1. rows'[v] = None
      BY <2>2 DEF Tick
    <3> QED BY <1>0, <2>2, <3>1 DEF Active, Tick, Lower, TypeOK
  <2> QED BY <2>1, <2>2
<1>3. \A v \in Uploads : (Referenced(v)' <=> Referenced(v)) /\ (Fresh(v)' => Fresh(v))
  BY <1>1, <1>2 DEF Referenced, Fresh
<1>4. OneAtATime' /\ DownIsQuiet'
  BY <1>0, <1>1 DEF Agree, OneAtATime, DownIsQuiet, Synchronous, PassBusy
<1>5. FreshIsUnnamed'
  BY <1>0, <1>1, <1>2, <1>3 DEF Agree, FreshIsUnnamed
<1>6. WritersFit'
  <2> SUFFICES ASSUME NEW v \in Uploads PROVE WriterFits(v)'
    BY DEF WritersFit
  <2>1. WriterFits(v) /\ (v \in Active => rows[v] # None)
    BY <1>0 DEF Agree, WritersFit, Active
  <2> QED BY <1>1, <1>2, <2>1 DEF WriterFits, Referenced
<1>7. PassFits'
  BY <1>0, <1>1, <1>2 DEF Agree, PassFits, Referenced, TypeOK, Passes
<1>8. TakesDiffer' /\ OneHome' /\ AttachedIsKnown'
  BY <1>0, <1>1, <1>2, <1>3 DEF Agree, TakesDiffer, OneHome, AttachedIsKnown
<1>9. TakesAreServed' /\ BytesAreAccounted'
  BY <1>0, <1>1, <1>2 DEF Agree, TypeOK, TakesAreServed, BytesAreAccounted, Known
<1> QED BY <1>4, <1>5, <1>6, <1>7, <1>8, <1>9 DEF Agree

-----------------------------------------------------------------------------
(* The invariant                                                            *)

\* Every step keeps the invariant, and the initial states have it.
LEMMA AgreeStep == IInv /\ [Next]_vars => Agree'
<1> SUFFICES ASSUME IInv, TypeOK', [Next]_vars PROVE Agree'
  BY TypeStep
<1>1. ASSUME NEW u \in Uploads, UploadStep(u) PROVE Agree'
  <2>1. CASE CommitRecord(u)
    BY <2>1, CommitKeeps
  <2>2. CASE AttachUpload(u)
    BY <2>2, AttachKeeps
  <2>3. CASE Erase(u) \/ EraseFails(u)
    BY <2>3, EraseKeeps
  <2>4. CASE Forget(u)
    BY <2>4, ForgetKeeps
  <2>5. CASE UploadMove(u)
    BY <2>5, MoveKeeps
  <2> QED
    BY <1>1, <2>1, <2>2, <2>3, <2>4, <2>5, ReserveMoves, RenewMoves, StageEndsMoves, TransferFailsMoves,
       PutArrivesMoves, PutEndsMoves, ObjectReadyMoves, AbandonMoves DEF UploadStep
<1>2. ASSUME PassStep PROVE Agree'
  <2>1. PassMove
    BY <1>2, PassFrameMoves, PassUploadMoves, PassRecheckMoves, PassObjectMoves, PassEraseMoves, PassForgetMoves
       DEF PassStep
  <2> QED BY <2>1, PassKeeps
<1>3. CASE UNCHANGED vars
  <2>1. Agree
    BY DEF IInv
  <2> QED
    BY <1>3, <2>1 DEF vars, Agree, OneAtATime, DownIsQuiet, FreshIsUnnamed, WritersFit, WriterFits, PassFits, TakesDiffer,
       OneHome, AttachedIsKnown, TakesAreServed, BytesAreAccounted, Synchronous, PassBusy, Fresh, Referenced, Active, Known
<1> QED BY <1>1, <1>2, <1>3, CrashKeeps, StartKeeps, CleanRootKeeps, TickKeeps DEF Next


LEMMA InitHolds == Init => IInv
<1> SUFFICES ASSUME Init PROVE IInv
  OBVIOUS
<1> USE NoneIsNoUpload, LimitsPositive
<1>1. TypeOK
  <2>1. Gone \in Writers /\ Off \in Passes
    BY DEF Gone, Off, Writers, Places, Passes
  <2>2. debris \in BOOLEAN
    BY DEF Init
  <2>3. flight \in [Uploads -> 0 .. PutTime] /\ stops \in 0 .. MaxStops
    BY DEF Init
  <2>4. takes \in [Takes -> Uploads \cup {None}] /\ rows \in [Uploads -> Rows \cup {None}] /\ metas \in [Uploads -> Metas \cup {None}]
    BY DEF Init
  <2>5. writer \in [Uploads -> Writers] /\ pass \in Passes
    BY <2>1 DEF Init
  <2>6. /\ backend \in {"fs", "s3"} /\ process \in {"down", "starting", "open"}
        /\ stored \subseteq Uploads /\ overlooked \subseteq Uploads /\ thrown \subseteq Uploads /\ strays \subseteq Uploads
    BY DEF Init
  <2> QED BY <2>2, <2>3, <2>4, <2>5, <2>6 DEF TypeOK
<1>2. /\ \A u \in Uploads : writer[u].pc = "none" /\ writer[u].old = None /\ rows[u] = None /\ metas[u] = None /\ flight[u] = 0
      /\ pass.pc = "off" /\ pass.key = None /\ pass.todo = {} /\ pass.loop = "uploads"
      /\ \A t \in Takes : takes[t] = None
      /\ stored = {} /\ process = "open"
  BY DEF Init, Gone, Off
<1>3. \A u \in Uploads : ~Referenced(u)
  BY <1>2 DEF Referenced
<1>4. OneAtATime /\ DownIsQuiet /\ FreshIsUnnamed
  BY <1>2, <1>3 DEF OneAtATime, DownIsQuiet, FreshIsUnnamed, Synchronous
<1>5. WritersFit /\ PassFits /\ TakesDiffer /\ OneHome /\ AttachedIsKnown
  BY <1>2, <1>3 DEF WritersFit, WriterFits, PassFits, TakesDiffer, OneHome, AttachedIsKnown
<1>6. TakesAreServed /\ BytesAreAccounted
  BY <1>2 DEF TakesAreServed, BytesAreAccounted
<1> QED BY <1>1, <1>4, <1>5, <1>6 DEF IInv, Agree

\* The invariant holds in every reachable state.
THEOREM InvariantHolds == Spec => []IInv
<1>1. IInv /\ [Next]_vars => IInv'
  BY TypeStep, AgreeStep DEF IInv
<1> QED BY <1>1, InitHolds, PTL DEF Spec

\* What the record names is in the object store and known to the state file, unless its
\* record update took effect and threw: for any interleaving of uploads, passes, failures
\* and crashes.
THEOREM TakesStayServed == Spec => []TakesAreServed
<1>1. IInv => TakesAreServed
  BY DEF IInv, Agree
<1> QED BY <1>1, InvariantHolds, PTL

\* Between two pieces of code, an object that no take names is on its way out, unless its
\* replacement's attachUpload never happened.
THEOREM AttachedStaysReferenced == Spec => []AttachedIsReferenced
<1>1. IInv => AttachedIsReferenced
  BY DEF IInv, Agree, AttachedIsKnown, AttachedIsReferenced, Busy, Synchronous
<1> QED BY <1>1, InvariantHolds, PTL

-----------------------------------------------------------------------------
(* The quota                                                                *)

Charge(u) == MetaCharge(u) + RowCharge(rows[u])

\* A key is charged with a number of bytes.
LEMMA RowChargeIsNumber ==
  ASSUME NEW r \in Rows \cup {None}
  PROVE  RowCharge(r) \in Nat
BY LimitsPositive, NoneIsNoRow DEF RowCharge, Rows

\* So is an object, ...
LEMMA MetaChargeIsNumber ==
  ASSUME TypeOK, NEW u \in Uploads
  PROVE  MetaCharge(u) \in Nat
BY LimitsPositive DEF TypeOK, MetaCharge, Metas

\* ... and both together.
LEMMA ChargeIsNumber ==
  ASSUME TypeOK, NEW u \in Uploads
  PROVE  Charge(u) \in Nat
<1>1. rows[u] \in Rows \cup {None}
  BY DEF TypeOK
<1>2. RowCharge(rows[u]) \in Nat /\ MetaCharge(u) \in Nat
  BY <1>1, RowChargeIsNumber, MetaChargeIsNumber
<1> QED BY <1>2 DEF Charge

\* The charge after a step, compared with that of some rows a before it.
LEMMA ChargedGrows ==
  ASSUME TypeOK, TypeOK', NEW a \in [Uploads -> Rows \cup {None}],
         NEW u, NEW n \in Nat,
         u \in Uploads => Charge(u)' <= n,
         \A v \in Uploads \ {u} : Charge(v)' <= MetaCharge(v) + RowCharge(a[v]),
         Charged(a) - (IF u \in Uploads THEN MetaCharge(u) + RowCharge(a[u]) ELSE 0)
           + (IF u \in Uploads THEN n ELSE 0) <= MaxRecord
  PROVE  QuotaHolds'
<1> DEFINE f == [v \in Uploads |-> MetaCharge(v) + RowCharge(a[v])]
           g == [v \in Uploads |-> Charge(v)']
<1>1. ASSUME NEW v \in Uploads
      PROVE  f[v] \in Int /\ f[v] >= 0 /\ f[v] = MetaCharge(v) + RowCharge(a[v]) /\ g[v] \in Int /\ g[v] = Charge(v)'
  <2>1. MetaCharge(v) \in Nat /\ RowCharge(a[v]) \in Nat
    BY RowChargeIsNumber, MetaChargeIsNumber
  <2>2. RowCharge(rows'[v]) \in Nat
    BY RowChargeIsNumber DEF TypeOK
  <2>3. MetaCharge(v)' \in Nat
    BY LimitsPositive DEF TypeOK, MetaCharge, Metas
  <2>4. Charge(v)' \in Nat
    BY <2>2, <2>3 DEF Charge
  <2> QED BY <2>1, <2>4
<1>2. Charged(a) = SumFunctionOnSet(f, Uploads)
  BY DEF Charged
<1>3. (SumFunctionOnSet(g, Uploads) <= MaxRecord) => QuotaHolds'
  BY DEF QuotaHolds, Charged, Charge
<1> HIDE DEF f, g
<1>4. SumFunctionOnSet(g, Uploads) \in Int /\ SumFunctionOnSet(f, Uploads) \in Int
  BY <1>1, UploadsFinite, SumIsNumber
<1>5. CASE u \notin Uploads
  <2>1. \A v \in Uploads : g[v] <= f[v]
    BY <1>1, <1>5
  <2>2. SumFunctionOnSet(g, Uploads) <= SumFunctionOnSet(f, Uploads)
    BY <1>1, <2>1, UploadsFinite, SumGrows
  <2> QED BY <1>2, <1>3, <1>4, <1>5, <2>2, LimitsPositive
<1>6. CASE u \in Uploads
  <2>1. IsFiniteSet(Uploads \ {u})
    BY UploadsFinite, FS_Subset
  <2>2. SumFunctionOnSet(g, Uploads) = g[u] + SumFunctionOnSet(g, Uploads \ {u})
        /\ SumFunctionOnSet(f, Uploads) = f[u] + SumFunctionOnSet(f, Uploads \ {u})
    BY <1>1, <1>6, UploadsFinite, SumSplits
  <2>3. \A v \in Uploads \ {u} : g[v] <= f[v]
    BY <1>1
  <2>4. SumFunctionOnSet(g, Uploads \ {u}) <= SumFunctionOnSet(f, Uploads \ {u})
    BY <1>1, <2>1, <2>3, SumGrows
  <2>5. SumFunctionOnSet(g, Uploads \ {u}) \in Int /\ SumFunctionOnSet(f, Uploads \ {u}) \in Int
    BY <1>1, <2>1, SumIsNumber
  <2>6. g[u] <= n /\ g[u] \in Int /\ f[u] \in Int /\ f[u] = MetaCharge(u) + RowCharge(a[u])
    BY <1>1, <1>6
  <2>7. SumFunctionOnSet(f, Uploads) - f[u] + n <= MaxRecord
    BY <1>2, <1>6, <2>6
  <2> QED BY <1>3, <1>4, <2>2, <2>4, <2>5, <2>6, <2>7, LimitsPositive
<1> QED BY <1>5, <1>6

\* A step that charges no key with more.
LEMMA QuotaShrinks ==
  ASSUME TypeOK, TypeOK', QuotaHolds, \A v \in Uploads : Charge(v)' <= Charge(v)
  PROVE  QuotaHolds'
<1>1. rows \in [Uploads -> Rows \cup {None}] /\ None \notin Uploads /\ 0 \in Nat
  BY NoneIsNoUpload DEF TypeOK
<1>2. \A v \in Uploads \ {None} : Charge(v)' <= MetaCharge(v) + RowCharge(rows[v])
  BY DEF Charge
<1>3. Charged(rows) \in Int
  <2> DEFINE f == [v \in Uploads |-> MetaCharge(v) + RowCharge(rows[v])]
  <2>1. \A v \in Uploads : f[v] \in Int
    <3>1. \A v \in Uploads : MetaCharge(v) \in Nat /\ RowCharge(rows[v]) \in Nat
      BY <1>1, RowChargeIsNumber, MetaChargeIsNumber
    <3> QED BY <3>1
  <2>2. Charged(rows) = SumFunctionOnSet(f, Uploads)
    BY DEF Charged
  <2> HIDE DEF f
  <2> QED BY <2>1, <2>2, UploadsFinite, SumIsNumber
<1>4. Charged(rows) - 0 + 0 <= MaxRecord
  BY <1>3 DEF QuotaHolds
<1> QED BY <1>1, <1>2, <1>4, ChargedGrows

\* Giving an upload up never charges it with more.
LEMMA AbandonedCharge ==
  ASSUME NEW r \in Rows
  PROVE  RowCharge(Abandoned(r)) <= RowCharge(r)
<1>1. /\ Abandoned(r) # None /\ Abandoned(r).state = "abandoned" /\ Abandoned(r).actual = r.actual
      /\ Abandoned(r).size = r.size /\ r # None /\ r.size \in Nat
  BY AbandonedRow, NoneIsNoRow, LimitsPositive DEF Rows
<1> QED BY <1>1 DEF RowCharge

\* A step in which every key keeps its object's size, and its row is what it was, or
\* given up, or gone.
ChargesLess(v) ==
  /\ metas'[v] # None => metas[v] # None /\ metas'[v].size = metas[v].size
  /\ \/ rows'[v] = rows[v] \/ rows'[v] = None
     \/ rows[v] # None /\ rows'[v] = Abandoned(rows[v])
\* It is charged with no more.
LEMMA LessIsLess ==
  ASSUME TypeOK, TypeOK', NEW v \in Uploads, ChargesLess(v)
  PROVE  Charge(v)' <= Charge(v)
<1>1. RowCharge(rows[v]) \in Nat /\ RowCharge(rows'[v]) \in Nat /\ MetaCharge(v) \in Nat
  BY RowChargeIsNumber, MetaChargeIsNumber DEF TypeOK
<1>2. RowCharge(rows'[v]) <= RowCharge(rows[v])
  BY <1>1, AbandonedCharge DEF ChargesLess, RowCharge, TypeOK
<1>3. MetaCharge(v)' <= MetaCharge(v) /\ MetaCharge(v)' \in Nat
  BY <1>1 DEF ChargesLess, MetaCharge
<1> QED BY <1>1, <1>2, <1>3 DEF Charge

\* The rows a step gives up, or drops.
LEMMA RowsLess ==
  ASSUME TypeOK, TypeOK', QuotaHolds, metas' = metas,
         \A v \in Uploads : rows'[v] = rows[v] \/ rows'[v] = None \/ (rows[v] # None /\ rows'[v] = Abandoned(rows[v]))
  PROVE  QuotaHolds'
<1>1. \A v \in Uploads : ChargesLess(v)
  BY DEF ChargesLess
<1> QED BY <1>1, LessIsLess, QuotaShrinks

\* Objects that a step makes pending, or attached, or drops.
LEMMA MetasSame ==
  ASSUME TypeOK, TypeOK', QuotaHolds, rows' = rows,
         \A v \in Uploads : metas'[v] # None => metas[v] # None /\ metas'[v].size = metas[v].size
  PROVE  QuotaHolds'
<1>1. \A v \in Uploads : ChargesLess(v)
  BY DEF ChargesLess
<1> QED BY <1>1, LessIsLess, QuotaShrinks

\* What Disowned does to the rows.
LEMMA DisownedLess ==
  ASSUME TypeOK, NEW u \in Uploads, Disowned(u)
  PROVE  \A v \in Uploads : rows'[v] = rows[v] \/ (rows[v] # None /\ rows'[v] = Abandoned(rows[v]))
BY DEF TypeOK, Disowned, Active

\* A row that becomes an object is charged with the same bytes.
LEMMA RowBecomesObject ==
  ASSUME TypeOK, TypeOK', QuotaHolds, NEW u \in Uploads, rows[u] \in Rows, rows[u].actual, rows'[u] = None,
         metas'[u] = [size |-> rows[u].size, pending |-> FALSE],
         \A v \in Uploads \ {u} : ChargesLess(v)
  PROVE  QuotaHolds'
<1>1. Charge(u)' <= Charge(u)
  <2>1. metas'[u] # None /\ metas'[u].size = rows[u].size
    <3>1. [size |-> rows[u].size, pending |-> FALSE] \in Metas
      BY DEF Rows, Metas
    <3>2. metas'[u] # None
      BY <3>1, NoneIsNoRow
    <3>3. metas'[u].size = rows[u].size
      OBVIOUS
    <3> QED BY <3>2, <3>3
  <2>2. rows[u] # None /\ rows[u].size \in Nat
    BY NoneIsNoRow, LimitsPositive DEF Rows
  <2>3. Charge(u)' = rows[u].size /\ RowCharge(rows[u]) = rows[u].size /\ MetaCharge(u) \in Nat
    BY <2>1, <2>2, MetaChargeIsNumber DEF Charge, MetaCharge, RowCharge
  <2> QED BY <2>2, <2>3 DEF Charge
<1> QED BY <1>1, LessIsLess, QuotaShrinks

\* The two steps that charge with more ask first.
LEMMA ReserveAsks ==
  ASSUME IInv, TypeOK', QuotaHolds, NEW u \in Uploads, NEW t \in Takes, NEW declared \in 1 .. MaxObject,
         Reserve(u, t, declared)
  PROVE  QuotaHolds'
<1> DEFINE row == [state |-> "reserved", take |-> t, size |-> declared, actual |-> FALSE, lease |-> Lease]
<1>0. TypeOK /\ Agree /\ metas' = metas
  BY DEF IInv, Reserve
<1>1. rows[u] = None /\ metas[u] = None /\ Swept[u] = None
  BY <1>0, SweptMoves DEF Reserve, Agree, FreshIsUnnamed, Fresh, Early
<1>2. CASE rows' = Swept
  BY <1>0, <1>2, RowsLess DEF Swept, Active
<1>3. CASE rows' # Swept
  <2>1. rows' = [Swept EXCEPT ![u] = row] /\ Charged(Swept) + declared <= MaxRecord
    BY <1>3 DEF Reserve
  <2>2. Swept \in [Uploads -> Rows \cup {None}] /\ declared \in Nat
    BY <1>0, SweptRows, LimitsPositive
  <2>3. Charge(u)' <= declared
    <3>1. row \in Rows /\ RowCharge(row) = declared
      <4>1. row \in Rows
        BY LimitsPositive DEF Rows
      <4> QED BY <4>1, NoneIsNoRow DEF RowCharge
    <3>2. rows'[u] = row
      BY <2>1, <2>2
    <3>3. MetaCharge(u)' = 0
      BY <1>0, <1>1 DEF MetaCharge
    <3> HIDE DEF row
    <3> QED BY <2>2, <3>1, <3>2, <3>3 DEF Charge
  <2>4. ASSUME NEW v \in Uploads \ {u} PROVE Charge(v)' <= MetaCharge(v) + RowCharge(Swept[v])
    <3>1. rows'[v] = Swept[v] /\ MetaCharge(v)' = MetaCharge(v)
      BY <1>0, <2>1, <2>2 DEF MetaCharge
    <3>2. MetaCharge(v) \in Nat /\ RowCharge(Swept[v]) \in Nat
      BY <1>0, <2>2, MetaChargeIsNumber, RowChargeIsNumber
    <3> QED BY <3>1, <3>2 DEF Charge
  <2>5. MetaCharge(u) + RowCharge(Swept[u]) = 0
    BY <1>1 DEF MetaCharge, RowCharge
  <2>6. Charged(Swept) \in Int
    <3> DEFINE f == [v \in Uploads |-> MetaCharge(v) + RowCharge(Swept[v])]
    <3>1. \A v \in Uploads : f[v] \in Int
      <4>1. \A v \in Uploads : MetaCharge(v) \in Nat /\ RowCharge(Swept[v]) \in Nat
        BY <1>0, <2>2, MetaChargeIsNumber, RowChargeIsNumber
      <4> QED BY <4>1
    <3>2. Charged(Swept) = SumFunctionOnSet(f, Uploads)
      BY DEF Charged
    <3> HIDE DEF f
    <3> QED BY <3>1, <3>2, UploadsFinite, SumIsNumber
  <2>7. Charged(Swept) - 0 + declared <= MaxRecord
    BY <2>1, <2>2, <2>6
  <2>8. PICK a \in [Uploads -> Rows \cup {None}] : a = Swept
    BY <2>2
  <2> QED BY <1>0, <2>2, <2>3, <2>4, <2>5, <2>7, <2>8, ChargedGrows
<1> QED BY <1>2, <1>3

\* The PUT asks with the actual size in place of the declared one.
LEMMA StageAsks ==
  ASSUME IInv, TypeOK', QuotaHolds, NEW u \in Uploads, NEW size \in 1 .. MaxObject, StageEnds(u, size)
  PROVE  QuotaHolds'
<1>0. TypeOK /\ Agree /\ metas' = metas
  BY DEF IInv, StageEnds
<1>1. CASE Owned(u) /\ Fits(u, size)
  <2>1. /\ rows' = [rows EXCEPT ![u].size = size, ![u].actual = TRUE]
        /\ rows[u] \in Rows /\ u \in Active /\ metas[u] = None
        /\ Charged(rows) - rows[u].size + size <= MaxRecord
    BY <1>0, <1>1 DEF StageEnds, Owned, Active, Fits, TypeOK, Agree, OneHome
  <2>2. rows \in [Uploads -> Rows \cup {None}] /\ size \in Nat
    BY <1>0, LimitsPositive DEF TypeOK
  <2>3. Charge(u)' <= size
    <3>1. rows'[u] = [rows[u] EXCEPT !.size = size, !.actual = TRUE]
      BY <1>0, <2>1 DEF TypeOK
    <3>2. rows'[u].size = size /\ rows'[u].actual
      BY <2>1, <3>1 DEF Rows
    <3>3. MetaCharge(u)' = 0
      BY <1>0, <2>1 DEF MetaCharge
    <3> QED BY <2>2, <3>2, <3>3 DEF Charge, RowCharge
  <2>4. ASSUME NEW v \in Uploads \ {u} PROVE Charge(v)' <= MetaCharge(v) + RowCharge(rows[v])
    <3>1. rows'[v] = rows[v] /\ MetaCharge(v)' = MetaCharge(v)
      BY <1>0, <2>1, <2>2 DEF MetaCharge
    <3>2. MetaCharge(v) \in Nat /\ RowCharge(rows[v]) \in Nat
      BY <1>0, <2>2, MetaChargeIsNumber, RowChargeIsNumber
    <3> QED BY <3>1, <3>2 DEF Charge
  <2>5. MetaCharge(u) + RowCharge(rows[u]) = rows[u].size
    <3>1. rows[u].size \in Nat
      BY <2>1, LimitsPositive DEF Rows
    <3> QED BY <2>1, <3>1, NoneIsNoRow DEF MetaCharge, RowCharge, Active
  <2> QED BY <1>0, <2>1, <2>2, <2>3, <2>4, <2>5, ChargedGrows
<1>2. CASE ~(Owned(u) /\ Fits(u, size))
  <2>1. rows' = rows \/ Disowned(u)
    BY <1>2 DEF StageEnds
  <2> QED BY <1>0, <2>1, DisownedLess, RowsLess
<1> QED BY <1>1, <1>2

\* Every step keeps the quota.
LEMMA QuotaStep == IInv /\ TypeOK' /\ QuotaHolds /\ [Next]_vars => QuotaHolds'
<1> SUFFICES ASSUME IInv, TypeOK', QuotaHolds, [Next]_vars PROVE QuotaHolds'
  OBVIOUS
<1>0. TypeOK /\ Agree
  BY DEF IInv
<1>s. ASSUME rows' = rows, metas' = metas PROVE QuotaHolds'
  BY <1>0, <1>s, RowsLess
<1>r. ASSUME NEW u \in Uploads, NEW row \in Rows, rows' = [rows EXCEPT ![u] = row], metas' = metas, rows[u] # None,
             RowCharge(row) <= RowCharge(rows[u])
      PROVE  QuotaHolds'
  <2>1. ASSUME NEW v \in Uploads PROVE Charge(v)' <= Charge(v)
    <3>1. MetaCharge(v)' = MetaCharge(v) /\ MetaCharge(v) \in Nat /\ RowCharge(rows[v]) \in Nat /\ RowCharge(row) \in Nat
      BY <1>0, <1>r, MetaChargeIsNumber, RowChargeIsNumber DEF MetaCharge, TypeOK
    <3>2. rows'[v] = IF v = u THEN row ELSE rows[v]
      BY <1>0, <1>r DEF TypeOK
    <3> QED BY <1>r, <3>1, <3>2 DEF Charge
  <2> QED BY <1>0, <2>1, QuotaShrinks
<1>1. ASSUME NEW u \in Uploads, Renew(u) PROVE QuotaHolds'
  <2>1. CASE Owned(u)
    <3>1. rows[u] \in Rows /\ rows[u] # None /\ Lease \in 0 .. Lease /\ metas' = metas
      BY <1>0, <1>1, <2>1, LimitsPositive DEF Renew, Owned, Active, TypeOK
    <3>2. PICK row \in Rows : row = [rows[u] EXCEPT !.lease = Lease]
      BY <3>1, UpdatedRow
    <3>3. rows' = [rows EXCEPT ![u] = row]
      BY <1>1, <2>1, <3>2 DEF Renew
    <3>4. row.size = rows[u].size /\ row.state = rows[u].state /\ row.actual = rows[u].actual /\ row # None
      BY <3>1, <3>2, NoneIsNoRow DEF Rows
    <3>5. RowCharge(row) = RowCharge(rows[u]) /\ RowCharge(row) \in Nat
      BY <3>1, <3>4, RowChargeIsNumber DEF RowCharge
    <3>6. row \in Rows /\ RowCharge(row) <= RowCharge(rows[u])
      BY <3>2, <3>5
    <3> QED BY <1>r, <3>1, <3>3, <3>6
  <2>2. CASE ~Owned(u)
    BY <1>0, <1>1, <2>2, DisownedLess, RowsLess DEF Renew
  <2> QED BY <2>1, <2>2
<1>2. ASSUME NEW u \in Uploads, ObjectReady(u) PROVE QuotaHolds'
  <2>1. CASE Owned(u)
    <3>1. rows[u] \in Rows /\ rows[u] # None /\ u \in Active /\ metas' = metas
      BY <1>0, <1>2, <2>1 DEF ObjectReady, Owned, Active, TypeOK
    <3>2. PICK row \in Rows : row = [rows[u] EXCEPT !.state = "object_ready"]
      BY <3>1, UpdatedRow
    <3>3. rows' = [rows EXCEPT ![u] = row]
      BY <1>2, <2>1, <3>2 DEF ObjectReady
    <3>4. row.size = rows[u].size /\ row.state = "object_ready" /\ row # None
      BY <3>1, <3>2, NoneIsNoRow DEF Rows
    <3>5. RowCharge(row) = RowCharge(rows[u]) /\ RowCharge(row) \in Nat
      BY <3>1, <3>4, RowChargeIsNumber DEF RowCharge, Active
    <3>6. row \in Rows /\ RowCharge(row) <= RowCharge(rows[u])
      BY <3>2, <3>5
    <3> QED BY <1>r, <3>1, <3>3, <3>6
  <2>2. CASE ~Owned(u)
    BY <1>0, <1>2, <2>2, DisownedLess, RowsLess DEF ObjectReady
  <2> QED BY <2>1, <2>2
<1>3. ASSUME NEW u \in Uploads, AttachUpload(u) PROVE QuotaHolds'
  <2>1. CASE Owned(u)
    <3>1. rows[u] \in Rows /\ rows[u].actual
      BY <1>0, <1>3 DEF AttachUpload, Agree, WritersFit, WriterFits, Active, TypeOK
    <3>2. /\ rows'[u] = None /\ metas'[u] = [size |-> rows[u].size, pending |-> FALSE]
          /\ \A k \in Uploads \ {u} : /\ rows'[k] = rows[k]
                                      /\ metas'[k] = IF k \in Replaced(u) THEN [metas[k] EXCEPT !.pending = TRUE] ELSE metas[k]
      BY <1>0, <1>3, <2>1 DEF AttachUpload, TypeOK
    <3>3. ASSUME NEW k \in Uploads \ {u} PROVE ChargesLess(k)
      <4>1. CASE k \in Replaced(u)
        <5>1. metas[k] \in Metas /\ metas[k] # None /\ metas'[k] = [metas[k] EXCEPT !.pending = TRUE]
          BY <1>0, <3>2, <4>1 DEF Replaced, TypeOK
        <5>2. metas'[k].size = metas[k].size
          BY <5>1 DEF Metas
        <5> QED BY <3>2, <5>1, <5>2 DEF ChargesLess
      <4>2. CASE k \notin Replaced(u)
        BY <3>2, <4>2 DEF ChargesLess
      <4> QED BY <4>1, <4>2
    <3> QED BY <1>0, <3>1, <3>2, <3>3, RowBecomesObject
  <2>2. CASE ~Owned(u)
    BY <1>0, <1>3, <2>2, DisownedLess, RowsLess DEF AttachUpload
  <2> QED BY <2>1, <2>2
<1>4. ASSUME NEW u \in Uploads, Abandon(u) PROVE QuotaHolds'
  BY <1>0, <1>4, RowsLess DEF Abandon, TypeOK
<1>5. ASSUME NEW u \in Uploads, Forget(u) PROVE QuotaHolds'
  <2>1. CASE writer[u].pc = "forget"
    BY <1>0, <1>5, <2>1, RowsLess DEF Forget, TypeOK
  <2>2. CASE writer[u].pc # "forget"
    <3>1. rows' = rows /\ metas' = [metas EXCEPT ![writer[u].old] = None]
      BY <1>5, <2>2 DEF Forget
    <3>2. \A v \in Uploads : metas'[v] # None => metas'[v] = metas[v]
      BY <1>0, <3>1 DEF TypeOK
    <3> QED BY <1>0, <3>1, <3>2, MetasSame
  <2> QED BY <2>1, <2>2
<1>6. ASSUME NEW u \in Uploads, PassUpload(u) PROVE QuotaHolds'
  <2>1. rows[u] # None /\ rows[u] \in Rows
    BY <1>0, <1>6 DEF PassUpload, TypeOK
  <2>2. CASE metas' = metas /\ (rows' = rows \/ rows' = [rows EXCEPT ![u] = Abandoned(@)])
    BY <1>0, <2>1, <2>2, RowsLess DEF TypeOK
  <2>3. CASE /\ metas' = [metas EXCEPT ![u] = [size |-> rows[u].size, pending |-> FALSE]]
             /\ rows' = [rows EXCEPT ![u] = None] /\ Referenced(u)
    <3>1. rows[u].actual
      BY <1>0, <2>1, <2>3 DEF Agree, OneHome
    <3>2. /\ rows'[u] = None /\ metas'[u] = [size |-> rows[u].size, pending |-> FALSE]
          /\ \A k \in Uploads \ {u} : rows'[k] = rows[k] /\ metas'[k] = metas[k]
      BY <1>0, <2>3 DEF TypeOK
    <3>3. \A k \in Uploads \ {u} : ChargesLess(k)
      BY <3>2 DEF ChargesLess
    <3> QED BY <1>0, <2>1, <3>1, <3>2, <3>3, RowBecomesObject
  <2> QED BY <1>6, <2>2, <2>3 DEF PassUpload
<1>7. CASE PassRecheck
  <2>1. rows' = rows /\ (metas' = metas \/ metas' = [metas EXCEPT ![pass.key].pending = TRUE])
        /\ pass.key \in Uploads /\ metas[pass.key] \in Metas /\ metas[pass.key] # None
    BY <1>0, <1>7 DEF PassRecheck, Agree, PassFits, TypeOK, Passes
  <2>2. CASE metas' = [metas EXCEPT ![pass.key].pending = TRUE]
    <3>1. \A v \in Uploads : metas'[v] = IF v = pass.key THEN [metas[v] EXCEPT !.pending = TRUE] ELSE metas[v]
      BY <1>0, <2>2 DEF TypeOK
    <3>2. [metas[pass.key] EXCEPT !.pending = TRUE].size = metas[pass.key].size
      BY <2>1 DEF Metas
    <3>3. \A v \in Uploads : metas'[v] # None => metas[v] # None /\ metas'[v].size = metas[v].size
      BY <2>1, <3>1, <3>2
    <3> QED BY <1>0, <2>1, <3>3, MetasSame
  <2> QED BY <1>s, <2>1, <2>2
<1>8. ASSUME NEW u \in Uploads, PassObject(u) PROVE QuotaHolds'
  <2>1. rows' = rows /\ (metas' = metas \/ (u \in Pending /\ metas' = [metas EXCEPT ![u].pending = FALSE]))
    BY <1>8 DEF PassObject
  <2>2. CASE u \in Pending /\ metas' = [metas EXCEPT ![u].pending = FALSE]
    <3>1. \A v \in Uploads : metas'[v] = IF v = u THEN [metas[v] EXCEPT !.pending = FALSE] ELSE metas[v]
      BY <1>0, <2>2 DEF TypeOK
    <3>2. metas[u] # None /\ metas[u] \in Metas
      BY <1>0, <2>2 DEF Pending, TypeOK
    <3>3. [metas[u] EXCEPT !.pending = FALSE].size = metas[u].size
      BY <3>2 DEF Metas
    <3>4. \A v \in Uploads : metas'[v] # None => metas[v] # None /\ metas'[v].size = metas[v].size
      BY <3>1, <3>2, <3>3
    <3> QED BY <1>0, <2>1, <3>4, MetasSame
  <2> QED BY <1>s, <2>1, <2>2
<1>9. CASE PassForget
  <2>1. CASE pass.loop = "uploads"
    BY <1>0, <1>9, <2>1, RowsLess DEF PassForget, TypeOK
  <2>2. CASE pass.loop # "uploads"
    <3>1. rows' = rows /\ metas' = [metas EXCEPT ![pass.key] = None]
      BY <1>9, <2>2 DEF PassForget
    <3>2. \A v \in Uploads : metas'[v] # None => metas'[v] = metas[v]
      BY <1>0, <3>1 DEF TypeOK
    <3> QED BY <1>0, <3>1, <3>2, MetasSame
  <2> QED BY <2>1, <2>2
<1>10. CASE Start
  BY <1>0, <1>10, RowsLess DEF Start
<1>11. CASE Tick
  <2>1. ASSUME NEW v \in Uploads PROVE Charge(v)' <= Charge(v)
    <3>1. MetaCharge(v)' = MetaCharge(v) /\ MetaCharge(v) \in Nat /\ RowCharge(rows[v]) \in Nat
      BY <1>0, <1>11, MetaChargeIsNumber, RowChargeIsNumber DEF Tick, MetaCharge, TypeOK
    <3>2. RowCharge(rows'[v]) = RowCharge(rows[v])
      <4>1. CASE rows[v] = None
        BY <1>11, <4>1 DEF Tick
      <4>2. CASE rows[v] # None
        <5>1. rows[v] \in Rows /\ rows'[v] = [rows[v] EXCEPT !.lease = Lower(@)] /\ rows'[v] \in Rows \cup {None}
          BY <1>0, <1>11, <4>2 DEF Tick, TypeOK
        <5>2. Lower(rows[v].lease) \in 0 .. Lease
          BY <5>1, LimitsPositive DEF Rows, Lower
        <5>3. rows'[v] \in Rows
          BY <5>1, <5>2, UpdatedRow
        <5>4. rows'[v].size = rows[v].size /\ rows'[v].state = rows[v].state /\ rows'[v].actual = rows[v].actual /\ rows'[v] # None
          BY <5>1, <5>3, NoneIsNoRow DEF Rows
        <5> QED BY <4>2, <5>4 DEF RowCharge
      <4> QED BY <4>1, <4>2
    <3> QED BY <3>1, <3>2 DEF Charge
  <2> QED BY <1>0, <2>1, QuotaShrinks
<1>12. ASSUME NEW u \in Uploads, UploadStep(u) PROVE QuotaHolds'
  BY <1>s, <1>1, <1>2, <1>3, <1>4, <1>5, <1>12, ReserveAsks, StageAsks
     DEF UploadStep, TransferFails, PutArrives, PutEnds, CommitRecord, Erase, EraseFails
<1>13. CASE PassStep
  BY <1>s, <1>6, <1>7, <1>8, <1>9, <1>13 DEF PassStep, StartPass, PassTurns, PassErase, PassEraseFails, PassEnds
<1> QED BY <1>s, <1>10, <1>11, <1>12, <1>13 DEF Next, Crash, CleanRoot, vars

\* What the record is charged for stays within its quota, and no bytes but those of a
\* PUT that outlived its upload are unknown to the state file: for every number of
\* uploads, every order of expiries, passes, failed deletions and crashes, over a
\* directory and over a bucket.
THEOREM LimitsAlwaysHold == Spec => []LimitsHold
<1>1. Init => QuotaHolds
  <2> SUFFICES ASSUME Init PROVE QuotaHolds
    OBVIOUS
  <2> DEFINE f == [u \in Uploads |-> MetaCharge(u) + RowCharge(rows[u])]
  <2>1. \A u \in Uploads : f[u] = 0
    BY DEF Init, MetaCharge, RowCharge
  <2>2. Charged(rows) = SumFunctionOnSet(f, Uploads)
    BY DEF Charged
  <2> HIDE DEF f
  <2>3. SumFunctionOnSet(f, Uploads) = 0
    BY <2>1, UploadsFinite, SumOfZeros
  <2> QED BY <2>2, <2>3, LimitsPositive DEF QuotaHolds
<1>2. IInv /\ QuotaHolds /\ [Next]_vars => (IInv /\ QuotaHolds)'
  BY TypeStep, AgreeStep, QuotaStep DEF IInv
<1>3. IInv /\ QuotaHolds => LimitsHold
  BY DEF IInv, Agree, LimitsHold
<1> QED BY <1>1, <1>2, <1>3, InitHolds, PTL DEF Spec
===============================================================================
