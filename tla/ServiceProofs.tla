---------------------------- MODULE ServiceProofs ----------------------------
(***************************************************************************)
(* What the services promise, for every value of the constants: one        *)
(* recovery at a time and none before the stores are up, one pair of lab   *)
(* keys for all processes, one launch for a registered LTI state that waits*)
(* for it, a record whose commands are all done and whose history stands,  *)
(* logins, and pages that show a listing whole. Each service has an        *)
(* inductive invariant of its own (that of the record is in                *)
(* RecordCommandsProofs, that of the guesses in LoginAdmissionProofs); a   *)
(* behaviour of MCServices is a behaviour of the one it began with.        *)
(***************************************************************************)
EXTENDS MCServices, Sequences, FiniteSetTheorems, SequenceTheorems, TLAPS

-----------------------------------------------------------------------------
(* A behaviour stays with the service it began with.                       *)

\* A step leaves the choice of the service as it was.
LEMMA WhichStays ==
  ASSUME [Next]_vars
  PROVE  which' = which
BY DEF Next, vars

\* A step of the composition is a step of the process,
LEMMA RuntimeSteps ==
  ASSUME [Next]_vars, which = "runtime"
  PROVE  [Runtime!Next]_runtimeVars
BY DEF Next, vars

\* of the lab's keys,
LEMMA KeySteps ==
  ASSUME [Next]_vars, which = "keys"
  PROVE  [LabKeyPair!Next]_keyVars
BY DEF Next, vars

\* or of the launches.
LEMMA LtiSteps ==
  ASSUME [Next]_vars, which = "lti"
  PROVE  [Lti!Next]_ltiVars
BY DEF Next, vars

Sums == INSTANCE FiniteSums

-----------------------------------------------------------------------------
(* Downloads                                                               *)

\* A step of the composition is a step of the downloads, which count as everyone does.
LEMMA DownloadSteps ==
  ASSUME [Next]_vars, which = "downloads"
  PROVE  [Transferring!Next]_downloadVars
BY DEF Next, vars

LEMMA TransferCardinality ==
  \A S : Transferring!Cardinality(S) = Cardinality(S) /\ (Transferring!IsFiniteSet(S) <=> IsFiniteSet(S))
BY DEF Transferring!Cardinality, Cardinality, Transferring!IsFiniteSet, IsFiniteSet

LEMMA TransfersFit ==
  /\ MaxMishaps \in Nat /\ IsFiniteSet(Transfers)
  /\ \A s \in Deployments : DOMAIN s.on = Transfers /\ s.leased \in BOOLEAN
BY Bounds, TransferCardinality DEF Transferring!DownloadsAssumption

Unanswered == {"new", "authorize", "look", "lease", "open", "stage", "again"}
Stages == Unanswered \cup {"stream", "close", "closing", "over"}
OneDownload ==
  [at : Stages, aborted : BOOLEAN, gone : BOOLEAN,
   file : {"none", "whole", "left"}, heads : Nat, status : Nat, sent : {"nothing", "cut", "whole"},
   throws : BOOLEAN, withdrawn : BOOLEAN, faulty : BOOLEAN]

\* Where a download is: what was answered, which file and lease it has, and that nothing is
\* answered from the object once access was withdrawn.
DownloadFits(q, lease) ==
  /\ q.at \in Unanswered => q.heads = 0 /\ q.status = 0 /\ q.sent = "nothing" /\ ~q.throws
  /\ q.at = "stream" => q.heads = 1 /\ q.sent = "nothing" /\ ~q.throws
  /\ q.at \in {"close", "closing"} =>
       \/ q.heads = 1 /\ (q.throws => q.status = 200 /\ q.aborted /\ q.sent = "nothing")
       \/ q.heads = 0 /\ q.throws
  /\ q.at = "over" => q.heads = 1
  /\ q.at \in Unanswered \ {"again"} => q.file = "none"
  /\ q.at \in {"again", "stream"} => q.file = "whole"
  /\ q.withdrawn => access # "full" /\ q.status # 200
  /\ q.at \in {"new", "authorize", "look", "lease"} => lease = "none"
  /\ q.at \in {"closing", "over"} /\ ~q.faulty => q.file = "none" /\ lease = "none"

Held(p) == {d \in Transfers : Transferring!On[d] = p /\ run[d].at \in Transferring!Holding}
SlotsFit(p) == slots[p] = Cardinality(Held(p)) /\ slots[p] <= 1
Thrower(d, p) == Transferring!On[d] = p /\ run[d].status = 200 /\ run[d].aborted /\ run[d].sent = "nothing"

DownloadTypes ==
  /\ deployment \in Deployments
  /\ access \in {"full", "noTake", "stranger", "signedOut"} /\ bytes \in {"whole", "damaged", "missing"}
  /\ run \in [Transfers -> OneDownload]
  /\ slots \in [Transferring!Gates -> Nat] /\ serving \in [Transferring!Gates -> {"up", "stopped", "thrown"}]
  /\ held \in [Transfers -> {"none", "live", "lapsed"}]

DownloadInv ==
  /\ DownloadTypes
  /\ \A d \in Transfers : DownloadFits(run[d], held[d])
  /\ \A p \in Transferring!Gates : serving[p] = "up" => SlotsFit(p)
  /\ \A p \in Transferring!Gates : serving[p] = "thrown" => \E d \in Transfers : Thrower(d, p)
  /\ Cardinality(Transferring!Living) <= 1

\* What a step of one download changes: that download, the count of its process as it takes or
\* gives back its slot, and at most one lease more.
OneMoves(d) ==
  /\ deployment' = deployment /\ access' = access /\ bytes' = bytes /\ serving' = serving
  /\ run' \in [Transfers -> OneDownload] /\ held' \in [Transfers -> {"none", "live", "lapsed"}]
  /\ \A e \in Transfers \ {d} : run'[e] = run[e] /\ held'[e] \in {held[e], "none"}
  /\ serving[Transferring!On[d]] = "up" \/ run'[d] = run[d]
  /\ DownloadFits(run'[d], held'[d])
  /\ \/ slots' = slots /\ (run'[d].at \in Transferring!Holding <=> run[d].at \in Transferring!Holding)
     \/ /\ slots[Transferring!On[d]] < 1 /\ slots' = [slots EXCEPT ![Transferring!On[d]] = @ + 1]
        /\ run[d].at \notin Transferring!Holding /\ run'[d].at \in Transferring!Holding
     \/ /\ slots' = [slots EXCEPT ![Transferring!On[d]] = @ - 1]
        /\ run[d].at \in Transferring!Holding /\ run'[d].at \notin Transferring!Holding
  /\ held'[d] = "live" => held[d] = "live" \/ Cardinality(Transferring!Living) < 1

LEMMA GatesFit ==
  ASSUME DownloadTypes
  PROVE  /\ (\A d \in Transfers : Transferring!On[d] \in Transferring!Gates) /\ Transferring!Leased \in BOOLEAN
         /\ 1 \in Nat /\ 1 > 0 /\ 1 \in Nat /\ 1 > 0
         /\ \A T \in SUBSET Transfers : IsFiniteSet(T) /\ Cardinality(T) \in Nat
<1>1. DOMAIN Transferring!On = Transfers /\ Transferring!Leased \in BOOLEAN
  BY TransfersFit DEF DownloadTypes, Transferring!DownloadsAssumption, Transferring!On, Transferring!Leased
<1>2. \A d \in Transfers : Transferring!On[d] \in Transferring!Gates
  BY DEF Transferring!Gates
<1>3. IsFiniteSet(Transfers) /\ 1 \in Nat /\ 1 > 0 /\ 1 \in Nat /\ 1 > 0
  BY TransfersFit DEF Transferring!DownloadsAssumption
<1>4. \A T \in SUBSET Transfers : IsFiniteSet(T) /\ Cardinality(T) \in Nat
  BY <1>3, FS_Subset, FS_CardinalityType
<1> QED BY <1>1, <1>2, <1>3, <1>4

LEMMA CountsAlike ==
  ASSUME NEW S, IsFiniteSet(S), NEW T
  PROVE  /\ T = S => Cardinality(T) = Cardinality(S)
         /\ \A x : T = S \cup {x} /\ x \notin S => Cardinality(T) = Cardinality(S) + 1
         /\ \A x : T = S \ {x} /\ x \in S => Cardinality(T) = Cardinality(S) - 1
         /\ T \subseteq S => Cardinality(T) <= Cardinality(S)
<1>1. \A x : T = S \cup {x} /\ x \notin S => Cardinality(T) = Cardinality(S) + 1
  BY FS_AddElement
<1>2. \A x : T = S \ {x} /\ x \in S => Cardinality(T) = Cardinality(S) - 1
  BY FS_RemoveElement
<1>3. T \subseteq S => Cardinality(T) <= Cardinality(S)
  BY FS_Subset
<1> QED BY <1>1, <1>2, <1>3

LEMMA OneMovesKeeps ==
  ASSUME DownloadInv, NEW d \in Transfers, OneMoves(d)
  PROVE  DownloadInv'
<1>0. DownloadTypes /\ Transferring!On' = Transferring!On /\ Transferring!Leased' = Transferring!Leased /\ Transferring!Gates' = Transferring!Gates
  BY DEF DownloadInv, OneMoves, Transferring!On, Transferring!Leased, Transferring!Gates
<1>1. DownloadTypes'
  <2>1. slots' \in [Transferring!Gates -> Nat]
    <3>1. CASE slots' = [slots EXCEPT ![Transferring!On[d]] = @ - 1] /\ run[d].at \in Transferring!Holding /\ run'[d].at \notin Transferring!Holding
      <4>1. slots[Transferring!On[d]] > 0 \/ serving[Transferring!On[d]] # "up"
        <5>1. SUFFICES ASSUME serving[Transferring!On[d]] = "up" PROVE slots[Transferring!On[d]] > 0
          BY <1>0, GatesFit DEF DownloadTypes
        <5>2. Held(Transferring!On[d]) \in SUBSET Transfers /\ d \in Held(Transferring!On[d])
          BY <3>1 DEF Held
        <5>3. IsFiniteSet(Held(Transferring!On[d])) /\ Cardinality(Held(Transferring!On[d])) \in Nat
          BY <1>0, <5>2, GatesFit
        <5>4. Cardinality(Held(Transferring!On[d])) # 0
          BY <5>2, <5>3, FS_EmptySet
        <5> QED BY <1>0, <5>1, <5>3, <5>4, GatesFit DEF DownloadInv, SlotsFit
      <4>2. serving[Transferring!On[d]] = "up"
        BY <3>1 DEF OneMoves
      <4> QED BY <1>0, <3>1, <4>1, <4>2, GatesFit DEF DownloadTypes
    <3>2. CASE slots' = [slots EXCEPT ![Transferring!On[d]] = @ + 1]
      BY <1>0, <3>2, GatesFit DEF DownloadTypes
    <3>3. CASE slots' = slots
      BY <1>0, <3>3 DEF DownloadTypes
    <3> QED BY <3>1, <3>2, <3>3 DEF OneMoves
  <2> QED BY <1>0, <2>1 DEF DownloadTypes, OneMoves
<1>2. \A e \in Transfers : DownloadFits(run[e], held[e])'
  <2>1. DownloadFits(run[d], held[d])'
    BY DEF OneMoves, DownloadFits
  <2>2. ASSUME NEW e \in Transfers \ {d} PROVE DownloadFits(run[e], held[e])'
    <3>1. run'[e] = run[e] /\ held'[e] \in {held[e], "none"} /\ access' = access
      BY <2>2 DEF OneMoves
    <3>2. DownloadFits(run[e], held[e])
      BY DEF DownloadInv
    <3> QED BY <3>1, <3>2 DEF DownloadFits
  <2> QED BY <2>1, <2>2
<1>3. ASSUME NEW p \in Transferring!Gates, serving'[p] = "up" PROVE SlotsFit(p)'
  <2>0. SlotsFit(p) /\ IsFiniteSet(Held(p)) /\ Cardinality(Held(p)) \in Nat /\ slots[p] \in Nat
    <3>1. Held(p) \in SUBSET Transfers
      BY DEF Held
    <3> QED BY <1>0, <1>3, <3>1, GatesFit DEF OneMoves, DownloadInv, DownloadTypes
  <2>1. \A e \in Transfers \ {d} : run'[e].at = run[e].at
    BY DEF OneMoves
  <2>2. CASE Transferring!On[d] = p /\ run[d].at \notin Transferring!Holding /\ run'[d].at \in Transferring!Holding
             /\ slots[p] < 1 /\ slots' = [slots EXCEPT ![p] = @ + 1]
    <3>1. Held(p)' = Held(p) \cup {d} /\ d \notin Held(p)
      BY <1>0, <2>1, <2>2 DEF Held
    <3>2. Cardinality(Held(p)') = Cardinality(Held(p)) + 1
      BY <2>0, <3>1, CountsAlike
    <3>3. slots'[p] = slots[p] + 1
      BY <1>0, <2>2 DEF DownloadTypes
    <3> QED BY <1>0, <2>0, <2>2, <3>2, <3>3, GatesFit DEF SlotsFit
  <2>3. CASE Transferring!On[d] = p /\ run[d].at \in Transferring!Holding /\ run'[d].at \notin Transferring!Holding
             /\ slots' = [slots EXCEPT ![p] = @ - 1]
    <3>1. Held(p)' = Held(p) \ {d} /\ d \in Held(p)
      BY <1>0, <2>1, <2>3 DEF Held
    <3>2. Cardinality(Held(p)') = Cardinality(Held(p)) - 1
      BY <2>0, <3>1, CountsAlike
    <3>3. slots'[p] = slots[p] - 1
      BY <1>0, <2>3 DEF DownloadTypes
    <3> QED BY <1>0, <2>0, <2>3, <3>2, <3>3, GatesFit DEF SlotsFit
  <2>4. CASE Transferring!On[d] # p \/ (slots' = slots /\ (run'[d].at \in Transferring!Holding <=> run[d].at \in Transferring!Holding))
    <3>1. Held(p)' = Held(p)
      BY <1>0, <2>1, <2>4 DEF Held
    <3>2. slots'[p] = slots[p]
      BY <1>0, <2>4 DEF DownloadTypes, OneMoves
    <3> QED BY <2>0, <3>1, <3>2 DEF SlotsFit
  <2> QED BY <2>2, <2>3, <2>4 DEF OneMoves
<1>4. ASSUME NEW p \in Transferring!Gates, serving'[p] = "thrown" PROVE \E e \in Transfers : Thrower(e, p)'
  <2>1. PICK e \in Transfers : Thrower(e, p)
    BY <1>4 DEF OneMoves, DownloadInv
  <2>2. run'[e] = run[e]
    BY <1>4, <2>1 DEF OneMoves, Thrower
  <2> QED BY <1>0, <2>1, <2>2 DEF Thrower
<1>5. (Cardinality(Transferring!Living) <= 1)'
  <2>0. Transferring!Living \in SUBSET Transfers /\ IsFiniteSet(Transferring!Living) /\ Cardinality(Transferring!Living) \in Nat
        /\ Transferring!Living' \in SUBSET Transfers /\ IsFiniteSet(Transferring!Living') /\ Cardinality(Transferring!Living') \in Nat
    BY <1>0, GatesFit DEF Transferring!Living
  <2>1. \A e \in Transfers \ {d} : e \in Transferring!Living' => e \in Transferring!Living
    BY DEF OneMoves, Transferring!Living
  <2>2. CASE Transferring!Living' \subseteq Transferring!Living
    BY <1>0, <2>0, <2>2, CountsAlike, GatesFit DEF DownloadInv
  <2>3. CASE ~(Transferring!Living' \subseteq Transferring!Living)
    <3>1. d \in Transferring!Living' /\ d \notin Transferring!Living
      BY <2>1, <2>3 DEF Transferring!Living
    <3>2. Cardinality(Transferring!Living) < 1
      BY <3>1 DEF OneMoves, Transferring!Living
    <3>3. Cardinality(Transferring!Living \cup {d}) = Cardinality(Transferring!Living) + 1 /\ IsFiniteSet(Transferring!Living \cup {d})
      BY <2>0, <3>1, FS_AddElement
    <3>4. Transferring!Living' \subseteq Transferring!Living \cup {d}
      BY <2>0, <2>1
    <3>5. Cardinality(Transferring!Living') <= Cardinality(Transferring!Living \cup {d})
      BY <3>3, <3>4, CountsAlike
    <3> QED BY <1>0, <2>0, <3>2, <3>3, <3>5, GatesFit
  <2> QED BY <2>2, <2>3
<1>6. (\A p \in Transferring!Gates : serving[p] = "up" => SlotsFit(p))'
  BY <1>0, <1>3
<1>7. (\A p \in Transferring!Gates : serving[p] = "thrown" => \E e \in Transfers : Thrower(e, p))'
  BY <1>0, <1>4
<1>8. (\A e \in Transfers : DownloadFits(run[e], held[e]))'
  BY <1>2
<1> QED BY <1>1, <1>5, <1>6, <1>7, <1>8 DEF DownloadInv

LEMMA DownloadStarts ==
  ASSUME Transferring!Init
  PROVE  DownloadInv
<1>1. DownloadTypes /\ Transferring!Living = {} /\ \A d \in Transfers : DownloadFits(run[d], held[d])
  BY DEF Transferring!Init, Transferring!Fresh, DownloadTypes, OneDownload, Stages, Unanswered, DownloadFits, Transferring!Living
<1>2. \A p \in Transferring!Gates : Held(p) = {}
  BY DEF Transferring!Init, Transferring!Fresh, Held, Transferring!Holding
<1>3. Cardinality({}) = 0
  BY FS_EmptySet
<1>4. \A p \in Transferring!Gates : serving[p] = "up" /\ SlotsFit(p)
  BY <1>1, <1>2, <1>3, GatesFit DEF Transferring!Init, SlotsFit
<1> QED BY <1>1, <1>3, <1>4, GatesFit DEF DownloadInv

\* What a leaf about one download starts from.
LEMMA OneFits ==
  ASSUME DownloadInv, NEW d \in Transfers
  PROVE  /\ run \in [Transfers -> OneDownload] /\ run[d] \in OneDownload
         /\ held \in [Transfers -> {"none", "live", "lapsed"}]
         /\ DownloadFits(run[d], held[d])
         /\ access \in {"full", "noTake", "stranger", "signedOut"} /\ bytes \in {"whole", "damaged", "missing"}
         /\ Transferring!Leased \in BOOLEAN
BY GatesFit DEF DownloadInv, DownloadTypes

\* An answer changes a download.
LEMMA EndedFits ==
  ASSUME NEW q \in OneDownload, NEW status \in Nat
  PROVE  /\ Transferring!Ended(q, status) \in OneDownload /\ Transferring!Ended(q, status).at = "over"
         /\ Transferring!Ended(q, status).status = status /\ Transferring!Ended(q, status).heads = q.heads + 1
         /\ Transferring!Ended(q, status).aborted = q.aborted /\ Transferring!Ended(q, status).gone = q.gone
         /\ Transferring!Ended(q, status).file = q.file /\ Transferring!Ended(q, status).sent = q.sent
         /\ Transferring!Ended(q, status).throws = q.throws /\ Transferring!Ended(q, status).withdrawn = q.withdrawn
         /\ Transferring!Ended(q, status).faulty = q.faulty
<1>1. q.heads + 1 \in Nat /\ "over" \in Stages
  BY DEF OneDownload, Stages
<1> QED BY <1>1 DEF OneDownload, Transferring!Ended

\* One download changes and holds what it held,
LEMMA DownloadGoesOn ==
  ASSUME DownloadInv, NEW d \in Transfers, serving[Transferring!On[d]] = "up", deployment' = deployment, Transferring!Still,
         UNCHANGED <<slots, held>>, NEW q \in OneDownload, run' = [run EXCEPT ![d] = q],
         run[d].at \in Transferring!Holding <=> q.at \in Transferring!Holding, DownloadFits(q, held[d])
  PROVE  OneMoves(d)
BY OneFits DEF OneMoves, Transferring!Still

\* or gives back its slot.
LEMMA GivesSlot ==
  ASSUME DownloadInv, NEW d \in Transfers, serving[Transferring!On[d]] = "up", deployment' = deployment, Transferring!Still,
         NEW q \in OneDownload, run' = [run EXCEPT ![d] = q], slots' = [slots EXCEPT ![Transferring!On[d]] = @ - 1],
         held' \in [Transfers -> {"none", "live", "lapsed"}],
         \A e \in Transfers \ {d} : held'[e] \in {held[e], "none"},
         held'[d] = "live" => held[d] = "live" \/ Cardinality(Transferring!Living) < 1,
         run[d].at \in Transferring!Holding, q.at \notin Transferring!Holding, DownloadFits(q, held'[d])
  PROVE  OneMoves(d)
BY OneFits DEF OneMoves, Transferring!Still

\* One download gives back its lease and its slot.
LEMMA GivesBack ==
  ASSUME DownloadInv, NEW d \in Transfers, serving[Transferring!On[d]] = "up", deployment' = deployment, Transferring!Still,
         NEW q \in OneDownload, Transferring!Released(d, q),
         run[d].at \in Transferring!Holding, q.at \notin Transferring!Holding,
         \A lease \in {"none", held[d]}, faulty \in BOOLEAN :
           lease = "none" \/ faulty => DownloadFits([q EXCEPT !.faulty = faulty], lease)
  PROVE  OneMoves(d)
<1>1. ASSUME held' = [held EXCEPT ![d] = "none"], run' = [run EXCEPT ![d] = q] PROVE OneMoves(d)
  <2>1. q = [q EXCEPT !.faulty = q.faulty] /\ q.faulty \in BOOLEAN
    BY DEF OneDownload
  <2>2. DownloadFits(q, "none")
    BY <2>1
  <2> QED BY <1>1, <2>2, OneFits DEF OneMoves, Transferring!Still, Transferring!Released
<1>2. ASSUME held' = held, run' = [run EXCEPT ![d] = [q EXCEPT !.faulty = TRUE]] PROVE OneMoves(d)
  <2>1. [q EXCEPT !.faulty = TRUE] \in OneDownload
    BY DEF OneDownload
  <2>2. DownloadFits([q EXCEPT !.faulty = TRUE], held[d])
    OBVIOUS
  <2>3. run'[d] = [q EXCEPT !.faulty = TRUE] /\ run'[d].at \notin Transferring!Holding
    BY <1>2, OneFits DEF OneDownload
  <2> QED BY <1>2, <2>1, <2>2, <2>3, OneFits DEF OneMoves, Transferring!Still, Transferring!Released
<1> QED BY <1>1, <1>2 DEF Transferring!Released

\* The same when its file could not be removed.
LEMMA GivesFaulty ==
  ASSUME DownloadInv, NEW d \in Transfers, serving[Transferring!On[d]] = "up", deployment' = deployment, Transferring!Still,
         NEW q \in OneDownload, Transferring!Released(d, q), q = [q EXCEPT !.faulty = TRUE],
         run[d].at \in Transferring!Holding, q.at \notin Transferring!Holding, DownloadFits(q, "none"), DownloadFits(q, held[d])
  PROVE  OneMoves(d)
<1>1. CASE held' = [held EXCEPT ![d] = "none"] /\ run' = [run EXCEPT ![d] = q]
  <2>1. held' \in [Transfers -> {"none", "live", "lapsed"}] /\ held'[d] = "none"
        /\ \A e \in Transfers \ {d} : held'[e] \in {held[e], "none"}
    BY <1>1, OneFits
  <2> QED BY <1>1, <2>1, GivesSlot DEF Transferring!Released
<1>2. CASE held' = held /\ run' = [run EXCEPT ![d] = [q EXCEPT !.faulty = TRUE]]
  <2>1. run' = [run EXCEPT ![d] = q] /\ held' \in [Transfers -> {"none", "live", "lapsed"}]
    BY <1>2, OneFits
  <2> QED BY <1>2, <2>1, GivesSlot DEF Transferring!Released
<1> QED BY <1>1, <1>2 DEF Transferring!Released

\* A download that is answered, before or after it took a slot, holds none.
LEMMA EndsWithout ==
  ASSUME DownloadInv, NEW d \in Transfers, NEW status \in Nat \ {200},
         run[d].at \in Unanswered \ {"again"}
  PROVE  /\ Transferring!Ended(run[d], status) \in OneDownload /\ Transferring!Ended(run[d], status).at \notin Transferring!Holding
         /\ \A lease \in {"none", held[d]}, faulty \in BOOLEAN :
              lease = "none" \/ faulty => DownloadFits([Transferring!Ended(run[d], status) EXCEPT !.faulty = faulty], lease)
         /\ DownloadFits(Transferring!Ended(run[d], status), "none")
<1> DEFINE q == Transferring!Ended(run[d], status)
<1>1. /\ q \in OneDownload /\ q.at = "over" /\ q.status # 200 /\ q.heads = 1 /\ q.file = "none"
  BY EndedFits, OneFits DEF DownloadFits, OneDownload
<1> HIDE DEF q
<1>2. \A faulty \in BOOLEAN :
        LET c == [q EXCEPT !.faulty = faulty]
        IN c.at = "over" /\ c.status # 200 /\ c.heads = 1 /\ c.file = "none" /\ c.faulty = faulty
           /\ c.withdrawn = q.withdrawn
  BY <1>1 DEF OneDownload
<1>3. q.withdrawn => access # "full"
  BY EndedFits, OneFits DEF q, DownloadFits
<1>4. q.at \notin Transferring!Holding
  BY <1>1 DEF Transferring!Holding
<1>5. DownloadFits(q, "none")
  BY <1>1, <1>3 DEF DownloadFits, Unanswered
<1>6. ASSUME NEW lease \in {"none", held[d]}, NEW faulty \in BOOLEAN, lease = "none" \/ faulty
      PROVE  DownloadFits([q EXCEPT !.faulty = faulty], lease)
  BY <1>1, <1>2, <1>3, <1>6 DEF DownloadFits, Unanswered
<1> QED BY <1>1, <1>4, <1>5, <1>6 DEF q

\* The head changes a download.
LEMMA HeadFits ==
  ASSUME NEW q \in OneDownload, q.heads = 0
  PROVE  /\ Transferring!Head(q) \in OneDownload /\ Transferring!Head(q).heads = 1
         /\ Transferring!Head(q).status = 200 /\ Transferring!Head(q).file = q.file
         /\ Transferring!Head(q).sent = q.sent /\ Transferring!Head(q).withdrawn = q.withdrawn
         /\ Transferring!Head(q).aborted = q.aborted
         /\ Transferring!Head(q).at = (IF q.aborted THEN "close" ELSE "stream")
         /\ Transferring!Head(q).throws = (q.aborted /\ ~q.gone)
<1>1. "close" \in Stages /\ "stream" \in Stages /\ q.heads + 1 = 1 /\ q.aborted \in BOOLEAN /\ q.gone \in BOOLEAN
  BY DEF Stages, OneDownload
<1> DEFINE at == IF q.aborted THEN "close" ELSE "stream"
           throws == q.aborted /\ ~q.gone
<1>2. at \in Stages /\ throws \in BOOLEAN
  BY <1>1
<1> DEFINE e == [q EXCEPT !.status = 200, !.heads = @ + 1, !.at = at, !.throws = throws]
<1>3. Transferring!Head(q) = e
  BY DEF Transferring!Head
<1>4. at = (IF q.aborted THEN "close" ELSE "stream") /\ throws = (q.aborted /\ ~q.gone)
  OBVIOUS
<1> HIDE DEF at, throws
<1>5. /\ e.heads = q.heads + 1 /\ e.status = 200 /\ e.file = q.file /\ e.sent = q.sent
      /\ e.withdrawn = q.withdrawn /\ e.aborted = q.aborted /\ e.at = at /\ e.throws = throws
  BY DEF OneDownload
<1>6. e \in OneDownload
  <2>1. PICK m \in Nat : m = 200
    OBVIOUS
  <2>2. PICK n \in Nat : n = q.heads + 1
    BY <1>1
  <2>3. e = [q EXCEPT !.status = m, !.heads = n, !.at = at, !.throws = throws]
    BY <2>1, <2>2 DEF OneDownload
  <2> HIDE DEF e
  <2> QED BY <1>2, <2>3 DEF OneDownload
<1> QED BY <1>1, <1>3, <1>4, <1>5, <1>6

\* A download that is aborted goes on where it is.
LEMMA DownloadAborts ==
  ASSUME DownloadInv, NEW d \in Transfers, serving[Transferring!On[d]] = "up", deployment' = deployment,
         UNCHANGED <<access, bytes, slots, held, serving>>, NEW q \in OneDownload, run' = [run EXCEPT ![d] = q],
         run[d].at = q.at, DownloadFits(q, held[d])
  PROVE  OneMoves(d)
BY OneFits DEF OneMoves

LEMMA DownloadMoves ==
  ASSUME DownloadInv, deployment' = deployment, NEW d \in Transfers
  PROVE  /\ Transferring!Ask(d) \/ Transferring!Authorize(d) \/ Transferring!Look(d) \/ Transferring!QueryFails(d) => OneMoves(d)
         /\ Transferring!Lease(d) \/ Transferring!LeaseFails(d) => OneMoves(d)
         /\ Transferring!Open(d) \/ Transferring!Stage(d) \/ Transferring!Close(d) => OneMoves(d)
         /\ Transferring!Again(d) \/ Transferring!AgainFails(d) \/ Transferring!Stream(d) => OneMoves(d)
         /\ Transferring!ClientGoes(d) \/ Transferring!TimeRunsOut(d) \/ Transferring!RenewalFails(d) \/ Transferring!Lapse(d) => OneMoves(d)
<1> USE DEF Transferring!Under
<1>0. /\ run \in [Transfers -> OneDownload] /\ run[d] \in OneDownload
      /\ held \in [Transfers -> {"none", "live", "lapsed"}]
      /\ DownloadFits(run[d], held[d]) /\ Transferring!Leased \in BOOLEAN
      /\ access \in {"full", "noTake", "stranger", "signedOut"} /\ bytes \in {"whole", "damaged", "missing"}
  BY OneFits
<1>00. Stages = {"new", "authorize", "look", "lease", "open", "stage", "again", "stream", "close", "closing", "over"}
  BY DEF Stages, Unanswered
<1>a. Transferring!Denial \in {401, 403, 404} \/ access = "full"
  BY <1>0 DEF Transferring!Denial
\* Another stage before the answer, without or with a slot.
<1>b. ASSUME NEW at \in {"authorize", "look", "stage"}, run' = [run EXCEPT ![d].at = at],
             serving[Transferring!On[d]] = "up", Transferring!Still, UNCHANGED <<slots, held>>,
             <<run[d].at, at>> \in {<<"new", "authorize">>, <<"authorize", "look">>, <<"open", "stage">>}
      PROVE  OneMoves(d)
  <2> DEFINE q == [run[d] EXCEPT !.at = at]
  <2>1. q \in OneDownload /\ run' = [run EXCEPT ![d] = q]
    BY <1>0, <1>b, <1>00 DEF OneDownload
  <2>2. (run[d].at \in Transferring!Holding <=> q.at \in Transferring!Holding) /\ DownloadFits(q, held[d])
    BY <1>0, <1>b DEF Transferring!Holding, OneDownload, DownloadFits, Unanswered
  <2> QED BY <1>b, <2>1, <2>2, DownloadGoesOn
\* An answer without a slot.
<1>c. ASSUME NEW status \in {401, 403, 404, 429, 500}, run' = [run EXCEPT ![d] = Transferring!Ended(@, status)],
             serving[Transferring!On[d]] = "up", Transferring!Still, UNCHANGED <<slots, held>>, run[d].at \in {"new", "authorize", "look"}
      PROVE  OneMoves(d)
  <2>1. Transferring!Ended(run[d], status) \in OneDownload /\ Transferring!Ended(run[d], status).at \notin Transferring!Holding
        /\ DownloadFits(Transferring!Ended(run[d], status), "none")
    BY <1>c, EndsWithout DEF Unanswered
  <2>2. held[d] = "none" /\ run[d].at \notin Transferring!Holding
    BY <1>0, <1>c DEF DownloadFits, Transferring!Holding
  <2> DEFINE q == Transferring!Ended(run[d], status)
  <2>3. run' = [run EXCEPT ![d] = q] /\ q \in OneDownload /\ q.at \notin Transferring!Holding /\ DownloadFits(q, held[d])
    BY <1>c, <2>1, <2>2
  <2> HIDE DEF q
  <2> QED BY <1>c, <2>2, <2>3, DownloadGoesOn
<1>1. ASSUME Transferring!Ask(d) PROVE OneMoves(d)
  <2>1. CASE access = "signedOut"
    BY <1>1, <1>c, <2>1 DEF Transferring!Ask
  <2>2. CASE access # "signedOut"
    BY <1>1, <1>b, <2>2 DEF Transferring!Ask
  <2> QED BY <2>1, <2>2
<1>2. ASSUME Transferring!Authorize(d) PROVE OneMoves(d)
  BY <1>2, <1>a, <1>b, <1>c DEF Transferring!Authorize, Transferring!Refuse, Transferring!Permitted
<1>3. ASSUME Transferring!QueryFails(d) PROVE OneMoves(d)
  BY <1>3, <1>c DEF Transferring!QueryFails, Transferring!Refuse
<1>4. ASSUME Transferring!Look(d) PROVE OneMoves(d)
  <2>1. CASE slots[Transferring!On[d]] < 1 /\ UNCHANGED held /\ slots' = [slots EXCEPT ![Transferring!On[d]] = @ + 1]
             /\ run' = [run EXCEPT ![d].at = IF Transferring!Leased THEN "lease" ELSE "open"]
    <3> DEFINE q == [run[d] EXCEPT !.at = IF Transferring!Leased THEN "lease" ELSE "open"]
    <3>1. q \in OneDownload /\ run' = [run EXCEPT ![d] = q]
      BY <1>0, <1>00, <2>1 DEF OneDownload
    <3>2. run[d].at \notin Transferring!Holding /\ q.at \in Transferring!Holding /\ DownloadFits(q, held[d])
      BY <1>0, <1>4 DEF Transferring!Look, Transferring!Holding, OneDownload, DownloadFits, Unanswered
    <3> HIDE DEF q
    <3>3. run' \in [Transfers -> OneDownload] /\ run'[d] = q /\ \A e \in Transfers \ {d} : run'[e] = run[e]
      BY <1>0, <3>1
    <3> QED BY <1>0, <1>4, <2>1, <3>2, <3>3 DEF Transferring!Look, Transferring!Still, OneMoves
  <2> QED BY <1>4, <1>c, <2>1 DEF Transferring!Look, Transferring!Refuse
<1>5. ASSUME Transferring!Lease(d) PROVE OneMoves(d)
  <2>1. run[d].at \in Transferring!Holding /\ held[d] = "none" /\ run[d].at \in Unanswered \ {"again"}
    BY <1>0, <1>5 DEF Transferring!Lease, Transferring!Holding, DownloadFits, Unanswered
  <2>0. /\ run[d].at = "lease" /\ serving[Transferring!On[d]] = "up" /\ Transferring!Still
        /\ IF Cardinality(Transferring!Living) >= 1
           THEN /\ run' = [run EXCEPT ![d] = Transferring!Ended(run[d], 429)] /\ UNCHANGED held
                /\ slots' = [slots EXCEPT ![Transferring!On[d]] = @ - 1]
           ELSE /\ held' = [Transferring!Swept EXCEPT ![d] = "live"]
                /\ \/ run' = [run EXCEPT ![d].at = "open"] /\ UNCHANGED slots
                   \/ /\ run' = [run EXCEPT ![d] = [Transferring!Ended(run[d], 500) EXCEPT !.faulty = TRUE]]
                      /\ slots' = [slots EXCEPT ![Transferring!On[d]] = @ - 1]
    BY <1>5, TransferCardinality DEF Transferring!Lease
  <2>2. CASE Cardinality(Transferring!Living) >= 1
    <3> DEFINE q == Transferring!Ended(run[d], 429)
    <3>1. q \in OneDownload /\ q.at \notin Transferring!Holding /\ DownloadFits(q, "none")
      BY <2>1, EndsWithout
    <3>2. run' = [run EXCEPT ![d] = q] /\ held' = held /\ slots' = [slots EXCEPT ![Transferring!On[d]] = @ - 1]
      BY <2>0, <2>2
    <3> HIDE DEF q
    <3>3. /\ held' \in [Transfers -> {"none", "live", "lapsed"}] /\ held'[d] = "none"
          /\ \A e \in Transfers \ {d} : held'[e] \in {held[e], "none"}
      BY <1>0, <2>1, <3>2
    <3> QED BY <2>0, <2>1, <3>1, <3>2, <3>3, GivesSlot
  <2>3. CASE ~(Cardinality(Transferring!Living) >= 1)
    <3>1. held' = [Transferring!Swept EXCEPT ![d] = "live"] /\ Transferring!Swept \in [Transfers -> {"none", "live", "lapsed"}]
          /\ \A e \in Transfers : Transferring!Swept[e] \in {held[e], "none"}
      BY <1>0, <2>0, <2>3 DEF Transferring!Swept
    <3>2. /\ held' \in [Transfers -> {"none", "live", "lapsed"}] /\ held'[d] = "live"
          /\ \A e \in Transfers \ {d} : held'[e] \in {held[e], "none"}
      BY <3>1
    <3>3. Cardinality(Transferring!Living) < 1
      <4>1. Cardinality(Transferring!Living) \in Nat
        BY GatesFit DEF DownloadInv, Transferring!Living
      <4> QED BY <2>3, <4>1, GatesFit DEF DownloadInv
    <3>4. CASE run' = [run EXCEPT ![d].at = "open"] /\ UNCHANGED slots
      <4> DEFINE q == [run[d] EXCEPT !.at = "open"]
      <4>1. q \in OneDownload /\ run' = [run EXCEPT ![d] = q]
        BY <1>0, <1>00, <3>4 DEF OneDownload
      <4>2. run[d].at \in Transferring!Holding /\ q.at \in Transferring!Holding /\ DownloadFits(q, "live")
        BY <1>0, <1>5 DEF Transferring!Lease, Transferring!Holding, OneDownload, DownloadFits, Unanswered
      <4> HIDE DEF q
      <4>3. run' \in [Transfers -> OneDownload] /\ run'[d] = q /\ \A e \in Transfers \ {d} : run'[e] = run[e]
        BY <1>0, <4>1
      <4> QED BY <1>5, <3>2, <3>3, <3>4, <4>2, <4>3 DEF Transferring!Lease, Transferring!Still, OneMoves
    <3>5. CASE run' = [run EXCEPT ![d] = [Transferring!Ended(@, 500) EXCEPT !.faulty = TRUE]]
               /\ slots' = [slots EXCEPT ![Transferring!On[d]] = @ - 1]
      <4> DEFINE e == Transferring!Ended(run[d], 500)
                 q == [e EXCEPT !.faulty = TRUE]
      <4>0. e \in OneDownload /\ e.at \notin Transferring!Holding /\ e.status = 500 /\ e.heads = 1 /\ e.at = "over"
            /\ e.withdrawn = run[d].withdrawn
        BY <1>0, <2>1, EndedFits, EndsWithout DEF DownloadFits, OneDownload
      <4>00. run' = [run EXCEPT ![d] = q]
        BY <3>5
      <4> HIDE DEF e
      <4>1. q \in OneDownload /\ q.at \notin Transferring!Holding /\ run' = [run EXCEPT ![d] = q]
        BY <4>0, <4>00 DEF OneDownload
      <4>2. q.at = "over" /\ q.status = 500 /\ q.heads = 1 /\ q.faulty /\ q.withdrawn = run[d].withdrawn
        BY <4>0 DEF OneDownload
      <4> HIDE DEF q
      <4>3. DownloadFits(q, "live")
        BY <1>0, <4>2 DEF DownloadFits, Unanswered
      <4>4. slots' = [slots EXCEPT ![Transferring!On[d]] = @ - 1]
        BY <3>5
      <4>5. serving[Transferring!On[d]] = "up" /\ Transferring!Still /\ DownloadFits(q, held'[d])
            /\ run' = [run EXCEPT ![d] = q]
        BY <2>0, <3>2, <4>1, <4>3
      <4>6. q \in OneDownload /\ q.at \notin Transferring!Holding /\ run[d].at \in Transferring!Holding
        BY <2>1, <4>1
      <4> QED BY <3>2, <3>3, <4>4, <4>5, <4>6, GivesSlot
    <3> QED BY <2>0, <2>3, <3>4, <3>5
  <2> QED BY <2>2, <2>3
<1>6. ASSUME Transferring!LeaseFails(d) PROVE OneMoves(d)
  <2>1. run[d].at \in Transferring!Holding /\ held[d] = "none" /\ run[d].at \in Unanswered \ {"again"}
    BY <1>0, <1>6 DEF Transferring!LeaseFails, Transferring!Holding, DownloadFits, Unanswered
  <2> DEFINE q == Transferring!Ended(run[d], 500)
  <2>2. run' = [run EXCEPT ![d] = q] /\ q \in OneDownload /\ q.at \notin Transferring!Holding /\ DownloadFits(q, "none")
    BY <1>6, <2>1, EndsWithout DEF Transferring!LeaseFails
  <2> HIDE DEF q
  <2>3. /\ held' = held /\ held' \in [Transfers -> {"none", "live", "lapsed"}]
        /\ \A e \in Transfers \ {d} : held'[e] \in {held[e], "none"}
        /\ held'[d] # "live" /\ DownloadFits(q, held'[d])
    BY <1>0, <1>6, <2>1, <2>2 DEF Transferring!LeaseFails
  <2>4. serving[Transferring!On[d]] = "up" /\ Transferring!Still /\ slots' = [slots EXCEPT ![Transferring!On[d]] = @ - 1]
    BY <1>6 DEF Transferring!LeaseFails
  <2> QED BY <2>1, <2>2, <2>3, <2>4, GivesSlot
<1>7. ASSUME run[d].at \in {"open", "stage"}, NEW status \in {404, 500}, serving[Transferring!On[d]] = "up", Transferring!Still,
             Transferring!Released(d, Transferring!Ended(run[d], status))
      PROVE  OneMoves(d)
  <2>1. run[d].at \in Transferring!Holding /\ run[d].at \in Unanswered \ {"again"}
    BY <1>7 DEF Transferring!Holding, Unanswered
  <2> QED BY <1>7, <2>1, EndsWithout, GivesBack
<1>8. ASSUME Transferring!Open(d) PROVE OneMoves(d)
  BY <1>b, <1>7, <1>8 DEF Transferring!Open
<1>9. ASSUME Transferring!Stage(d) PROVE OneMoves(d)
  <2>1. CASE ~run[d].aborted /\ bytes # "missing" /\ Transferring!Verified(bytes)
             /\ run' = [run EXCEPT ![d].at = "again", ![d].file = bytes] /\ UNCHANGED <<slots, held>>
    <3> DEFINE q == [run[d] EXCEPT !.at = "again", !.file = "whole"]
    <3>1. q \in OneDownload /\ run' = [run EXCEPT ![d] = q]
      BY <1>0, <1>00, <2>1 DEF OneDownload, Transferring!Verified
    <3>2. (run[d].at \in Transferring!Holding <=> q.at \in Transferring!Holding) /\ DownloadFits(q, held[d])
      BY <1>0, <1>9 DEF Transferring!Stage, Transferring!Holding, OneDownload, DownloadFits, Unanswered
    <3> QED BY <1>9, <2>1, <3>1, <3>2, DownloadGoesOn DEF Transferring!Stage
  <2>2. CASE Transferring!Released(d, [Transferring!Ended(run[d], 500) EXCEPT !.file = "left", !.faulty = TRUE])
    <3> DEFINE e == Transferring!Ended(run[d], 500)
               q == [e EXCEPT !.file = "left", !.faulty = TRUE]
    <3>1. run[d].at \in Transferring!Holding /\ run[d].at \in Unanswered \ {"again"}
      BY <1>9 DEF Transferring!Stage, Transferring!Holding, Unanswered
    <3>2. /\ e \in OneDownload /\ e.at = "over" /\ e.status = 500 /\ e.heads = 1
          /\ e.withdrawn = run[d].withdrawn
      BY <1>0, <3>1, EndedFits DEF DownloadFits, OneDownload
    <3> HIDE DEF e
    <3>3. q \in OneDownload /\ q.at \notin Transferring!Holding
      BY <3>2 DEF OneDownload, Transferring!Holding
    <3>4. q.at = "over" /\ q.status = 500 /\ q.heads = 1 /\ q.faulty /\ q.withdrawn = run[d].withdrawn
      BY <3>2 DEF OneDownload
    <3>5. q = [q EXCEPT !.faulty = TRUE]
      BY <3>2 DEF OneDownload
    <3> HIDE DEF q
    <3>6. DownloadFits(q, held[d]) /\ DownloadFits(q, "none")
      BY <1>0, <3>4 DEF DownloadFits, Unanswered
    <3> QED BY <1>0, <1>9, <2>2, <3>1, <3>3, <3>5, <3>6, GivesFaulty DEF Transferring!Stage, q, e
  <2> QED BY <1>7, <1>9, <2>1, <2>2 DEF Transferring!Stage
<1>10. ASSUME Transferring!Again(d) PROVE OneMoves(d)
  <2>1. run[d].heads = 0 /\ run[d].file = "whole" /\ run[d].sent = "nothing" /\ ~run[d].throws
    BY <1>0, <1>10 DEF Transferring!Again, DownloadFits, Unanswered
  <2>2. CASE Transferring!Permitted
    <3> DEFINE q == Transferring!Head(run[d])
    <3>1. q \in OneDownload /\ q.heads = 1 /\ q.status = 200 /\ q.file = "whole" /\ q.sent = "nothing"
          /\ q.withdrawn = run[d].withdrawn /\ q.aborted = run[d].aborted
          /\ q.at = (IF run[d].aborted THEN "close" ELSE "stream") /\ q.throws = (run[d].aborted /\ ~run[d].gone)
      BY <1>0, <2>1, HeadFits
    <3>2. run' = [run EXCEPT ![d] = q]
      BY <1>10, <2>2 DEF Transferring!Again
    <3> HIDE DEF q
    <3>3. (run[d].at \in Transferring!Holding <=> q.at \in Transferring!Holding) /\ DownloadFits(q, held[d])
      BY <1>0, <1>10, <2>2, <3>1 DEF Transferring!Again, Transferring!Permitted, Transferring!Holding, DownloadFits, Unanswered, OneDownload
    <3> QED BY <1>10, <3>1, <3>2, <3>3, DownloadGoesOn DEF Transferring!Again
  <2>3. CASE ~Transferring!Permitted
    <3> DEFINE q == Transferring!Denied(run[d])
    <3>1. q \in OneDownload /\ q.heads = 1 /\ q.status # 200 /\ q.at = "close" /\ ~q.throws
          /\ q.withdrawn = run[d].withdrawn
      <4>1. Transferring!Denial \in Nat \ {200} /\ "close" \in Stages /\ run[d].heads + 1 = 1
        BY <1>a, <1>00, <2>1, <2>3 DEF Transferring!Permitted
      <4>2. q = [run[d] EXCEPT !.status = Transferring!Denial, !.heads = 1, !.at = "close"]
        BY <1>0, <4>1 DEF OneDownload, Transferring!Denied
      <4> HIDE DEF q
      <4> QED BY <1>0, <2>1, <4>1, <4>2 DEF OneDownload
    <3>2. run' = [run EXCEPT ![d] = q]
      BY <1>10, <2>3 DEF Transferring!Again
    <3> HIDE DEF q
    <3>3. (run[d].at \in Transferring!Holding <=> q.at \in Transferring!Holding) /\ DownloadFits(q, held[d])
      BY <1>0, <1>10, <2>3, <3>1 DEF Transferring!Again, Transferring!Permitted, Transferring!Holding, DownloadFits, Unanswered
    <3> QED BY <1>10, <3>1, <3>2, <3>3, DownloadGoesOn DEF Transferring!Again
  <2> QED BY <2>2, <2>3
<1>11. ASSUME Transferring!AgainFails(d) PROVE OneMoves(d)
  <2> DEFINE q == [run[d] EXCEPT !.at = "close", !.throws = TRUE]
  <2>1. q \in OneDownload /\ run' = [run EXCEPT ![d] = q]
    BY <1>0, <1>00, <1>11 DEF Transferring!AgainFails, OneDownload
  <2>2. (run[d].at \in Transferring!Holding <=> q.at \in Transferring!Holding) /\ DownloadFits(q, held[d])
    BY <1>0, <1>11 DEF Transferring!AgainFails, Transferring!Holding, OneDownload, DownloadFits, Unanswered
  <2> QED BY <1>11, <2>1, <2>2, DownloadGoesOn DEF Transferring!AgainFails
<1>12. ASSUME Transferring!Stream(d) PROVE OneMoves(d)
  <2>1. PICK sent \in {"whole", "cut"} : run' = [run EXCEPT ![d].at = "close", ![d].sent = sent]
    BY <1>0, <1>12 DEF Transferring!Stream, DownloadFits
  <2> DEFINE q == [run[d] EXCEPT !.at = "close", !.sent = sent]
  <2>2. q \in OneDownload /\ run' = [run EXCEPT ![d] = q]
    BY <1>0, <1>00, <2>1 DEF OneDownload
  <2>3. (run[d].at \in Transferring!Holding <=> q.at \in Transferring!Holding) /\ DownloadFits(q, held[d])
    BY <1>0, <1>12 DEF Transferring!Stream, Transferring!Holding, OneDownload, DownloadFits, Unanswered
  <2> QED BY <1>12, <2>2, <2>3, DownloadGoesOn DEF Transferring!Stream
<1>13. ASSUME Transferring!Close(d) PROVE OneMoves(d)
  <2>1. PICK c \in Transferring!Cleaned(d) : Transferring!Released(d, c)
    BY <1>13 DEF Transferring!Close
  <2>2. c \in OneDownload /\ c.at = "closing"
    BY <1>0, <1>00, <2>1 DEF Transferring!Cleaned, OneDownload
  <2>3. /\ c.at \notin Transferring!Holding /\ run[d].at \in Transferring!Holding
        /\ \A lease \in {"none", held[d]}, faulty \in BOOLEAN :
             (lease = "none" \/ faulty) /\ (c.file = "none" \/ faulty)
             => DownloadFits([c EXCEPT !.faulty = faulty], lease)
    <3>1. /\ c.heads = run[d].heads /\ c.throws = run[d].throws /\ c.status = run[d].status
          /\ c.aborted = run[d].aborted /\ c.sent = run[d].sent /\ c.withdrawn = run[d].withdrawn
          /\ c.file = "none" \/ c.faulty
      BY <1>0, <2>1 DEF Transferring!Cleaned, OneDownload
    <3>2. run[d].at = "close"
      BY <1>13 DEF Transferring!Close
    <3>3. ASSUME NEW lease \in {"none", held[d]}, NEW faulty \in BOOLEAN, lease = "none" \/ faulty,
                 c.file = "none" \/ faulty
          PROVE  DownloadFits([c EXCEPT !.faulty = faulty], lease)
      <4> DEFINE e == [c EXCEPT !.faulty = faulty]
      <4>1. /\ e.at = "closing" /\ e.heads = c.heads /\ e.throws = c.throws /\ e.status = c.status
            /\ e.aborted = c.aborted /\ e.sent = c.sent /\ e.withdrawn = c.withdrawn
            /\ e.file = c.file /\ e.faulty = faulty
        BY <2>2 DEF OneDownload
      <4> HIDE DEF e
      <4>2. DownloadFits(e, lease)
        BY <1>0, <3>1, <3>2, <3>3, <4>1 DEF DownloadFits, Unanswered
      <4> QED BY <4>2 DEF e
    <3> QED BY <2>2, <3>2, <3>3 DEF Transferring!Holding
  <2>4. CASE c.file = "none"
    BY <1>13, <2>1, <2>2, <2>3, <2>4, GivesBack DEF Transferring!Close
  <2>5. CASE c.file # "none"
    <3>1. c = [c EXCEPT !.faulty = TRUE]
      BY <1>0, <2>1, <2>5 DEF Transferring!Cleaned, OneDownload
    <3>2. DownloadFits(c, "none") /\ DownloadFits(c, held[d])
      BY <2>3, <3>1
    <3> QED BY <1>13, <2>1, <2>2, <2>3, <3>1, <3>2, GivesFaulty DEF Transferring!Close
  <2> QED BY <2>4, <2>5
\* What happens to a download from outside: it is aborted.
<1>14. ASSUME Transferring!ClientGoes(d) PROVE OneMoves(d)
  <2> DEFINE q == [run[d] EXCEPT !.gone = TRUE, !.aborted = TRUE]
  <2>0. q \in OneDownload
    BY <1>0 DEF OneDownload
  <2>00. /\ q.at = run[d].at /\ q.heads = run[d].heads /\ q.status = run[d].status /\ q.sent = run[d].sent
         /\ q.throws = run[d].throws /\ q.file = run[d].file /\ q.withdrawn = run[d].withdrawn
         /\ q.faulty = run[d].faulty /\ q.aborted
    BY <1>0 DEF OneDownload
  <2>2. run' = [run EXCEPT ![d] = q]
    BY <1>0, <1>14 DEF Transferring!ClientGoes
  <2>3. serving[Transferring!On[d]] = "up" /\ UNCHANGED <<access, bytes, slots, held, serving>>
    BY <1>14 DEF Transferring!ClientGoes, Transferring!Alive
  <2> HIDE DEF q
  <2>1. DownloadFits(q, held[d])
    BY <1>0, <2>00 DEF DownloadFits
  <2> QED BY <2>0, <2>00, <2>1, <2>2, <2>3, DownloadAborts
<1>15. ASSUME Transferring!TimeRunsOut(d) \/ Transferring!RenewalFails(d) PROVE OneMoves(d)
  <2> DEFINE q == [run[d] EXCEPT !.aborted = TRUE]
  <2>0. q \in OneDownload
    BY <1>0 DEF OneDownload
  <2>00. /\ q.at = run[d].at /\ q.heads = run[d].heads /\ q.status = run[d].status /\ q.sent = run[d].sent
         /\ q.throws = run[d].throws /\ q.file = run[d].file /\ q.withdrawn = run[d].withdrawn
         /\ q.faulty = run[d].faulty /\ q.aborted
    BY <1>0 DEF OneDownload
  <2>2. run' = [run EXCEPT ![d] = q]
    BY <1>0, <1>15 DEF Transferring!TimeRunsOut, Transferring!RenewalFails
  <2>3. serving[Transferring!On[d]] = "up" /\ UNCHANGED <<access, bytes, slots, held, serving>>
    BY <1>15 DEF Transferring!TimeRunsOut, Transferring!RenewalFails, Transferring!Alive
  <2> HIDE DEF q
  <2>1. DownloadFits(q, held[d])
    BY <1>0, <2>00 DEF DownloadFits
  <2> QED BY <2>0, <2>00, <2>1, <2>2, <2>3, DownloadAborts
<1>16. ASSUME Transferring!Lapse(d) PROVE OneMoves(d)
  <2>1. DownloadFits(run[d], "lapsed")
    BY <1>0, <1>16 DEF Transferring!Lapse, DownloadFits
  <2> QED BY <1>0, <1>16, <2>1 DEF Transferring!Lapse, OneMoves
<1> QED BY <1>1, <1>2, <1>3, <1>4, <1>5, <1>6, <1>8, <1>9, <1>10, <1>11, <1>12, <1>13, <1>14, <1>15, <1>16

LEMMA DownloadStep ==
  ASSUME DownloadInv, [Transferring!Next]_downloadVars
  PROVE  DownloadInv'
<1>1. ASSUME NEW d \in Transfers, OneMoves(d) PROVE DownloadInv'
  BY <1>1, OneMovesKeeps
<1>2. ASSUME NEW d \in Transfers, Transferring!Over(d), deployment' = deployment PROVE DownloadInv'
  <2>1. CASE run[d].throws /\ run[d].heads > 0
    <3>1. /\ serving' = [serving EXCEPT ![Transferring!On[d]] = "thrown"] /\ slots' = [slots EXCEPT ![Transferring!On[d]] = 0]
          /\ UNCHANGED <<run, access, bytes, held>> /\ Transferring!On' = Transferring!On /\ Transferring!On[d] \in Transferring!Gates
      BY <1>2, <2>1, GatesFit DEF Transferring!Over, Transferring!On, DownloadInv
    <3>2. DownloadTypes' /\ Transferring!Living' = Transferring!Living /\ Transferring!Gates' = Transferring!Gates
      BY <1>2, <3>1 DEF DownloadInv, DownloadTypes, Transferring!Living, Transferring!Gates
    <3>3. ASSUME NEW p, p = Transferring!On[d] PROVE Thrower(d, p)'
      <4>1. run[d].at = "closing" /\ run[d].status = 200 /\ run[d].aborted /\ run[d].sent = "nothing"
        BY <1>2, <2>1, OneFits DEF Transferring!Over, Transferring!Under, DownloadFits, OneDownload
      <4> QED BY <3>1, <3>3, <4>1 DEF Thrower
    <3>4. ASSUME NEW p \in Transferring!Gates, p # Transferring!On[d]
          PROVE  /\ serving'[p] = serving[p] /\ slots'[p] = slots[p] /\ Held(p)' = Held(p)
                 /\ \A e \in Transfers : Thrower(e, p)' <=> Thrower(e, p)
      BY <3>1, <3>4 DEF DownloadInv, DownloadTypes, Held, Thrower
    <3>5. serving'[Transferring!On[d]] = "thrown"
      BY <3>1 DEF DownloadInv, DownloadTypes
    <3>6. (\A p \in Transferring!Gates : serving[p] = "up" => SlotsFit(p))'
      BY <3>2, <3>4, <3>5 DEF DownloadInv, SlotsFit
    <3>7. (\A p \in Transferring!Gates : serving[p] = "thrown" => \E e \in Transfers : Thrower(e, p))'
      <4>1. ASSUME NEW p \in Transferring!Gates, serving'[p] = "thrown" PROVE \E e \in Transfers : Thrower(e, p)'
        <5>1. CASE p = Transferring!On[d]
          BY <3>3, <5>1
        <5>2. CASE p # Transferring!On[d]
          BY <3>4, <4>1, <5>2 DEF DownloadInv
        <5> QED BY <5>1, <5>2
      <4> QED BY <3>2, <4>1
    <3>8. (\A e \in Transfers : DownloadFits(run[e], held[e]))'
      BY <3>1 DEF DownloadInv, DownloadFits
    <3> QED BY <3>2, <3>6, <3>7, <3>8 DEF DownloadInv
  <2>2. CASE ~(run[d].throws /\ run[d].heads > 0)
    <3> DEFINE q == IF run[d].throws THEN Transferring!Ended(run[d], 500) ELSE [run[d] EXCEPT !.at = "over"]
    <3>0. run' = [run EXCEPT ![d] = q] /\ Transferring!Still /\ UNCHANGED <<slots, held>> /\ serving[Transferring!On[d]] = "up"
          /\ run[d].at = "closing"
      BY <1>2, <2>2 DEF Transferring!Over, Transferring!Under, Transferring!Still
    <3>1. q \in OneDownload /\ q.at = "over" /\ q.heads = 1 /\ q.file = run[d].file /\ q.faulty = run[d].faulty
          /\ q.withdrawn = run[d].withdrawn /\ q.status \in {run[d].status, 500}
      <4>1. CASE run[d].throws
        <5>1. run[d].heads = 0
          BY <2>2, <3>0, <4>1, OneFits DEF DownloadFits, OneDownload
        <5> QED BY <4>1, <5>1, OneFits, EndedFits
      <4>2. CASE ~run[d].throws
        <5>1. run[d].heads = 1 /\ "over" \in Stages
          BY <3>0, <4>2, OneFits DEF DownloadFits, OneDownload, Stages
        <5> QED BY <4>2, <5>1, OneFits DEF OneDownload
      <4> QED BY <4>1, <4>2
    <3> HIDE DEF q
    <3>2. DownloadFits(q, held[d])
      BY <3>0, <3>1, OneFits DEF DownloadFits, Unanswered
    <3>3. run[d].at \notin Transferring!Holding /\ q.at \notin Transferring!Holding
      BY <3>0, <3>1 DEF Transferring!Holding
    <3>4. OneMoves(d)
      BY <1>2, <3>0, <3>1, <3>2, <3>3, DownloadGoesOn
    <3> QED BY <1>1, <3>4
  <2> QED BY <2>1, <2>2
<1>3. CASE Transferring!Withdraw /\ deployment' = deployment
  <2>1. /\ access = "full" /\ access' \in {"noTake", "stranger", "signedOut"} /\ UNCHANGED <<bytes, slots, held, serving>>
        /\ run' = [d \in Transfers |->
             [run[d] EXCEPT !.withdrawn = run[d].at \in {"look", "lease", "open", "stage", "again"}]]
        /\ Transferring!On' = Transferring!On /\ Transferring!Gates' = Transferring!Gates /\ Transferring!Living' = Transferring!Living
    BY <1>3 DEF Transferring!Withdraw, Transferring!On, Transferring!Gates, Transferring!Living
  <2>2. ASSUME NEW d \in Transfers
        PROVE  /\ run'[d] \in OneDownload /\ run'[d].at = run[d].at /\ DownloadFits(run[d], held[d])'
               /\ \A p : Thrower(d, p)' <=> Thrower(d, p)
    <3> DEFINE q == run'[d]
    <3> DEFINE asked == run[d].at \in {"look", "lease", "open", "stage", "again"}
    <3>0. asked \in BOOLEAN /\ (asked => run[d].at \in {"look", "lease", "open", "stage", "again"})
      OBVIOUS
    <3>1. q = [run[d] EXCEPT !.withdrawn = asked]
      BY <2>1
    <3> HIDE DEF q, asked
    <3>2. /\ q \in OneDownload /\ q.at = run[d].at /\ q.heads = run[d].heads /\ q.throws = run[d].throws
          /\ q.status = run[d].status /\ q.aborted = run[d].aborted /\ q.sent = run[d].sent
          /\ q.file = run[d].file /\ q.faulty = run[d].faulty
          /\ q.withdrawn => run[d].at \in {"look", "lease", "open", "stage", "again"}
      BY <3>0, <3>1, OneFits DEF OneDownload
    <3>3. DownloadFits(run[d], held[d])'
      BY <2>1, <3>2, OneFits DEF DownloadFits, Unanswered, q
    <3>4. \A p : Thrower(d, p)' <=> Thrower(d, p)
      BY <2>1, <3>2 DEF Thrower, q
    <3> QED BY <3>2, <3>3, <3>4 DEF q
  <2>3. DownloadTypes'
    BY <1>3, <2>1, <2>2 DEF DownloadInv, DownloadTypes
  <2>4. \A p \in Transferring!Gates : Held(p)' = Held(p)
    BY <2>1, <2>2 DEF Held
  <2>5. (\A p \in Transferring!Gates : serving[p] = "up" => SlotsFit(p))'
    BY <2>1, <2>4 DEF DownloadInv, SlotsFit
  <2>6. (\A p \in Transferring!Gates : serving[p] = "thrown" => \E e \in Transfers : Thrower(e, p))'
    BY <2>1, <2>2 DEF DownloadInv
  <2>7. (\A e \in Transfers : DownloadFits(run[e], held[e]))'
    BY <2>2
  <2> QED BY <2>1, <2>3, <2>5, <2>6, <2>7 DEF DownloadInv
<1>4. ASSUME UNCHANGED <<deployment, access, run, held>>, bytes' \in {"whole", "damaged", "missing"},
             \/ UNCHANGED <<slots, serving>>
             \/ \E p \in Transferring!Gates : serving[p] = "up" /\ serving' = [serving EXCEPT ![p] = "stopped"] /\ slots' = [slots EXCEPT ![p] = 0]
      PROVE  DownloadInv'
  <2>1. DownloadTypes' /\ Transferring!On' = Transferring!On /\ Transferring!Gates' = Transferring!Gates /\ Transferring!Living' = Transferring!Living
    <3>1. Transferring!On' = Transferring!On /\ Transferring!Gates' = Transferring!Gates /\ Transferring!Living' = Transferring!Living
      BY <1>4 DEF Transferring!On, Transferring!Gates, Transferring!Living
    <3>2. slots' \in [Transferring!Gates -> Nat] /\ serving' \in [Transferring!Gates -> {"up", "stopped", "thrown"}]
      BY <1>4 DEF DownloadInv, DownloadTypes
    <3> QED BY <1>4, <3>1, <3>2 DEF DownloadInv, DownloadTypes
  <2>2. ASSUME NEW p \in Transferring!Gates
        PROVE  /\ Held(p)' = Held(p) /\ \A e \in Transfers : Thrower(e, p)' <=> Thrower(e, p)
               /\ serving'[p] # "stopped" => serving'[p] = serving[p] /\ slots'[p] = slots[p]
    BY <1>4, <2>1 DEF DownloadInv, DownloadTypes, Held, Thrower
  <2>3. (\A p \in Transferring!Gates : serving[p] = "up" => SlotsFit(p))'
    BY <2>1, <2>2 DEF DownloadInv, SlotsFit
  <2>4. (\A p \in Transferring!Gates : serving[p] = "thrown" => \E e \in Transfers : Thrower(e, p))'
    BY <2>1, <2>2 DEF DownloadInv
  <2>5. (\A e \in Transfers : DownloadFits(run[e], held[e]))'
    BY <1>4 DEF DownloadInv, DownloadFits
  <2> QED BY <2>1, <2>3, <2>4, <2>5 DEF DownloadInv
<1>5. CASE Transferring!Damage /\ deployment' = deployment
  BY <1>4, <1>5 DEF Transferring!Damage
<1>6. ASSUME NEW p \in Transferring!Gates, Transferring!Stop(p), deployment' = deployment PROVE DownloadInv'
  BY <1>4, <1>6 DEF Transferring!Stop, DownloadInv, DownloadTypes
<1>7. CASE UNCHANGED downloadVars
  BY <1>4, <1>7 DEF downloadVars, DownloadInv, DownloadTypes
<1> QED BY <1>1, <1>2, <1>3, <1>5, <1>6, <1>7, DownloadMoves DEF Transferring!Next

LEMMA DownloadsSound ==
  ASSUME DownloadInv
  PROVE  Transferring!DownloadsAreSound
<1>1. Transferring!SlotsAreExact
  <2>1. \A p \in Transferring!Gates :
          Held(p) = {d \in Transfers : Transferring!On[d] = p /\ run[d].at \in Transferring!Holding}
    BY DEF Held
  <2> QED BY <2>1, TransferCardinality DEF DownloadInv, SlotsFit, Transferring!SlotsAreExact
<1>2. Transferring!ServesWhatIsAllowed /\ Transferring!LeavesNothing
  BY DEF DownloadInv, DownloadTypes, OneDownload, DownloadFits, Transferring!ServesWhatIsAllowed, Transferring!LeavesNothing
<1>3. Transferring!AnsweredOnce
  BY DEF DownloadInv, DownloadFits, Thrower, Transferring!AnsweredOnce
<1> QED BY <1>1, <1>2, <1>3 DEF Transferring!DownloadsAreSound

-----------------------------------------------------------------------------
(* Requests                                                                *)

\* A step of the composition is a step of the requests, which count as everyone does.
LEMMA HttpSteps ==
  ASSUME [Next]_vars, which = "http"
  PROVE  [Http!Next]_httpVars
BY DEF Next, vars

LEMMA HttpCardinality ==
  \A S : Http!Cardinality(S) = Cardinality(S) /\ (Http!IsFiniteSet(S) <=> IsFiniteSet(S))
BY DEF Http!Cardinality, Cardinality, Http!IsFiniteSet, IsFiniteSet

LEMMA HttpFits == Http!HttpAssumption /\ IsFiniteSet(Calls)
BY Bounds, HttpCardinality DEF Http!HttpAssumption

AskSet == [host : STRING, origin : STRING, route : Http!RouteNames, method : STRING, caller : STRING,
           declared : Nat, chunks : Seq(Nat), form : STRING]
NoAsk == [route |-> "unknown", chunks |-> <<>>]
OneRequest ==
  [ask : AskSet \cup {NoAsk}, at : {"new", "record", "body", "operate", "over"}, got : Nat,
   body : {"unread", "reading", "ended", "resumed", "destroyed"}, client : BOOLEAN,
   status : Nat, heads : Seq(Nat), guarded : BOOLEAN, done : Nat, took : Nat]

Admitted(ask) ==
  ask.host # "untrusted" /\ ask.origin # "untrusted" /\ ask.method \in Http!Routes[ask.route].methods
Passed(ask) == Admitted(ask) /\ 0 \in Http!Outcomes(Http!Routes[ask.route].guard, ask.caller)

\* Answered twice: of the full queue, and of the attempt that could not be given back.
ToldTwice(q) == q.heads = <<429, 500>> /\ q.ask.route = "login"

\* Where a request is: which checks its ask has passed, what was read, done and answered.
RequestFits(q) ==
  /\ q.got <= MaxBytes
  /\ q.at # "new" => q.ask \in AskSet
  /\ q.at # "over" => q.heads = <<>> /\ q.done = 0
  /\ q.at \in {"new", "record"} => q.got = 0
  /\ q.at = "record" => Admitted(q.ask) /\ Http!Routes[q.ask.route].guard = "record"
  /\ q.at \in {"body", "operate"} => Passed(q.ask)
  /\ q.at = "over" =>
       /\ q.done > 0 \/ q.got > 0 => Passed(q.ask) /\ q.done <= 1
       /\ q.body \in {"ended", "resumed", "destroyed"}
       /\ q.heads = <<q.status>> \/ ToldTwice(q)

KeyOf(q) == [method |-> Http!MethodLabel(q.ask.method), path |-> Http!PathLabel(q.ask.route), status |-> q.status]
With(key) == {r \in Http!Over : KeyOf(call[r]) = key}
Within(k) == {r \in Http!Over : call[r].took <= Buckets[k]}
Tooks == [r \in Http!Over |-> call[r].took]

CountsFit ==
  /\ IsFiniteSet(DOMAIN counts)
  /\ \A key \in DOMAIN counts : counts[key] \in Nat /\ counts[key] = Cardinality(With(key))
  /\ \A r \in Http!Over : KeyOf(call[r]) \in DOMAIN counts
  /\ Http!SumFunctionOnSet(counts, DOMAIN counts) = Cardinality(Http!Over)
LatencyFits ==
  /\ latency \in [count : Nat, sum : Nat, inf : Nat, buckets : [DOMAIN Buckets -> Nat]]
  /\ latency.count = Cardinality(Http!Over) /\ latency.inf = latency.count
  /\ latency.sum = Http!SumFunctionOnSet(Tooks, Http!Over)
  /\ \A k \in DOMAIN Buckets : Http!Rendered(k) = Cardinality(Within(k))

HttpInv ==
  /\ call \in [Calls -> OneRequest] /\ answering \in BOOLEAN
  /\ \A r \in Calls : RequestFits(call[r])
  /\ \A r \in Http!Over : answering => call[r].heads = <<call[r].status>>
  /\ CountsFit /\ LatencyFits

\* The sums are those of FiniteSums.
LEMMA SumsAlike == \A f, S : Http!SumFunctionOnSet(f, S) = Sums!SumFunctionOnSet(f, S)
BY DEF Http!SumFunctionOnSet, Http!FoldFunctionOnSet, Http!MapThenFoldSet,
       Sums!SumFunctionOnSet, Sums!FoldFunctionOnSet, Sums!MapThenFoldSet

LEMMA FiniteAlike == \A S : IsFiniteSet(S) <=> Sums!IsFiniteSet(S)
BY DEF IsFiniteSet, Sums!IsFiniteSet

LEMMA SumOfEqual ==
  ASSUME NEW S, IsFiniteSet(S), NEW f, NEW h, \A x \in S : f[x] \in Int /\ h[x] = f[x]
  PROVE  Http!SumFunctionOnSet(f, S) = Http!SumFunctionOnSet(h, S) /\ Http!SumFunctionOnSet(f, S) \in Int
<1>1. /\ Sums!SumFunctionOnSet(f, S) \in Int /\ Sums!SumFunctionOnSet(h, S) \in Int
  BY FiniteAlike, Sums!SumIsNumber
<1>2. Sums!SumFunctionOnSet(f, S) <= Sums!SumFunctionOnSet(h, S)
  <2>1. /\ \A x \in S : h[x] \in Int
        /\ \A x \in S : f[x] \in Int /\ f[x] <= h[x]
        /\ \A x \in S \ S : h[x] >= 0
    OBVIOUS
  <2> QED BY <2>1, FiniteAlike, Sums!SumGrows
<1>3. Sums!SumFunctionOnSet(h, S) <= Sums!SumFunctionOnSet(f, S)
  <2>1. /\ \A x \in S : f[x] \in Int
        /\ \A x \in S : h[x] \in Int /\ h[x] <= f[x]
        /\ \A x \in S \ S : f[x] >= 0
    OBVIOUS
  <2> QED BY <2>1, FiniteAlike, Sums!SumGrows
<1> QED BY <1>1, <1>2, <1>3, SumsAlike

\* An element is taken away.
LEMMA SumWithoutOne ==
  ASSUME NEW S, IsFiniteSet(S), NEW x \in S, NEW f, \A y \in S : f[y] \in Int
  PROVE  Http!SumFunctionOnSet(f, S) = f[x] + Http!SumFunctionOnSet(f, S \ {x})
<1>1. Sums!SumFunctionOnSet(f, S) = f[x] + Sums!SumFunctionOnSet(f, S \ {x})
  BY FiniteAlike, Sums!SumSplits
<1> QED BY <1>1, SumsAlike

\* One more element,
LEMMA SumWithOneMore ==
  ASSUME NEW S, IsFiniteSet(S), NEW x, x \notin S, NEW f, NEW h, \A y \in S : f[y] \in Int /\ h[y] = f[y],
         h[x] \in Int
  PROVE  Http!SumFunctionOnSet(h, S \cup {x}) = Http!SumFunctionOnSet(f, S) + h[x]
         /\ Http!SumFunctionOnSet(f, S) \in Int
<1>1. IsFiniteSet(S \cup {x}) /\ (S \cup {x}) \ {x} = S /\ \A y \in S \cup {x} : h[y] \in Int
  BY FS_AddElement
<1>2. Http!SumFunctionOnSet(h, S \cup {x}) = h[x] + Http!SumFunctionOnSet(h, (S \cup {x}) \ {x})
  BY <1>1, SumWithoutOne
<1>3. Http!SumFunctionOnSet(f, S) = Http!SumFunctionOnSet(h, S) /\ Http!SumFunctionOnSet(f, S) \in Int
  BY SumOfEqual
<1>4. Http!SumFunctionOnSet(h, (S \cup {x}) \ {x}) = Http!SumFunctionOnSet(h, S)
  BY <1>1, Zenon
<1> QED BY <1>2, <1>3, <1>4

\* one other element.
LEMMA SumWithOneChanged ==
  ASSUME NEW S, IsFiniteSet(S), NEW x \in S, NEW f, NEW h, \A y \in S : f[y] \in Int /\ (y # x => h[y] = f[y]),
         h[x] \in Int
  PROVE  Http!SumFunctionOnSet(h, S) = Http!SumFunctionOnSet(f, S) + (h[x] - f[x]) /\ Http!SumFunctionOnSet(f, S) \in Int
<1>1. IsFiniteSet(S \ {x}) /\ (\A y \in S \ {x} : f[y] \in Int /\ h[y] = f[y]) /\ \A y \in S : h[y] \in Int
  BY FS_RemoveElement
<1>2. Http!SumFunctionOnSet(f, S) = f[x] + Http!SumFunctionOnSet(f, S \ {x})
      /\ Http!SumFunctionOnSet(h, S) = h[x] + Http!SumFunctionOnSet(h, S \ {x})
  BY <1>1, SumWithoutOne
<1>3. Http!SumFunctionOnSet(f, S \ {x}) = Http!SumFunctionOnSet(h, S \ {x}) /\ Http!SumFunctionOnSet(f, S \ {x}) \in Int
  BY <1>1, SumOfEqual
<1> QED BY <1>2, <1>3

LEMMA HttpStarts ==
  ASSUME Http!Init
  PROVE  HttpInv
<1>1. NoAsk = [route |-> "unknown", chunks |-> <<>>] /\ call = [r \in Calls |-> Http!Fresh(NoAsk)]
  BY DEF Http!Init, NoAsk
<1>2. Http!Fresh(NoAsk) \in OneRequest /\ Http!Fresh(NoAsk).at = "new" /\ RequestFits(Http!Fresh(NoAsk))
  BY HttpFits DEF Http!Fresh, OneRequest, RequestFits, Http!HttpAssumption
<1>3. Http!Over = {} /\ IsFiniteSet({}) /\ Cardinality({}) = 0
  BY <1>1, <1>2, FS_EmptySet DEF Http!Over
<1>4. \A f : Http!SumFunctionOnSet(f, {}) = 0
  BY SumsAlike, Sums!SumOfNone
<1>5. CountsFit
  <2>1. DOMAIN counts = {}
    BY DEF Http!Init
  <2> QED BY <1>3, <1>4, <2>1 DEF CountsFit
<1>6. LatencyFits
  <2>1. latency = [count |-> 0, sum |-> 0, inf |-> 0, buckets |-> [k \in DOMAIN Buckets |-> 0]]
    BY DEF Http!Init
  <2>2. ASSUME NEW k \in DOMAIN Buckets PROVE Http!Rendered(k) = 0 /\ Within(k) = {}
    <3>1. IsFiniteSet(1 .. k) /\ \A j \in 1 .. k : j \in DOMAIN Buckets
      BY HttpFits, FS_Interval DEF Http!HttpAssumption
    <3>2. \A j \in 1 .. k : latency.buckets[j] = 0
      BY <2>1, <3>1
    <3>3. Sums!SumFunctionOnSet(latency.buckets, 1 .. k) = 0
      BY <3>1, <3>2, FiniteAlike, Sums!SumOfZeros
    <3> QED BY <1>3, <3>3, SumsAlike DEF Http!Rendered, Within
  <2> QED BY <1>3, <1>4, <2>1, <2>2 DEF LatencyFits
<1> QED BY <1>1, <1>2, <1>3, <1>5, <1>6 DEF HttpInv, Http!Init

\* A request that ends is counted under its key,
LEMMA CountsKeep ==
  ASSUME HttpInv, NEW r \in Calls \ Http!Over, NEW key, key = KeyOf(call'[r]),
         Http!Over' = Http!Over \cup {r}, \A s \in Http!Over : call'[s] = call[s],
         counts' = [k \in DOMAIN counts \cup {key} |-> Http!Answered(k) + IF k = key THEN 1 ELSE 0]
  PROVE  CountsFit'
<1>1. IsFiniteSet(Http!Over) /\ Cardinality(Http!Over) \in Nat /\ Cardinality(Http!Over') = Cardinality(Http!Over) + 1
  <2>1. IsFiniteSet(Http!Over)
    BY HttpFits, FS_Subset DEF Http!HttpAssumption, Http!Over
  <2> QED BY <2>1, FS_AddElement, FS_CardinalityType
<1>2. ASSUME NEW k
      PROVE  /\ k = key => With(k)' = With(k) \cup {r}
             /\ k # key => With(k)' = With(k)
             /\ IsFiniteSet(With(k)) /\ r \notin With(k)
  <2>1. /\ With(k)' = {s \in Http!Over' : KeyOf(call'[s]) = k}
        /\ With(k) = {s \in Http!Over : KeyOf(call[s]) = k}
    BY DEF With, KeyOf
  <2>2. IsFiniteSet(With(k)) /\ r \notin With(k)
    BY <1>1, <2>1, FS_Subset
  <2>3. \A s \in Http!Over : KeyOf(call'[s]) = KeyOf(call[s])
    OBVIOUS
  <2> QED BY <2>1, <2>2, <2>3
<1>3. CountsFit
  BY DEF HttpInv
<1>4. DOMAIN counts' = DOMAIN counts \cup {key} /\ IsFiniteSet(DOMAIN counts')
      /\ (\A k \in DOMAIN counts : k # key => counts'[k] = counts[k])
      /\ counts'[key] = Http!Answered(key) + 1
  BY <1>3, FS_AddElement DEF CountsFit, Http!Answered
<1>5. CASE key \in DOMAIN counts
  <2>1. counts'[key] = counts[key] + 1 /\ DOMAIN counts' = DOMAIN counts
    BY <1>4, <1>5 DEF Http!Answered
  <2>2. Http!SumFunctionOnSet(counts', DOMAIN counts) = Http!SumFunctionOnSet(counts, DOMAIN counts) + 1
    <3>1. /\ IsFiniteSet(DOMAIN counts) /\ counts'[key] \in Int
          /\ \A y \in DOMAIN counts : counts[y] \in Int /\ (y # key => counts'[y] = counts[y])
          /\ counts'[key] - counts[key] = 1
      BY <1>3, <1>4, <1>5, <2>1 DEF CountsFit
    <3>2. Http!SumFunctionOnSet(counts', DOMAIN counts)
            = Http!SumFunctionOnSet(counts, DOMAIN counts) + (counts'[key] - counts[key])
      BY <1>5, <3>1, SumWithOneChanged
    <3> QED BY <3>1, <3>2
  <2>3. \A k \in DOMAIN counts' : counts'[k] \in Nat /\ counts'[k] = Cardinality(With(k)')
    <3>1. ASSUME NEW k \in DOMAIN counts PROVE counts'[k] \in Nat /\ counts'[k] = Cardinality(With(k)')
      <4>1. counts[k] \in Nat /\ counts[k] = Cardinality(With(k))
        BY <1>3 DEF CountsFit
      <4>2. CASE k = key
        <5>1. Cardinality(With(k)') = Cardinality(With(k)) + 1
          BY <1>2, <4>2, FS_AddElement
        <5> QED BY <2>1, <4>1, <4>2, <5>1
      <4>3. CASE k # key
        BY <1>2, <1>4, <4>1, <4>3
      <4> QED BY <4>2, <4>3
    <3> QED BY <2>1, <3>1
  <2>4. \A s \in Http!Over' : KeyOf(call'[s]) \in DOMAIN counts'
    BY <1>3, <1>4 DEF CountsFit
  <2> QED BY <1>1, <1>3, <1>4, <2>1, <2>2, <2>3, <2>4 DEF CountsFit, KeyOf
<1>6. CASE key \notin DOMAIN counts
  <2>1. counts'[key] = 1 /\ With(key) = {}
    BY <1>3, <1>4, <1>6 DEF Http!Answered, CountsFit, With
  <2>2. Http!SumFunctionOnSet(counts', DOMAIN counts') = Http!SumFunctionOnSet(counts, DOMAIN counts) + 1
    <3>1. /\ IsFiniteSet(DOMAIN counts) /\ counts'[key] \in Int
          /\ \A y \in DOMAIN counts : counts[y] \in Int /\ counts'[y] = counts[y]
      BY <1>3, <1>4, <1>6, <2>1 DEF CountsFit
    <3>2. Http!SumFunctionOnSet(counts', DOMAIN counts \cup {key})
            = Http!SumFunctionOnSet(counts, DOMAIN counts) + counts'[key]
      BY <1>6, <3>1, SumWithOneMore
    <3> QED BY <1>4, <2>1, <3>2
  <2>3. \A k \in DOMAIN counts' : counts'[k] \in Nat /\ counts'[k] = Cardinality(With(k)')
    <3>1. ASSUME NEW k \in DOMAIN counts PROVE counts'[k] \in Nat /\ counts'[k] = Cardinality(With(k)')
      BY <1>2, <1>3, <1>4, <1>6 DEF CountsFit
    <3>2. With(key)' = {r} /\ Cardinality({r}) = 1
      BY <1>2, <2>1, FS_Singleton
    <3> QED BY <1>4, <2>1, <3>1, <3>2
  <2>4. \A s \in Http!Over' : KeyOf(call'[s]) \in DOMAIN counts'
    BY <1>3, <1>4 DEF CountsFit
  <2> QED BY <1>1, <1>3, <1>4, <2>2, <2>3, <2>4 DEF CountsFit, KeyOf
<1> QED BY <1>5, <1>6

\* Bounds rise from bucket to bucket.
LEMMA BucketsRise ==
  ASSUME NEW j \in DOMAIN Buckets, NEW k \in DOMAIN Buckets, j <= k
  PROVE  Buckets[j] \in Nat /\ Buckets[k] \in Nat /\ Buckets[j] <= Buckets[k]
<1>1. Buckets \in Seq(Nat) /\ (\A i \in 1 .. Len(Buckets) - 1 : Buckets[i] < Buckets[i + 1])
      /\ DOMAIN Buckets = 1 .. Len(Buckets) /\ Len(Buckets) \in Nat
  BY HttpFits DEF Http!HttpAssumption
<1> DEFINE K == {n \in Nat : j + n \in DOMAIN Buckets => Buckets[j] <= Buckets[j + n]}
<1>2. 0 \in K
  BY <1>1
<1>3. ASSUME NEW n \in Nat, n \in K PROVE n + 1 \in K
  <2>1. SUFFICES ASSUME j + (n + 1) \in DOMAIN Buckets PROVE Buckets[j] <= Buckets[j + (n + 1)]
    OBVIOUS
  <2>2. j + n \in 1 .. Len(Buckets) - 1 /\ j + n \in DOMAIN Buckets /\ (j + n) + 1 = j + (n + 1)
    BY <1>1, <2>1
  <2>3. Buckets[j + n] < Buckets[j + (n + 1)]
    BY <1>1, <2>2
  <2>4. Buckets[j] <= Buckets[j + n]
    BY <1>3, <2>2
  <2>5. Buckets[j] \in Nat /\ Buckets[j + n] \in Nat /\ Buckets[j + (n + 1)] \in Nat
    BY <1>1, <2>1, <2>2
  <2> QED BY <2>3, <2>4, <2>5
<1>4. Nat \subseteq K
  <2> HIDE DEF K
  <2> QED BY <1>2, <1>3, Sums!NumbersByInduction
<1>5. k - j \in Nat /\ j + (k - j) = k
  BY <1>1
<1>6. Buckets[j] <= Buckets[j + (k - j)]
  <2>1. k - j \in K
    BY <1>4, <1>5
  <2> QED BY <1>5, <2>1
<1> QED BY <1>1, <1>5, <1>6

\* The first bucket that a time fits counts it; with the others before it, it is counted once in
\* each bucket that it fits.
Hit(ms) == {k \in DOMAIN Buckets : ms <= Buckets[k]}
HitNow(ms, k) == IF Hit(ms) # {} /\ k = Http!Min(Hit(ms)) THEN 1 ELSE 0
LEMMA LatencyKeeps ==
  ASSUME HttpInv, NEW r \in Calls \ Http!Over, NEW ms \in Nat, call'[r].took = ms,
         Http!Over' = Http!Over \cup {r}, \A s \in Http!Over : call'[s] = call[s] /\ call[s].took \in Nat,
         latency' = [count |-> latency.count + 1, sum |-> latency.sum + ms, inf |-> latency.inf + 1,
                     buckets |-> [k \in DOMAIN Buckets |-> latency.buckets[k] + HitNow(ms, k)]]
  PROVE  LatencyFits'
<1>1. IsFiniteSet(Http!Over) /\ Cardinality(Http!Over) \in Nat /\ Cardinality(Http!Over') = Cardinality(Http!Over) + 1
  <2>1. IsFiniteSet(Http!Over)
    BY HttpFits, FS_Subset DEF Http!HttpAssumption, Http!Over
  <2> QED BY <2>1, FS_AddElement, FS_CardinalityType
<1>2. LatencyFits
  BY DEF HttpInv
<1>3. /\ latency'.count = latency.count + 1 /\ latency'.sum = latency.sum + ms /\ latency'.inf = latency.inf + 1
      /\ \A k \in DOMAIN Buckets : /\ latency'.buckets[k] = latency.buckets[k] + HitNow(ms, k)
                                  /\ HitNow(ms, k) \in {0, 1} /\ latency.buckets[k] \in Nat
  BY <1>2 DEF LatencyFits, HitNow
<1>4. latency'.sum = Http!SumFunctionOnSet(Tooks', Http!Over')
  <2>1. Tooks' = [s \in Http!Over' |-> call'[s].took]
    BY DEF Tooks
  <2>2. /\ r \notin Http!Over /\ Tooks'[r] = ms /\ ms \in Int
        /\ \A s \in Http!Over : Tooks[s] \in Int /\ Tooks'[s] = Tooks[s]
    BY <2>1 DEF Tooks
  <2>3. ASSUME NEW f, NEW h, f = Tooks, h = Tooks', NEW S, S = Http!Over
        PROVE  Http!SumFunctionOnSet(h, S \cup {r}) = Http!SumFunctionOnSet(f, S) + ms
    <3>1. IsFiniteSet(S) /\ r \notin S /\ h[r] = ms /\ h[r] \in Int
          /\ \A s \in S : f[s] \in Int /\ h[s] = f[s]
      BY <1>1, <2>2, <2>3
    <3>2. Http!SumFunctionOnSet(h, S \cup {r}) = Http!SumFunctionOnSet(f, S) + h[r]
      BY ONLY <3>1, SumWithOneMore
    <3> QED BY <3>1, <3>2
  <2> QED BY <1>2, <1>3, <2>2, <2>3 DEF LatencyFits
<1>5. DOMAIN Buckets = 1 .. Len(Buckets) /\ Len(Buckets) \in Nat /\ \A k \in DOMAIN Buckets : Buckets[k] \in Nat
  BY HttpFits DEF Http!HttpAssumption
<1>6. Hit(ms) # {} => Http!Min(Hit(ms)) \in Hit(ms) /\ \A k \in Hit(ms) : Http!Min(Hit(ms)) <= k
  <2>1. SUFFICES ASSUME Hit(ms) # {} PROVE \E x \in Hit(ms) : \A y \in Hit(ms) : x <= y
    BY DEF Http!Min
  <2>2. Hit(ms) \in SUBSET Nat
    BY <1>5 DEF Hit
  <2> QED BY <2>1, <2>2, Sums!LeastNumber
<1>7. ASSUME NEW k \in DOMAIN Buckets PROVE Http!Rendered(k)' = Cardinality(Within(k)')
  <2> DEFINE f == latency.buckets
             h == latency'.buckets
             m == Http!Min(Hit(ms))
             D == 1 .. k
  <2>1. /\ IsFiniteSet(D)
        /\ \A j \in D : j \in DOMAIN Buckets /\ f[j] \in Int /\ h[j] = f[j] + HitNow(ms, j) /\ j <= k
    <3>1. D \subseteq DOMAIN Buckets /\ k \in Nat
      BY <1>5
    <3>2. IsFiniteSet(D)
      BY <3>1, FS_Interval
    <3> QED BY <1>3, <1>5, <3>1, <3>2
  <2>2. /\ Http!Rendered(k) = Http!SumFunctionOnSet(f, D) /\ Http!Rendered(k)' = Http!SumFunctionOnSet(h, D)
        /\ Http!Rendered(k) = Cardinality(Within(k))
    BY <1>2 DEF Http!Rendered, LatencyFits
  <2>3. IsFiniteSet(Within(k)) /\ Cardinality(Within(k)) \in Nat /\ r \notin Within(k)
        /\ Within(k)' = IF ms <= Buckets[k] THEN Within(k) \cup {r} ELSE Within(k)
    <3>1. Within(k) \in SUBSET Http!Over /\ Within(k)' = {s \in Http!Over' : call'[s].took <= Buckets[k]}
          /\ Within(k) = {s \in Http!Over : call[s].took <= Buckets[k]}
      BY DEF Within
    <3>2. IsFiniteSet(Within(k)) /\ Cardinality(Within(k)) \in Nat
      BY <1>1, <3>1, FS_Subset, FS_CardinalityType
    <3> QED BY <3>1, <3>2
  <2>4. CASE ms <= Buckets[k]
    <3>1. k \in Hit(ms)
      BY <2>4 DEF Hit
    <3>2. m \in Hit(ms) /\ m <= k /\ m \in DOMAIN Buckets
      BY <1>6, <3>1 DEF Hit
    <3>3. m \in D
      <4> HIDE DEF m
      <4> QED BY <1>5, <3>2
    <3>4. HitNow(ms, m) = 1 /\ \A j \in D : j # m => HitNow(ms, j) = 0
      BY <3>1 DEF HitNow
    <3> HIDE DEF f, h, m, D
    <3>5. Http!SumFunctionOnSet(h, D) = Http!SumFunctionOnSet(f, D) + 1
      <4>1. /\ \A j \in D : f[j] \in Int /\ (j # m => h[j] = f[j])
            /\ h[m] \in Int /\ h[m] - f[m] = 1
        BY <2>1, <3>3, <3>4
      <4>2. Http!SumFunctionOnSet(h, D) = Http!SumFunctionOnSet(f, D) + (h[m] - f[m])
        BY <2>1, <3>3, <4>1, SumWithOneChanged
      <4> QED BY <4>1, <4>2
    <3>6. Cardinality(Within(k)') = Cardinality(Within(k)) + 1
      BY <2>3, <2>4, FS_AddElement
    <3> QED BY <2>2, <3>5, <3>6
  <2>5. CASE ~(ms <= Buckets[k])
    <3>1. \A j \in D : HitNow(ms, j) = 0
      <4>1. ASSUME NEW j \in D, HitNow(ms, j) # 0 PROVE FALSE
        <5>1. j \in Hit(ms)
          BY <1>6, <4>1 DEF HitNow
        <5>2. ms <= Buckets[j] /\ Buckets[j] <= Buckets[k] /\ Buckets[j] \in Nat /\ Buckets[k] \in Nat
          BY <2>1, <5>1, BucketsRise DEF Hit
        <5> QED BY <2>5, <5>2
      <4> QED BY <4>1
    <3> HIDE DEF f, h, m, D
    <3>2. Http!SumFunctionOnSet(f, D) = Http!SumFunctionOnSet(h, D)
      <4>1. \A j \in D : f[j] \in Int /\ h[j] = f[j]
        BY <2>1, <3>1
      <4> QED BY <2>1, <4>1, SumOfEqual
    <3> QED BY <2>2, <2>3, <2>5, <3>2
  <2> QED BY <2>4, <2>5
<1>8. latency' \in [count : Nat, sum : Nat, inf : Nat, buckets : [DOMAIN Buckets -> Nat]]
  <2>1. [k \in DOMAIN Buckets |-> latency.buckets[k] + HitNow(ms, k)] \in [DOMAIN Buckets -> Nat]
    BY <1>3
  <2>2. latency.count + 1 \in Nat /\ latency.sum + ms \in Nat /\ latency.inf + 1 \in Nat
    BY <1>2 DEF LatencyFits
  <2> QED BY <2>1, <2>2
<1> QED BY <1>1, <1>2, <1>3, <1>4, <1>7, <1>8 DEF LatencyFits

\* What a request may end with.
EndFits(q) ==
  /\ q \in OneRequest /\ q.ask \in AskSet /\ q.got <= MaxBytes
  /\ q.done > 0 \/ q.got > 0 => Passed(q.ask) /\ q.done <= 1
  /\ q.heads = <<q.status>> \/ ToldTwice(q)

LEMMA RequestEnds ==
  ASSUME HttpInv, answering, NEW r \in Calls, call[r].at # "over", NEW q, EndFits(q), Http!End(r, q)
  PROVE  HttpInv'
<1> DEFINE body == Http!Drained(q.body)
           o == [q EXCEPT !.at = "over", !.body = body]
<1>1. PICK ms \in Durations :
        LET key == [method |-> Http!MethodLabel(o.ask.method), path |-> Http!PathLabel(o.ask.route), status |-> o.status]
        IN /\ counts' = [k \in DOMAIN counts \cup {key} |-> Http!Answered(k) + IF k = key THEN 1 ELSE 0]
           /\ latency' = [count |-> latency.count + 1, sum |-> latency.sum + ms, inf |-> latency.inf + 1,
                buckets |-> LET hit == {k \in DOMAIN Buckets : ms <= Buckets[k]}
                            IN [k \in DOMAIN Buckets |->
                                  latency.buckets[k] + IF hit # {} /\ k = Http!Min(hit) THEN 1 ELSE 0]]
           /\ call' = [call EXCEPT ![r] = [o EXCEPT !.took = ms]]
  <2>1. Http!Count(r, o)
    BY DEF Http!End
  <2> HIDE DEF o
  <2> QED BY <2>1 DEF Http!Count
<1>2. ms \in Nat /\ body \in {"ended", "resumed", "destroyed"}
  BY HttpFits DEF Http!HttpAssumption, Http!Drained
<1> DEFINE e == [o EXCEPT !.took = ms]
           key == KeyOf(e)
<1>3. q \in OneRequest
  BY DEF EndFits
<1>4. /\ o \in OneRequest /\ o.at = "over" /\ o.body = body /\ o.ask = q.ask /\ o.got = q.got /\ o.status = q.status
      /\ o.heads = q.heads /\ o.done = q.done
  <2> HIDE DEF body
  <2> QED BY <1>2, <1>3 DEF OneRequest
<1>5. /\ e \in OneRequest /\ e.at = "over" /\ e.body = body /\ e.ask = q.ask /\ e.got = q.got /\ e.status = q.status
      /\ e.heads = q.heads /\ e.done = q.done /\ e.took = ms
  <2> HIDE DEF o
  <2> QED BY <1>2, <1>4 DEF OneRequest
<1>6. /\ counts' = [k \in DOMAIN counts \cup {key} |-> Http!Answered(k) + IF k = key THEN 1 ELSE 0]
      /\ latency' = [count |-> latency.count + 1, sum |-> latency.sum + ms, inf |-> latency.inf + 1,
                     buckets |-> [k \in DOMAIN Buckets |-> latency.buckets[k] + HitNow(ms, k)]]
      /\ call' = [call EXCEPT ![r] = e]
  <2>1. key = [method |-> Http!MethodLabel(o.ask.method), path |-> Http!PathLabel(o.ask.route), status |-> o.status]
    <3> HIDE DEF o
    <3>1. e.ask = o.ask /\ e.status = o.status
      BY <1>4, <1>5
    <3> HIDE DEF e
    <3> QED BY <3>1 DEF KeyOf
  <2> HIDE DEF o, key
  <2> QED BY <1>1, <2>1 DEF HitNow, Hit
<1> HIDE DEF o, e, key, body
<1>7. call \in [Calls -> OneRequest] /\ call' \in [Calls -> OneRequest] /\ call'[r] = e
      /\ \A s \in Calls \ {r} : call'[s] = call[s]
  BY <1>5, <1>6 DEF HttpInv
<1>8. r \in Calls \ Http!Over /\ Http!Over' = Http!Over \cup {r} /\ \A s \in Http!Over : call'[s] = call[s]
  <2>1. Http!Over' = {s \in Calls : call'[s].at = "over"}
    BY DEF Http!Over
  <2> QED BY <1>5, <1>7, <2>1 DEF Http!Over
<1>9. CountsFit'
  <2>1. key = KeyOf(call'[r])
    BY <1>7 DEF key
  <2> QED BY <1>6, <1>8, <2>1, CountsKeep
<1>10. LatencyFits'
  <2>1. call'[r].took = ms /\ \A s \in Http!Over : call'[s] = call[s] /\ call[s].took \in Nat
    BY <1>5, <1>7, <1>8 DEF OneRequest, Http!Over
  <2> QED BY <1>2, <1>6, <1>8, <2>1, LatencyKeeps
<1>11. answering' \in BOOLEAN /\ (answering' => q.heads = <<q.status>>)
  <2>1. answering' = (Len(q.heads) <= 1)
    BY DEF Http!End
  <2>2. ASSUME ToldTwice(q) PROVE ~answering'
    <3>1. Len(q.heads) = 2
      BY <2>2 DEF ToldTwice
    <3>2. ~(Len(q.heads) <= 1)
      BY <3>1
    <3> QED BY <2>1, <3>2
  <2> QED BY <2>1, <2>2 DEF EndFits
<1>12. RequestFits(e)
  BY <1>2, <1>5 DEF EndFits, RequestFits, ToldTwice
<1>13. (\A s \in Calls : RequestFits(call[s]))'
  <2>1. \A s \in Calls : RequestFits(call'[s])
    BY <1>7, <1>12 DEF HttpInv
  <2> QED BY <2>1 DEF RequestFits
<1>14. (\A s \in Http!Over : answering => call[s].heads = <<call[s].status>>)'
  BY <1>5, <1>7, <1>8, <1>11 DEF HttpInv
<1> QED BY <1>7, <1>9, <1>10, <1>11, <1>13, <1>14 DEF HttpInv

\* A request that goes on is not counted.
LEMMA RequestGoes ==
  ASSUME HttpInv, NEW r \in Calls, call[r].at # "over",
         NEW q \in OneRequest, q.at # "over", RequestFits(q), Http!Go(r, q)
  PROVE  HttpInv'
<1>1. call \in [Calls -> OneRequest] /\ call' \in [Calls -> OneRequest] /\ call'[r] = q
      /\ (\A s \in Calls \ {r} : call'[s] = call[s]) /\ UNCHANGED <<counts, latency, answering>>
  BY DEF HttpInv, Http!Go
<1>2. Http!Over' = Http!Over /\ \A s \in Http!Over : call'[s] = call[s]
  BY <1>1 DEF Http!Over
<1>3. /\ Tooks' = Tooks
      /\ \A key : With(key)' = With(key)
      /\ \A k : Within(k)' = Within(k) /\ Http!Rendered(k)' = Http!Rendered(k)
  BY <1>1, <1>2 DEF Tooks, With, Within, KeyOf, Http!Rendered
<1>4. CountsFit'
  BY <1>1, <1>2, <1>3 DEF HttpInv, CountsFit, KeyOf
<1>5. LatencyFits'
  BY <1>1, <1>2, <1>3 DEF HttpInv, LatencyFits
<1>6. (\A s \in Calls : RequestFits(call[s]))'
  <2>1. \A s \in Calls : RequestFits(call'[s])
    BY <1>1 DEF HttpInv
  <2> QED BY <2>1 DEF RequestFits
<1>7. (\A s \in Http!Over : answering => call[s].heads = <<call[s].status>>)'
  BY <1>1, <1>2 DEF HttpInv
<1> QED BY <1>1, <1>4, <1>5, <1>6, <1>7 DEF HttpInv

\* A head is written.
LEMMA SentFits ==
  ASSUME NEW q \in OneRequest, NEW status \in Nat
  PROVE  /\ Http!Send(q, status) \in OneRequest /\ Http!Send(q, status).heads = Append(q.heads, status)
         /\ Http!Send(q, status).status = status /\ Http!Send(q, status).ask = q.ask /\ Http!Send(q, status).got = q.got
         /\ Http!Send(q, status).done = q.done
<1> DEFINE heads == Append(q.heads, status)
<1>1. q.heads \in Seq(Nat)
  BY DEF OneRequest
<1>2. heads \in Seq(Nat)
  BY <1>1
<1>3. Http!Send(q, status) = [q EXCEPT !.status = status, !.heads = heads]
  BY DEF Http!Send
<1> HIDE DEF heads
<1>4. Http!Send(q, status) \in OneRequest /\ Http!Send(q, status).heads = heads
      /\ Http!Send(q, status).status = status /\ Http!Send(q, status).ask = q.ask /\ Http!Send(q, status).got = q.got
      /\ Http!Send(q, status).done = q.done
  BY <1>2, <1>3 DEF OneRequest
<1> QED BY <1>4 DEF heads

\* A request is answered that was not answered before.
LEMMA RequestAnswered ==
  ASSUME HttpInv, answering, NEW r \in Calls, call[r].at # "over",
         NEW q \in OneRequest, q.ask \in AskSet, q.got <= MaxBytes, q.heads = <<>>,
         q.done > 0 \/ q.got > 0 => Passed(q.ask) /\ q.done <= 1,
         NEW status \in Nat, Http!Answer(r, q, status)
  PROVE  HttpInv'
<1> DEFINE s == Http!Send(q, status)
<1>1. /\ s \in OneRequest /\ s.ask = q.ask /\ s.got = q.got /\ s.done = q.done /\ s.status = status
      /\ s.heads = Append(q.heads, status)
  BY SentFits
<1>2. Http!End(r, s)
  BY DEF Http!Answer
<1> HIDE DEF s
<1>3. s.heads = <<status>>
  BY <1>1
<1>4. EndFits(s)
  BY <1>1, <1>3 DEF EndFits
<1> QED BY <1>2, <1>4, RequestEnds

LEMMA OutcomesAreStatuses ==
  ASSUME NEW guard, NEW caller
  PROVE  Http!Outcomes(guard, caller) \subseteq Nat
<1>1. CASE guard = "record" /\ Http!Session(caller)
  BY <1>1 DEF Http!Outcomes
<1>2. CASE guard = "nobody" \/ ~Http!Session(caller)
  BY <1>2 DEF Http!Outcomes
<1>3. CASE Http!Session(caller) /\ guard \in {"admin", "staff"}
  BY <1>3 DEF Http!Outcomes
<1>4. CASE Http!Session(caller) /\ guard \notin {"nobody", "admin", "staff", "record"}
  BY <1>4 DEF Http!Outcomes
<1> QED BY <1>1, <1>2, <1>3, <1>4

\* The guard of a route, for a request that ingress and registry let through.
LEMMA Guarded ==
  ASSUME HttpInv, answering, NEW r \in Calls, call[r].at # "over",
         NEW q \in OneRequest, q.ask \in AskSet, q.got = 0, q.done = 0, q.heads = <<>>, Admitted(q.ask),
         Http!Guard(r, q)
  PROVE  HttpInv'
<1> DEFINE route == Http!Routes[q.ask.route]
           at == IF q.ask.method \in route.reads THEN "body" ELSE "operate"
<1>0. MaxBytes \in Nat
  BY HttpFits DEF Http!HttpAssumption
<1>1. CASE route.guard = "record" /\ Http!Session(q.ask.caller)
  <2> DEFINE s == [q EXCEPT !.at = "record"]
  <2>1. /\ s \in OneRequest /\ s.at = "record" /\ s.ask = q.ask /\ s.got = 0 /\ s.done = 0 /\ s.heads = <<>>
    BY DEF OneRequest
  <2>2. Http!Go(r, s)
    BY <1>1 DEF Http!Guard
  <2> HIDE DEF s
  <2>3. RequestFits(s)
    BY <1>0, <1>1, <2>1 DEF RequestFits
  <2> QED BY <2>1, <2>2, <2>3, RequestGoes
<1>2. CASE ~(route.guard = "record" /\ Http!Session(q.ask.caller))
  <2>1. PICK o \in Http!Outcomes(route.guard, q.ask.caller) :
          IF o # 0 THEN Http!Answer(r, q, o) ELSE Http!Go(r, [q EXCEPT !.guarded = TRUE, !.at = at])
    BY <1>2 DEF Http!Guard
  <2>2. CASE o # 0
    <3>1. o \in Nat /\ Http!Answer(r, q, o) /\ q.got <= MaxBytes
      BY <1>0, <2>1, <2>2, OutcomesAreStatuses
    <3> QED BY <3>1, RequestAnswered
  <2>3. CASE o = 0
    <3> DEFINE s == [q EXCEPT !.guarded = TRUE, !.at = at]
    <3>1. Http!Go(r, s) /\ at \in {"body", "operate"}
      BY <2>1, <2>3
    <3> HIDE DEF at
    <3>2. /\ s \in OneRequest /\ s.at = at /\ s.ask = q.ask /\ s.got = 0 /\ s.done = 0 /\ s.heads = <<>>
      BY <3>1 DEF OneRequest
    <3> HIDE DEF s
    <3>3. RequestFits(s)
      BY <1>0, <2>1, <2>3, <3>1, <3>2 DEF RequestFits, Passed
    <3> QED BY <3>1, <3>2, <3>3, RequestGoes
  <2> QED BY <2>2, <2>3
<1> QED BY <1>1, <1>2

LEMMA Arrives ==
  ASSUME HttpInv, NEW r \in Calls, Http!Arrive(r)
  PROVE  HttpInv'
<1>1. answering /\ call[r].at = "new" /\ MaxBytes \in Nat
  BY HttpFits DEF Http!Arrive, Http!At, Http!HttpAssumption
<1>2. PICK ask \in Asks :
        IF Http!Ingress(ask) # 0 THEN Http!Answer(r, Http!Fresh(ask), Http!Ingress(ask)) ELSE Http!Dispatch(r, Http!Fresh(ask))
  BY DEF Http!Arrive
<1>3. ask \in AskSet
  BY HttpFits DEF Http!HttpAssumption, AskSet
<1> DEFINE q == Http!Fresh(ask)
<1>4. q \in OneRequest /\ q.ask = ask /\ q.ask \in AskSet /\ q.got = 0 /\ q.done = 0 /\ q.heads = <<>>
      /\ q.got <= MaxBytes
  BY <1>1, <1>3 DEF Http!Fresh, OneRequest
<1>5. IF Http!Ingress(ask) # 0 THEN Http!Answer(r, q, Http!Ingress(ask)) ELSE Http!Dispatch(r, q)
  BY <1>2
<1> HIDE DEF q
<1>6. ASSUME NEW status \in Nat, Http!Answer(r, q, status) PROVE HttpInv'
  BY <1>1, <1>4, <1>6, RequestAnswered
<1>7. CASE Http!Ingress(ask) # 0
  BY <1>5, <1>6, <1>7 DEF Http!Ingress
<1>8. CASE Http!Ingress(ask) = 0
  <2>1. ask.host # "untrusted" /\ ask.origin # "untrusted" /\ Http!Dispatch(r, q)
    BY <1>5, <1>8 DEF Http!Ingress
  <2>2. CASE ask.method = "OPTIONS"
    BY <1>4, <1>6, <2>1, <2>2 DEF Http!Dispatch
  <2>3. CASE ask.method # "OPTIONS" /\ ask.route = "unknown"
    BY <1>4, <1>6, <2>1, <2>3 DEF Http!Dispatch
  <2>4. CASE ask.method # "OPTIONS" /\ ask.route # "unknown"
    <3>1. IF ask.method \in Http!Routes[ask.route].methods THEN Http!Guard(r, q)
          ELSE Http!Answer(r, q, IF Http!Routes[ask.route].conceals THEN 404 ELSE 405)
      BY <1>4, <2>1, <2>4 DEF Http!Dispatch
    <3>2. CASE ask.method \in Http!Routes[ask.route].methods
      <4>1. Http!Guard(r, q) /\ Admitted(q.ask)
        BY <1>4, <2>1, <3>1, <3>2 DEF Admitted
      <4> QED BY <1>1, <1>4, <4>1, Guarded
    <3>3. CASE ask.method \notin Http!Routes[ask.route].methods
      BY <1>6, <3>1, <3>3
    <3> QED BY <3>2, <3>3
  <2> QED BY <2>2, <2>3, <2>4
<1> QED BY <1>7, <1>8

\* What a step of a request starts from.
LEMMA OneRequestFits ==
  ASSUME HttpInv, NEW r \in Calls
  PROVE  call[r] \in OneRequest /\ RequestFits(call[r]) /\ MaxBytes \in Nat
BY HttpFits DEF HttpInv, Http!HttpAssumption

LEMMA RecordIsRead ==
  ASSUME HttpInv, NEW r \in Calls, Http!ReadRecord(r)
  PROVE  HttpInv'
<1> DEFINE q == call[r]
           at == IF q.ask.method \in Http!Routes[q.ask.route].reads THEN "body" ELSE "operate"
<1>1. answering /\ q.at = "record" /\ q \in OneRequest /\ RequestFits(q) /\ MaxBytes \in Nat
  BY OneRequestFits DEF Http!ReadRecord, Http!At
<1>2. /\ q.ask \in AskSet /\ q.got = 0 /\ q.done = 0 /\ q.heads = <<>> /\ q.got <= MaxBytes
      /\ Admitted(q.ask) /\ Http!Routes[q.ask.route].guard = "record"
  BY <1>1 DEF RequestFits
<1>3. PICK o \in Http!Outcomes("record", q.ask.caller) \cup {500} :
        IF o # 0 THEN Http!Answer(r, q, o) ELSE Http!Go(r, [q EXCEPT !.guarded = TRUE, !.at = at])
  BY DEF Http!ReadRecord
<1>4. CASE o # 0
  <2>1. o \in Nat /\ Http!Answer(r, q, o)
    BY <1>3, <1>4, OutcomesAreStatuses
  <2> HIDE DEF q
  <2> QED BY <1>1, <1>2, <2>1, RequestAnswered DEF q
<1>5. CASE o = 0
  <2> DEFINE s == [q EXCEPT !.guarded = TRUE, !.at = at]
  <2>1. Http!Go(r, s) /\ at \in {"body", "operate"} /\ 0 \in Http!Outcomes("record", q.ask.caller)
    BY <1>3, <1>5
  <2> HIDE DEF at
  <2>2. /\ s \in OneRequest /\ s.at = at /\ s.ask = q.ask /\ s.got = 0 /\ s.done = 0 /\ s.heads = <<>>
    BY <1>1, <1>2, <2>1 DEF OneRequest
  <2>3. Passed(q.ask)
    BY <1>2, <2>1 DEF Passed
  <2> HIDE DEF s
  <2>4. RequestFits(s)
    BY <1>1, <1>2, <2>1, <2>2, <2>3 DEF RequestFits
  <2>5. call[r].at # "over" /\ s.at # "over"
    BY <1>1, <2>1, <2>2
  <2> QED BY <2>1, <2>2, <2>4, <2>5, RequestGoes
<1> QED BY <1>4, <1>5

\* A body that is read.
LEMMA BodyIsRead ==
  ASSUME HttpInv, NEW r \in Calls
  PROVE  Http!Declared(r) \/ Http!Chunk(r) \/ Http!BodyEnds(r) \/ Http!BodyBreaks(r) => HttpInv'
<1> DEFINE q == call[r]
<1>0. q \in OneRequest /\ RequestFits(q) /\ MaxBytes \in Nat
  BY OneRequestFits
<1>1. SUFFICES ASSUME Http!Declared(r) \/ Http!Chunk(r) \/ Http!BodyEnds(r) \/ Http!BodyBreaks(r) PROVE HttpInv'
  OBVIOUS
<1>2. /\ answering /\ q.at = "body" /\ q.ask \in AskSet /\ q.done = 0 /\ q.heads = <<>> /\ q.got <= MaxBytes
      /\ Passed(q.ask) /\ q.got \in Nat /\ call[r].at # "over"
  BY <1>0, <1>1 DEF RequestFits, Http!Declared, Http!Chunk, Http!BodyEnds, Http!BodyBreaks, Http!At, OneRequest
\* It is answered,
<1>3. ASSUME NEW s \in OneRequest, s.ask \in AskSet, Passed(s.ask), s.got <= MaxBytes, s.heads = <<>>, s.done = 0,
             NEW status \in Nat, Http!Answer(r, s, status)
      PROVE  HttpInv'
  BY <1>2, <1>3, RequestAnswered
\* or it goes on.
<1>4. ASSUME NEW s \in OneRequest, s.ask \in AskSet, Passed(s.ask), s.got <= MaxBytes, s.heads = <<>>, s.done = 0,
             s.at \in {"body", "operate"}, Http!Go(r, s)
      PROVE  HttpInv'
  <2>1. RequestFits(s) /\ s.at # "over"
    BY <1>4 DEF RequestFits
  <2> QED BY <1>2, <1>4, <2>1, RequestGoes
<1>5. CASE Http!Declared(r)
  <2>1. CASE q.ask.declared > MaxBytes
    <3> DEFINE s == [q EXCEPT !.body = "resumed"]
    <3>1. s \in OneRequest /\ s.ask = q.ask /\ s.got = q.got /\ s.heads = q.heads /\ s.done = q.done
      BY <1>0 DEF OneRequest
    <3>2. Http!Answer(r, s, 413)
      BY <1>5, <2>1 DEF Http!Declared
    <3> HIDE DEF s
    <3> QED BY <1>2, <1>3, <3>1, <3>2
  <2>2. CASE ~(q.ask.declared > MaxBytes)
    <3> DEFINE s == [q EXCEPT !.body = "reading"]
    <3>1. s \in OneRequest /\ s.ask = q.ask /\ s.got = q.got /\ s.heads = q.heads /\ s.done = q.done /\ s.at = q.at
      BY <1>0 DEF OneRequest
    <3>2. Http!Go(r, s)
      BY <1>5, <2>2 DEF Http!Declared
    <3> HIDE DEF s
    <3> QED BY <1>2, <1>4, <3>1, <3>2
  <2> QED BY <2>1, <2>2
<1>6. CASE Http!Chunk(r)
  <2> DEFINE size == Head(q.ask.chunks)
             got == q.got
             total == got + size
             ask == [q.ask EXCEPT !.chunks = Tail(q.ask.chunks)]
             next == [q EXCEPT !.ask = ask]
  <2>1. q.ask.chunks \in Seq(Nat) /\ q.ask.chunks # <<>>
    BY <1>2, <1>6 DEF Http!Chunk, AskSet
  <2>2. Head(q.ask.chunks) \in Nat /\ Tail(q.ask.chunks) \in Seq(Nat)
    BY <2>1
  <2>3. ask \in AskSet /\ Passed(ask)
    <3>1. /\ ask \in AskSet /\ ask.host = q.ask.host /\ ask.origin = q.ask.origin /\ ask.route = q.ask.route
          /\ ask.method = q.ask.method /\ ask.caller = q.ask.caller
      BY <1>2, <2>2 DEF AskSet
    <3> HIDE DEF ask
    <3> QED BY <1>2, <3>1 DEF Passed, Admitted
  <2>4. /\ next \in OneRequest /\ next.ask = ask /\ next.got = q.got /\ next.heads = q.heads /\ next.done = q.done
        /\ next.at = q.at
    <3> HIDE DEF ask
    <3> QED BY <1>0, <2>3 DEF OneRequest
  <2>5. IF Http!TooMuch(total) THEN Http!Answer(r, [next EXCEPT !.body = "destroyed"], 413)
        ELSE Http!Go(r, [next EXCEPT !.got = total])
    BY <1>6 DEF Http!Chunk
  <2> HIDE DEF next, ask
  <2>6. CASE Http!TooMuch(total)
    <3> DEFINE s == [next EXCEPT !.body = "destroyed"]
    <3>1. s \in OneRequest /\ s.ask = ask /\ s.got = q.got /\ s.heads = q.heads /\ s.done = q.done
      BY <2>4 DEF OneRequest
    <3>2. Http!Answer(r, s, 413)
      BY <2>5, <2>6
    <3> HIDE DEF s
    <3> QED BY <1>2, <1>3, <2>3, <3>1, <3>2
  <2>7. CASE ~Http!TooMuch(total)
    <3> DEFINE s == [next EXCEPT !.got = total]
    <3>0. total \in Nat /\ ~(total > MaxBytes)
      <4>1. total \in Nat
        <5>1. got \in Nat /\ size \in Nat
          BY <1>2, <2>2
        <5> HIDE DEF got, size
        <5> QED BY <5>1
      <4> HIDE DEF total
      <4> QED BY <2>7, <4>1 DEF Http!TooMuch
    <3>2. Http!Go(r, s)
      BY <2>5, <2>7
    <3> HIDE DEF total
    <3>1. total <= MaxBytes
      BY <1>0, <3>0
    <3>3. s \in OneRequest /\ s.ask = ask /\ s.got = total /\ s.heads = q.heads /\ s.done = q.done /\ s.at = q.at
      BY <2>4, <3>0 DEF OneRequest
    <3> HIDE DEF s
    <3> QED BY <1>2, <1>4, <2>3, <3>1, <3>2, <3>3
  <2> QED BY <2>6, <2>7
<1>7. CASE Http!BodyEnds(r)
  <2> DEFINE e == [q EXCEPT !.body = "ended"]
             s == [e EXCEPT !.at = "operate"]
  <2>1. IF e.got > 0 /\ e.ask.form # "object" THEN Http!Answer(r, e, 400) ELSE Http!Go(r, s)
    BY <1>7 DEF Http!BodyEnds
  <2>2. e \in OneRequest /\ e.ask = q.ask /\ e.got = q.got /\ e.heads = q.heads /\ e.done = q.done
    BY <1>0 DEF OneRequest
  <2> HIDE DEF e
  <2>3. s \in OneRequest /\ s.ask = q.ask /\ s.got = q.got /\ s.heads = q.heads /\ s.done = q.done
        /\ s.at = "operate"
    BY <2>2 DEF OneRequest
  <2> HIDE DEF s
  <2> QED BY <1>2, <1>3, <1>4, <2>1, <2>2, <2>3
<1>8. CASE Http!BodyBreaks(r)
  <2> DEFINE e == [q EXCEPT !.body = "destroyed", !.client = FALSE]
  <2>1. Http!Answer(r, e, 500)
    BY <1>8 DEF Http!BodyBreaks
  <2>2. e \in OneRequest /\ e.ask = q.ask /\ e.got = q.got /\ e.heads = q.heads /\ e.done = q.done
    BY <1>0 DEF OneRequest
  <2> HIDE DEF e
  <2> QED BY <1>2, <1>3, <2>1, <2>2
<1> QED BY <1>1, <1>5, <1>6, <1>7, <1>8

\* A sequence of two.
LEMMA PairIsSequence == ASSUME NEW m \in Nat, NEW n \in Nat, NEW t \in Seq(Nat), Len(t) = 2, t[1] = m, t[2] = n PROVE t = <<m, n>>
OBVIOUS

LEMMA TwoStatuses == ASSUME NEW m \in Nat, NEW n \in Nat, NEW s \in Seq(Nat), s = <<m>> PROVE Append(s, n) = <<m, n>>
<1>1. Len(s) = 1 /\ s[1] = m
  OBVIOUS
<1> DEFINE t == Append(s, n)
<1>2. t \in Seq(Nat) /\ Len(t) = Len(s) + 1 /\ (\A i \in 1 .. Len(s) : t[i] = s[i]) /\ t[Len(s) + 1] = n
  BY ONLY s \in Seq(Nat), n \in Nat, AppendProperties
<1> HIDE DEF t
<1>3. Len(s) + 1 = 2 /\ 1 \in 1 .. Len(s)
  BY <1>1
<1>4. Len(t) = 2 /\ t[1] = m /\ t[2] = n
  BY <1>1, <1>2, <1>3
<1>5. t = <<m, n>>
  BY <1>2, <1>4, PairIsSequence
<1> QED BY <1>5 DEF t

LEMMA OperationIsDone ==
  ASSUME HttpInv, NEW r \in Calls
  PROVE  Http!ClientGoes(r) \/ Http!Operate(r) \/ Http!Busy(r) => HttpInv'
<1> DEFINE q == call[r]
           d == [q EXCEPT !.done = 1]
<1>0. q \in OneRequest /\ RequestFits(q) /\ MaxBytes \in Nat
  BY OneRequestFits
<1>1. SUFFICES ASSUME Http!ClientGoes(r) \/ Http!Operate(r) \/ Http!Busy(r) PROVE HttpInv'
  OBVIOUS
<1>2. /\ answering /\ q.at = "operate" /\ q.ask \in AskSet /\ q.done = 0 /\ q.heads = <<>> /\ q.got <= MaxBytes
      /\ Passed(q.ask) /\ q.got \in Nat /\ call[r].at # "over"
  BY <1>0, <1>1 DEF RequestFits, Http!ClientGoes, Http!Operate, Http!Busy, Http!At, OneRequest
<1>3. d = [q EXCEPT !.done = q.done + 1]
  BY <1>2
<1>4. d \in OneRequest /\ d.ask = q.ask /\ d.got = q.got /\ d.heads = q.heads /\ d.done = 1
  BY <1>0 DEF OneRequest
<1>5. CASE Http!ClientGoes(r)
  <2> DEFINE s == [q EXCEPT !.client = FALSE]
  <2>1. /\ s \in OneRequest /\ s.ask = q.ask /\ s.got = q.got /\ s.heads = q.heads /\ s.done = q.done
        /\ s.at = q.at /\ Http!Go(r, s)
    BY <1>0, <1>5 DEF OneRequest, Http!ClientGoes
  <2> HIDE DEF s
  <2>2. RequestFits(s) /\ s.at # "over"
    BY <1>2, <2>1 DEF RequestFits
  <2> QED BY <1>2, <2>1, <2>2, RequestGoes
<1>6. CASE Http!Operate(r)
  <2>1. PICK status \in {200, 500, 400, 403, 409} : Http!Answer(r, [q EXCEPT !.done = q.done + 1], status)
    BY <1>6 DEF Http!Operate
  <2>2. Http!Answer(r, d, status) /\ status \in Nat
    BY <1>3, <2>1
  <2> HIDE DEF d
  <2> QED BY <1>2, <1>4, <2>2, RequestAnswered
<1>7. CASE Http!Busy(r)
  <2>1. PICK returned \in BOOLEAN : Http!End(r, Http!BusyThen([q EXCEPT !.done = q.done + 1], returned))
    BY <1>7 DEF Http!Busy
  <2>2. Http!End(r, Http!BusyThen(d, returned)) /\ q.ask.route = "login"
    BY <1>3, <1>7, <2>1 DEF Http!Busy
  <2> HIDE DEF d
  <2>3. CASE returned
    <3>1. Http!Answer(r, d, 429)
      BY <2>2, <2>3 DEF Http!BusyThen, Http!Answer
    <3> QED BY <1>2, <1>4, <3>1, RequestAnswered
  <2>4. CASE ~returned
    <3>1. PICK m \in Nat, n \in Nat : m = 429 /\ n = 500
      OBVIOUS
    <3> DEFINE s == Http!Send(d, m)
               e == Http!Send(s, n)
    <3>2. Http!End(r, e)
      BY <2>2, <2>4, <3>1 DEF Http!BusyThen
    <3>3. s \in OneRequest /\ s.ask = d.ask /\ s.got = d.got /\ s.heads = Append(d.heads, m) /\ s.done = d.done
      BY <1>4, SentFits
    <3> HIDE DEF s
    <3>4. s.heads = <<m>>
      BY <1>2, <1>4, <3>3
    <3>5. e \in OneRequest /\ e.ask = s.ask /\ e.got = s.got /\ e.heads = Append(s.heads, n) /\ e.done = s.done
          /\ e.status = n
      BY <3>3, SentFits
    <3> HIDE DEF e
    <3>6. ToldTwice(e)
      <4>1. e.heads = <<m, n>>
        <5>1. s.heads \in Seq(Nat)
          BY <3>3 DEF OneRequest
        <5> QED BY <3>4, <3>5, <5>1, TwoStatuses
      <4>2. e.heads = <<429, 500>>
        BY <3>1, <4>1, Zenon
      <4>3. e.ask.route = "login"
        BY <1>4, <2>2, <3>3, <3>5
      <4> QED BY <4>2, <4>3, Zenon DEF ToldTwice
    <3>7. EndFits(e)
      BY <1>2, <1>4, <3>3, <3>5, <3>6 DEF EndFits
    <3> QED BY <1>2, <3>2, <3>7, RequestEnds
  <2> QED BY <2>3, <2>4
<1> QED BY <1>1, <1>5, <1>6, <1>7

LEMMA HttpStep ==
  ASSUME HttpInv, [Http!Next]_httpVars
  PROVE  HttpInv'
<1>1. CASE Http!Next
  BY <1>1, Arrives, RecordIsRead, BodyIsRead, OperationIsDone DEF Http!Next
<1>2. CASE UNCHANGED httpVars
  <2>1. UNCHANGED <<call, counts, latency, answering>>
    BY <1>2 DEF httpVars
  <2>2. Http!Over' = Http!Over
    BY <2>1 DEF Http!Over
  <2>3. Tooks' = Tooks /\ \A k : With(k)' = With(k) /\ Within(k)' = Within(k) /\ Http!Rendered(k)' = Http!Rendered(k)
    BY <2>1, <2>2 DEF Tooks, With, Within, Http!Rendered, KeyOf
  <2>4. CountsFit' /\ LatencyFits'
    BY <2>1, <2>2, <2>3 DEF HttpInv, CountsFit, LatencyFits, KeyOf
  <2>5. (\A r \in Calls : RequestFits(call[r]))'
    BY <2>1 DEF HttpInv, RequestFits
  <2> QED BY <2>1, <2>2, <2>4, <2>5 DEF HttpInv
<1> QED BY <1>1, <1>2

LEMMA RequestsSound ==
  ASSUME HttpInv
  PROVE  Http!RequestsAreSound
<1>1. Http!MetricsAgree
  <2>1. \A key : With(key) = {r \in Http!Over : [method |-> Http!MethodLabel(call[r].ask.method),
                   path |-> Http!PathLabel(call[r].ask.route), status |-> call[r].status] = key}
    BY DEF With, KeyOf
  <2>2. \A k : Within(k) = {r \in Http!Over : call[r].took <= Buckets[k]}
    BY DEF Within
  <2> QED BY <2>1, <2>2, HttpCardinality DEF HttpInv, CountsFit, LatencyFits, Http!MetricsAgree, Tooks
<1>2. Http!AnsweredOnce
  BY DEF HttpInv, Http!AnsweredOnce, RequestFits, Http!Over, ToldTwice
<1>3. Http!RefusedUntouched
  <2>1. ASSUME NEW r \in Calls, call[r].done > 0 \/ call[r].got > 0
        PROVE  Passed(call[r].ask) /\ call[r].done <= 1
    BY <2>1, OneRequestFits DEF RequestFits, OneRequest
  <2> QED BY <2>1 DEF Http!RefusedUntouched, Passed, Admitted
<1>4. Http!BodiesAreBounded
  BY DEF HttpInv, Http!BodiesAreBounded, RequestFits
<1> QED BY <1>1, <1>2, <1>3, <1>4 DEF Http!RequestsAreSound

(* Whatever fails, is lost or comes at the same time, every request is       *)
(* answered once and counted as it was answered, no more of a body is read    *)
(* than may be, what was refused did nothing; every transfer gives back its  *)
(* slot, its lease and its file, and sends what its caller may have          *)
(* (serveDownload, handleRequest, readJsonBody, ApiMetrics).                 *)
THEOREM AnswersStaySound == Spec => []AnswersAreSound
<1> DEFINE D == which = "downloads" => DownloadInv
           H == which = "http" => HttpInv
<1>1. Init => D /\ H
  BY DownloadStarts, HttpStarts DEF Init
<1>2. D /\ [Next]_vars => D'
  BY WhichStays, DownloadSteps, DownloadStep
<1>3. H /\ [Next]_vars => H'
  BY WhichStays, HttpSteps, HttpStep
<1>4. D /\ H => AnswersAreSound
  BY DownloadsSound, RequestsSound DEF AnswersAreSound
<1> QED BY <1>1, <1>2, <1>3, <1>4, PTL DEF Spec

-----------------------------------------------------------------------------
(* The life of the process                                                 *)

\* A pass of the recovery runs while the process serves or goes down; what is
\* closed is closed after the last one.
RuntimeInv ==
  /\ pass \in [running : {0, 1}, started : Int]
  /\ phase \in {"checking", "initializing"} => pass.running = 0
  /\ timers # {} => phase \in {"serving", "stopping"}
  /\ open # Runtime!Stores => phase = "awaiting" /\ pass.running = 0

\* Every step of the process keeps its invariant.
LEMMA RuntimeStep ==
  ASSUME RuntimeInv, [Runtime!Next]_runtimeVars
  PROVE  RuntimeInv'
<1>1. CASE Runtime!CheckDependencies
  BY <1>1 DEF Runtime!CheckDependencies, RuntimeInv, Runtime!Stores
<1>2. CASE Runtime!FirstRecovery
  BY <1>2 DEF Runtime!FirstRecovery, RuntimeInv, Runtime!Stores
<1>3. CASE Runtime!FirstRecoveryEnds
  BY <1>3 DEF Runtime!FirstRecoveryEnds, RuntimeInv, Runtime!Stores
<1>4. CASE Runtime!CleanupTimer
  BY <1>4 DEF Runtime!CleanupTimer, Runtime!MayRecover, RuntimeInv, Runtime!Stores
<1>5. CASE Runtime!PassEnds
  BY <1>5 DEF Runtime!PassEnds, RuntimeInv, Runtime!Stores
<1>6. CASE Runtime!MetricsTimer \/ Runtime!RefreshEnds
  BY <1>6 DEF Runtime!MetricsTimer, Runtime!RefreshEnds, RuntimeInv, Runtime!Stores
<1>7. CASE \E r \in Requests : Runtime!Arrives(r) \/ Runtime!Ends(r) \/ Runtime!checkReadiness(r)
  BY <1>7 DEF Runtime!Arrives, Runtime!Ends, Runtime!checkReadiness, RuntimeInv, Runtime!Stores
<1>8. CASE Runtime!Shutdown \/ Runtime!closeRuntime
  BY <1>8 DEF Runtime!Shutdown, Runtime!closeRuntime, RuntimeInv, Runtime!Stores
<1>9. CASE Runtime!CloseNext
  BY <1>9 DEF Runtime!CloseNext, Runtime!PassAwaited, RuntimeInv, Runtime!Stores
<1>10. CASE UNCHANGED runtimeVars
  BY <1>10 DEF runtimeVars, RuntimeInv, Runtime!Stores
<1> QED BY <1>1, <1>2, <1>3, <1>4, <1>5, <1>6, <1>7, <1>8, <1>9, <1>10 DEF Runtime!Next

(* The recovery of media runs once at a time, the first before any timer is *)
(* set, and no store is closed under it (index.ts, its start, the cleanup   *)
(* timer and closeRuntime).                                                *)
THEOREM RecoveryStaysAlone == Spec => []RecoveryIsAlone
<1> DEFINE I == which = "runtime" => RuntimeInv
<1>1. Init => I
  BY DEF Init, Runtime!Init, RuntimeInv, Runtime!Stores
<1>2. I /\ [Next]_vars => I'
  BY WhichStays, RuntimeSteps, RuntimeStep
<1>3. I => RecoveryIsAlone
  BY DEF RecoveryIsAlone, Runtime!RecoveryIsAlone, RuntimeInv
<1> QED BY <1>1, <1>2, <1>3, PTL DEF Spec

-----------------------------------------------------------------------------
(* The key pair of the lab                                                 *)

Free == {"off", "load", "lock"}
Making == {"write", "linkPrivate", "linkPublic", "clean", "undo"}
Holding == Making \cup {"inspect", "release"}

Pairs == 1 .. made
KeyTypes ==
  /\ made \in 0 .. MaxPairs
  /\ private \in Pairs \cup {None} /\ public \in Pairs \cup {None}
  /\ lock \in Processes \cup {None}
  /\ temporaries \subseteq LabKeyPair!Halves \X Pairs
  /\ proc \in [Processes -> [pc : Free \cup Holding, pair : Pairs \cup {None}, committed : BOOLEAN]]
  /\ keys \in [Processes -> Pairs \cup {None}]
  /\ damaged \in BOOLEAN

\* What a process knows of the directory where it is.
PlaceFits(place, p) ==
  /\ place.pc \in Holding => lock = p
  /\ place.pc \in Making => place.pair = made /\ made # 0
  /\ place.pc \in Free \cup {"inspect"} => place.pair = None /\ ~place.committed
  /\ place.pc \in {"write", "linkPrivate"} => private = None /\ public = None
  /\ place.pc = "linkPublic" => private = made /\ public = None
  /\ place.pc \in {"write", "linkPrivate", "linkPublic"} => ~place.committed
  /\ place.pc = "clean" => place.committed
  /\ place.pc \in {"clean", "undo"} /\ place.committed => private = made /\ public = made
  /\ place.pc = "undo" /\ ~place.committed => private \in {None, made} /\ public = None

KeysFit ==
  \A p \in Processes : keys[p] # None =>
    proc[p].pc \in {"off", "release"} /\ private = keys[p] /\ public = keys[p]

\* Without damage, what lies about is in somebody's hands.
Traces ==
  ~damaged =>
    /\ lock # None => proc[lock].pc \in Holding
    /\ \A t \in temporaries : \E p \in Processes : proc[p].pc \in Making /\ t[2] = proc[p].pair
    /\ LabKeyPair!Inspected = "partial" => \E p \in Processes : proc[p].pc \in {"linkPublic", "undo"}

PlacesFit == \A p \in Processes : PlaceFits(proc[p], p)
KeyInv == KeyTypes /\ PlacesFit /\ KeysFit /\ Traces

\* What the constants are assumed to be: None is neither a key nor a process.
LEMMA NoneIsNoKey == MaxPairs \in Nat /\ None \notin 0 .. MaxPairs /\ None \notin Processes
BY Bounds DEF LabKeyPair!KeysAssumption

\* Every step around the lab's keys keeps their invariant.
LEMMA KeyStep ==
  ASSUME KeyInv, [LabKeyPair!Next]_keyVars
  PROVE  KeyInv'
<1> USE NoneIsNoKey
<1>1. ASSUME NEW p \in Processes, LabKeyPair!Start(p) PROVE KeyInv'
  <2>1. KeyTypes'
    BY <1>1
    DEF LabKeyPair!Start, LabKeyPair!At, LabKeyPair!Goto, LabKeyPair!dir, KeyInv,
        KeyTypes, Pairs, Free, Making, Holding, PlacesFit, PlaceFits
  <2>2. PlacesFit'
    BY <1>1
    DEF LabKeyPair!Start, LabKeyPair!At, LabKeyPair!Goto, LabKeyPair!dir, KeyInv,
        KeyTypes, Pairs, Free, Making, Holding, PlacesFit, PlaceFits
  <2>3. KeysFit'
    BY <1>1
    DEF LabKeyPair!Start, LabKeyPair!At, LabKeyPair!Goto, LabKeyPair!dir, KeyInv,
        KeyTypes, Pairs, Free, Making, Holding, PlacesFit, PlaceFits, KeysFit
  <2>4. Traces'
    BY <1>1
    DEF LabKeyPair!Start, LabKeyPair!At, LabKeyPair!Goto, LabKeyPair!dir,
        LabKeyPair!Inspected, KeyInv, KeyTypes, Pairs, Free, Making, Holding,
        PlacesFit, PlaceFits, Traces
  <2> QED BY <2>1, <2>2, <2>3, <2>4 DEF KeyInv
<1>2. ASSUME NEW p \in Processes, LabKeyPair!LoadPair(p) PROVE KeyInv'
  <2>1. KeyTypes'
    BY <1>2
    DEF LabKeyPair!LoadPair, LabKeyPair!At, LabKeyPair!Goto, LabKeyPair!dir, KeyInv,
        KeyTypes, Pairs, Free, Making, Holding, PlacesFit, PlaceFits, LabKeyPair!Loads
  <2>2. PlacesFit'
    BY <1>2
    DEF LabKeyPair!LoadPair, LabKeyPair!At, LabKeyPair!Goto, LabKeyPair!dir, KeyInv,
        KeyTypes, Pairs, Free, Making, Holding, PlacesFit, PlaceFits, LabKeyPair!Loads
  <2>3. KeysFit'
    BY <1>2
    DEF LabKeyPair!LoadPair, LabKeyPair!At, LabKeyPair!Goto, LabKeyPair!dir, KeyInv,
        KeyTypes, Pairs, Free, Making, Holding, PlacesFit, PlaceFits, KeysFit,
        LabKeyPair!Loads
  <2>4. Traces'
    BY <1>2
    DEF LabKeyPair!LoadPair, LabKeyPair!At, LabKeyPair!Goto, LabKeyPair!dir,
        LabKeyPair!Inspected, KeyInv, KeyTypes, Pairs, Free, Making, Holding,
        PlacesFit, PlaceFits, Traces, LabKeyPair!Loads
  <2> QED BY <2>1, <2>2, <2>3, <2>4 DEF KeyInv
<1>3. ASSUME NEW p \in Processes, LabKeyPair!AcquireLock(p) PROVE KeyInv'
  <2>1. KeyTypes'
    BY <1>3
    DEF LabKeyPair!AcquireLock, LabKeyPair!At, LabKeyPair!Goto, LabKeyPair!dir,
        KeyInv, KeyTypes, Pairs, Free, Making, Holding, PlacesFit, PlaceFits
  <2>2. PlacesFit'
    BY <1>3
    DEF LabKeyPair!AcquireLock, LabKeyPair!At, LabKeyPair!Goto, LabKeyPair!dir,
        KeyInv, KeyTypes, Pairs, Free, Making, Holding, PlacesFit, PlaceFits
  <2>3. KeysFit'
    BY <1>3
    DEF LabKeyPair!AcquireLock, LabKeyPair!At, LabKeyPair!Goto, LabKeyPair!dir,
        KeyInv, KeyTypes, Pairs, Free, Making, Holding, PlacesFit, PlaceFits, KeysFit
  <2>4. Traces'
    BY <1>3
    DEF LabKeyPair!AcquireLock, LabKeyPair!At, LabKeyPair!Goto, LabKeyPair!dir,
        LabKeyPair!Inspected, KeyInv, KeyTypes, Pairs, Free, Making, Holding,
        PlacesFit, PlaceFits, Traces
  <2> QED BY <2>1, <2>2, <2>3, <2>4 DEF KeyInv
<1>4. ASSUME NEW p \in Processes, LabKeyPair!InspectLocked(p) PROVE KeyInv'
  <2>1. KeyTypes'
    <3>1. /\ made' \in 0 .. MaxPairs /\ made' \in {made, made + 1} /\ keys' \in [Processes -> Pairs \cup {None}]
          /\ UNCHANGED <<private, public, lock, temporaries, damaged>>
      BY <1>4
      DEF LabKeyPair!InspectLocked, LabKeyPair!Goto, LabKeyPair!dir, LabKeyPair!Loads,
          KeyInv, KeyTypes, Pairs
    <3>2. Pairs \subseteq Pairs'
      BY <3>1 DEF Pairs, KeyInv, KeyTypes
    <3>3. \/ proc' = [proc EXCEPT ![p].pc = "release"]
          \/ proc' = [proc EXCEPT ![p] = [pc |-> "write", pair |-> made', committed |-> FALSE]] /\ made' \in Pairs'
      BY <1>4 DEF LabKeyPair!InspectLocked, LabKeyPair!Goto, Pairs, KeyInv, KeyTypes
    <3>4. proc' \in [Processes -> [pc : Free \cup Holding, pair : (Pairs \cup {None})', committed : BOOLEAN]]
      <4> DEFINE Place == [pc : Free \cup Holding, pair : (Pairs \cup {None})', committed : BOOLEAN]
                 place == [pc |-> "write", pair |-> made', committed |-> FALSE]
      <4>1. \A q \in Processes : proc[q] \in Place /\ [proc[q] EXCEPT !.pc = "release"] \in Place
        BY <3>2 DEF KeyInv, KeyTypes, Holding
      <4>2. made' \in Pairs' => place \in Place
        BY DEF Holding, Making
      <4>3. proc = [q \in Processes |-> proc[q]]
        BY DEF KeyInv, KeyTypes
      <4> HIDE DEF Place, place
      <4>4. \/ proc' = [proc EXCEPT ![p] = [proc[p] EXCEPT !.pc = "release"]]
            \/ proc' = [proc EXCEPT ![p] = place] /\ made' \in Pairs'
        BY <3>3, <4>3 DEF place
      <4>5. proc' \in [Processes -> Place]
        BY <4>1, <4>2, <4>3, <4>4
      <4> QED BY <4>5 DEF Place
    <3> QED BY <3>1, <3>2, <3>4 DEF KeyInv, KeyTypes
  <2>2. PlacesFit'
    BY <1>4
    DEF LabKeyPair!InspectLocked, LabKeyPair!At, LabKeyPair!Goto, LabKeyPair!dir,
        KeyInv, KeyTypes, Pairs, Free, Making, Holding, PlacesFit, PlaceFits,
        LabKeyPair!Loads, LabKeyPair!Inspected
  <2>3. KeysFit'
    BY <1>4
    DEF LabKeyPair!InspectLocked, LabKeyPair!At, LabKeyPair!Goto, LabKeyPair!dir,
        KeyInv, KeyTypes, Pairs, Free, Making, Holding, PlacesFit, PlaceFits, KeysFit,
        LabKeyPair!Loads, LabKeyPair!Inspected
  <2>4. Traces'
    BY <1>4
    DEF LabKeyPair!InspectLocked, LabKeyPair!At, LabKeyPair!Goto, LabKeyPair!dir,
        LabKeyPair!Inspected, KeyInv, KeyTypes, Pairs, Free, Making, Holding,
        PlacesFit, PlaceFits, Traces, LabKeyPair!Loads
  <2> QED BY <2>1, <2>2, <2>3, <2>4 DEF KeyInv
<1>5. ASSUME NEW p \in Processes, LabKeyPair!LinkPrivate(p) PROVE KeyInv'
  <2>1. KeyTypes'
    BY <1>5
    DEF LabKeyPair!LinkPrivate, LabKeyPair!At, LabKeyPair!Goto, LabKeyPair!dir,
        KeyInv, KeyTypes, Pairs, Free, Making, Holding, PlacesFit, PlaceFits
  <2>2. PlacesFit'
    BY <1>5
    DEF LabKeyPair!LinkPrivate, LabKeyPair!At, LabKeyPair!Goto, LabKeyPair!dir,
        KeyInv, KeyTypes, Pairs, Free, Making, Holding, PlacesFit, PlaceFits
  <2>3. KeysFit'
    BY <1>5
    DEF LabKeyPair!LinkPrivate, LabKeyPair!At, LabKeyPair!Goto, LabKeyPair!dir,
        KeyInv, KeyTypes, Pairs, Free, Making, Holding, PlacesFit, PlaceFits, KeysFit
  <2>4. Traces'
    BY <1>5
    DEF LabKeyPair!LinkPrivate, LabKeyPair!At, LabKeyPair!Goto, LabKeyPair!dir,
        LabKeyPair!Inspected, KeyInv, KeyTypes, Pairs, Free, Making, Holding,
        PlacesFit, PlaceFits, Traces
  <2> QED BY <2>1, <2>2, <2>3, <2>4 DEF KeyInv
<1>6. ASSUME NEW p \in Processes, LabKeyPair!LinkPublic(p) PROVE KeyInv'
  <2>1. KeyTypes'
    BY <1>6
    DEF LabKeyPair!LinkPublic, LabKeyPair!At, LabKeyPair!Goto, LabKeyPair!dir, KeyInv,
        KeyTypes, Pairs, Free, Making, Holding, PlacesFit, PlaceFits
  <2>2. PlacesFit'
    BY <1>6
    DEF LabKeyPair!LinkPublic, LabKeyPair!At, LabKeyPair!Goto, LabKeyPair!dir, KeyInv,
        KeyTypes, Pairs, Free, Making, Holding, PlacesFit, PlaceFits
  <2>3. KeysFit'
    BY <1>6
    DEF LabKeyPair!LinkPublic, LabKeyPair!At, LabKeyPair!Goto, LabKeyPair!dir, KeyInv,
        KeyTypes, Pairs, Free, Making, Holding, PlacesFit, PlaceFits, KeysFit
  <2>4. Traces'
    BY <1>6
    DEF LabKeyPair!LinkPublic, LabKeyPair!At, LabKeyPair!Goto, LabKeyPair!dir,
        LabKeyPair!Inspected, KeyInv, KeyTypes, Pairs, Free, Making, Holding,
        PlacesFit, PlaceFits, Traces
  <2> QED BY <2>1, <2>2, <2>3, <2>4 DEF KeyInv
<1>7. ASSUME NEW p \in Processes, LabKeyPair!CleanTemporaries(p) PROVE KeyInv'
  <2>1. KeyTypes'
    BY <1>7
    DEF LabKeyPair!CleanTemporaries, LabKeyPair!At, LabKeyPair!Goto, LabKeyPair!dir,
        KeyInv, KeyTypes, Pairs, Free, Making, Holding, PlacesFit, PlaceFits,
        LabKeyPair!Mine
  <2>2. PlacesFit'
    BY <1>7
    DEF LabKeyPair!CleanTemporaries, LabKeyPair!At, LabKeyPair!Goto, LabKeyPair!dir,
        KeyInv, KeyTypes, Pairs, Free, Making, Holding, PlacesFit, PlaceFits,
        LabKeyPair!Mine
  <2>3. KeysFit'
    BY <1>7
    DEF LabKeyPair!CleanTemporaries, LabKeyPair!At, LabKeyPair!Goto, LabKeyPair!dir,
        KeyInv, KeyTypes, Pairs, Free, Making, Holding, PlacesFit, PlaceFits, KeysFit,
        LabKeyPair!Mine
  <2>4. Traces'
    BY <1>7
    DEF LabKeyPair!CleanTemporaries, LabKeyPair!At, LabKeyPair!Goto, LabKeyPair!dir,
        LabKeyPair!Inspected, KeyInv, KeyTypes, Pairs, Free, Making, Holding,
        PlacesFit, PlaceFits, Traces, LabKeyPair!Mine
  <2> QED BY <2>1, <2>2, <2>3, <2>4 DEF KeyInv
<1>8. ASSUME NEW p \in Processes, LabKeyPair!PublishFails(p) PROVE KeyInv'
  <2>1. KeyTypes'
    BY <1>8
    DEF LabKeyPair!PublishFails, LabKeyPair!At, LabKeyPair!Goto, LabKeyPair!dir,
        KeyInv, KeyTypes, Pairs, Free, Making, Holding, PlacesFit, PlaceFits
  <2>2. PlacesFit'
    BY <1>8
    DEF LabKeyPair!PublishFails, LabKeyPair!At, LabKeyPair!Goto, LabKeyPair!dir,
        KeyInv, KeyTypes, Pairs, Free, Making, Holding, PlacesFit, PlaceFits
  <2>3. KeysFit'
    BY <1>8
    DEF LabKeyPair!PublishFails, LabKeyPair!At, LabKeyPair!Goto, LabKeyPair!dir,
        KeyInv, KeyTypes, Pairs, Free, Making, Holding, PlacesFit, PlaceFits, KeysFit
  <2>4. Traces'
    BY <1>8
    DEF LabKeyPair!PublishFails, LabKeyPair!At, LabKeyPair!Goto, LabKeyPair!dir,
        LabKeyPair!Inspected, KeyInv, KeyTypes, Pairs, Free, Making, Holding,
        PlacesFit, PlaceFits, Traces
  <2> QED BY <2>1, <2>2, <2>3, <2>4 DEF KeyInv
<1>9. ASSUME NEW p \in Processes, LabKeyPair!Undo(p) PROVE KeyInv'
  <2>1. KeyTypes'
    BY <1>9
    DEF LabKeyPair!Undo, LabKeyPair!At, LabKeyPair!Goto, LabKeyPair!dir, KeyInv,
        KeyTypes, Pairs, Free, Making, Holding, PlacesFit, PlaceFits, LabKeyPair!Mine,
        LabKeyPair!TakesBack, LabKeyPair!Halves
  <2>2. PlacesFit'
    BY <1>9
    DEF LabKeyPair!Undo, LabKeyPair!At, LabKeyPair!Goto, LabKeyPair!dir, KeyInv,
        KeyTypes, Pairs, Free, Making, Holding, PlacesFit, PlaceFits, LabKeyPair!Mine,
        LabKeyPair!TakesBack, LabKeyPair!Halves
  <2>3. KeysFit'
    BY <1>9
    DEF LabKeyPair!Undo, LabKeyPair!At, LabKeyPair!Goto, LabKeyPair!dir, KeyInv,
        KeyTypes, Pairs, Free, Making, Holding, PlacesFit, PlaceFits, KeysFit,
        LabKeyPair!Mine, LabKeyPair!TakesBack, LabKeyPair!Halves
  <2>4. Traces'
    <3>1. SUFFICES ASSUME ~damaged' PROVE Traces'
      BY DEF Traces
    <3>2. ~damaged /\ temporaries' = temporaries \ LabKeyPair!Mine(p)
          /\ \/ ~proc[p].committed /\ private' = None /\ public' = None
             \/ proc[p].committed /\ private' = made /\ public' = made
      BY <1>9, <3>1
      DEF LabKeyPair!Undo, LabKeyPair!At, LabKeyPair!TakesBack, LabKeyPair!Halves,
                        KeyInv, KeyTypes, PlacesFit, PlaceFits, Making, Holding
    <3>3. lock' = p /\ proc'[p].pc = "release"
      BY <1>9
      DEF LabKeyPair!Undo, LabKeyPair!At, LabKeyPair!Goto, KeyInv, KeyTypes,
          PlacesFit, PlaceFits, Making, Holding
    <3>4. temporaries' = {}
      <4>1. ASSUME NEW t \in temporaries PROVE t \in LabKeyPair!Mine(p)
        <5>1. PICK q \in Processes : proc[q].pc \in Making /\ t[2] = proc[q].pair
          BY <3>2 DEF KeyInv, Traces
        <5>2. q = p
          BY <1>9, <5>1
          DEF LabKeyPair!Undo, LabKeyPair!At, KeyInv, PlacesFit, PlaceFits, Making,
              Holding
        <5> QED BY <5>1, <5>2 DEF LabKeyPair!Mine, KeyInv, KeyTypes
      <4> QED BY <3>2, <4>1
    <3>5. LabKeyPair!Inspected' # "partial"
      BY <3>2 DEF LabKeyPair!Inspected
    <3> QED BY <3>3, <3>4, <3>5 DEF Traces, Holding
  <2> QED BY <2>1, <2>2, <2>3, <2>4 DEF KeyInv
<1>10. ASSUME NEW p \in Processes, LabKeyPair!ReleaseLock(p) PROVE KeyInv'
  <2>1. KeyTypes'
    BY <1>10
    DEF LabKeyPair!ReleaseLock, LabKeyPair!At, LabKeyPair!Goto, LabKeyPair!dir,
        KeyInv, KeyTypes, Pairs, Free, Making, Holding, PlacesFit, PlaceFits,
        LabKeyPair!Off
  <2>2. PlacesFit'
    BY <1>10
    DEF LabKeyPair!ReleaseLock, LabKeyPair!At, LabKeyPair!Goto, LabKeyPair!dir,
        KeyInv, KeyTypes, Pairs, Free, Making, Holding, PlacesFit, PlaceFits,
        LabKeyPair!Off
  <2>3. KeysFit'
    BY <1>10
    DEF LabKeyPair!ReleaseLock, LabKeyPair!At, LabKeyPair!Goto, LabKeyPair!dir,
        KeyInv, KeyTypes, Pairs, Free, Making, Holding, PlacesFit, PlaceFits, KeysFit,
        LabKeyPair!Off
  <2>4. Traces'
    BY <1>10
    DEF LabKeyPair!ReleaseLock, LabKeyPair!At, LabKeyPair!Goto, LabKeyPair!dir,
        LabKeyPair!Inspected, KeyInv, KeyTypes, Pairs, Free, Making, Holding,
        PlacesFit, PlaceFits, Traces, LabKeyPair!Off
  <2> QED BY <2>1, <2>2, <2>3, <2>4 DEF KeyInv
<1>11. ASSUME NEW p \in Processes, LabKeyPair!Crash(p) PROVE KeyInv'
  <2>1. KeyTypes'
    BY <1>11
    DEF LabKeyPair!Crash, LabKeyPair!At, LabKeyPair!Goto, LabKeyPair!dir, KeyInv,
        KeyTypes, Pairs, Free, Making, Holding, PlacesFit, PlaceFits, LabKeyPair!Off
  <2>2. PlacesFit'
    BY <1>11
    DEF LabKeyPair!Crash, LabKeyPair!At, LabKeyPair!Goto, LabKeyPair!dir, KeyInv,
        KeyTypes, Pairs, Free, Making, Holding, PlacesFit, PlaceFits, LabKeyPair!Off
  <2>3. KeysFit'
    BY <1>11
    DEF LabKeyPair!Crash, LabKeyPair!At, LabKeyPair!Goto, LabKeyPair!dir, KeyInv,
        KeyTypes, Pairs, Free, Making, Holding, PlacesFit, PlaceFits, KeysFit,
        LabKeyPair!Off
  <2>4. Traces'
    BY <1>11
    DEF LabKeyPair!Crash, LabKeyPair!At, LabKeyPair!Goto, LabKeyPair!dir,
        LabKeyPair!Inspected, KeyInv, KeyTypes, Pairs, Free, Making, Holding,
        PlacesFit, PlaceFits, Traces, LabKeyPair!Off
  <2> QED BY <2>1, <2>2, <2>3, <2>4 DEF KeyInv
<1>20. ASSUME NEW p \in Processes, NEW half \in LabKeyPair!Halves, LabKeyPair!WriteTemporary(p, half) PROVE KeyInv'
  <2>1. KeyTypes'
    BY <1>20
    DEF LabKeyPair!WriteTemporary, LabKeyPair!At, LabKeyPair!Goto, KeyInv, KeyTypes,
        Pairs, Free, Making, Holding, PlacesFit, PlaceFits
  <2>2. PlacesFit'
    BY <1>20
    DEF LabKeyPair!WriteTemporary, LabKeyPair!At, LabKeyPair!Goto, KeyInv, KeyTypes,
        Pairs, Free, Making, Holding, PlacesFit, PlaceFits
  <2>3. KeysFit'
    BY <1>20
    DEF LabKeyPair!WriteTemporary, LabKeyPair!At, LabKeyPair!Goto, KeyInv, KeyTypes,
        Pairs, Free, Making, Holding, PlacesFit, PlaceFits, KeysFit
  <2>4. Traces'
    BY <1>20
    DEF LabKeyPair!WriteTemporary, LabKeyPair!At, LabKeyPair!Goto,
        LabKeyPair!Inspected, KeyInv, KeyTypes, Pairs, Free, Making, Holding,
        PlacesFit, PlaceFits, Traces
  <2> QED BY <2>1, <2>2, <2>3, <2>4 DEF KeyInv
<1>21. CASE UNCHANGED keyVars
  BY <1>21
  DEF keyVars, KeyInv, KeyTypes, PlacesFit, PlaceFits, KeysFit, Traces, Pairs,
      LabKeyPair!Inspected
<1> QED BY <1>1, <1>2, <1>3, <1>4, <1>5, <1>6, <1>7, <1>8, <1>9, <1>10, <1>11, <1>20, <1>21
DEF LabKeyPair!Next

(* Whatever processes start, fail and die around the directory, the keys    *)
(* they serve are one pair, the one that lies there, and a failure leaves   *)
(* neither half of a pair nor a temporary file behind (lab-key-store.ts).   *)
THEOREM PairStaysSound == Spec => []PairIsSound
<1> DEFINE I == which = "keys" => KeyInv
<1>1. Init => I
  <2>1. SUFFICES ASSUME LabKeyPair!Init PROVE KeyInv
    BY DEF Init
  <2>2. KeyTypes /\ PlacesFit
    <3>1. proc = [p \in Processes |-> [pc |-> "off", pair |-> None, committed |-> FALSE]]
      BY <2>1 DEF LabKeyPair!Init, LabKeyPair!Off
    <3>2. KeyTypes
      <4>1. proc \in [Processes -> [pc : Free \cup Holding, pair : Pairs \cup {None}, committed : BOOLEAN]]
        BY <3>1 DEF Free
      <4>2. /\ made = 0 /\ private = None /\ public = None /\ lock = None /\ temporaries = {} /\ ~damaged
            /\ keys = [p \in Processes |-> None] /\ damaged \in BOOLEAN
        BY <2>1 DEF LabKeyPair!Init
      <4> QED BY <4>1, <4>2, NoneIsNoKey DEF KeyTypes
    <3>3. PlacesFit
      BY <3>1 DEF PlacesFit, PlaceFits, Free, Making, Holding
    <3> QED BY <3>2, <3>3
  <2>3. KeysFit /\ Traces
    BY <2>1 DEF LabKeyPair!Init, LabKeyPair!Inspected, KeysFit, Traces
  <2> QED BY <2>2, <2>3 DEF KeyInv
<1>2. I /\ [Next]_vars => I'
  BY WhichStays, KeySteps, KeyStep
<1>3. I => PairIsSound
  <2>1. SUFFICES ASSUME KeyInv PROVE LabKeyPair!PairIsSound
    BY DEF PairIsSound
  <2>2. LabKeyPair!TypeOK
    BY <2>1, NoneIsNoKey DEF KeyInv, KeyTypes, Pairs, LabKeyPair!TypeOK
  <2>3. LabKeyPair!KeysAgree
    BY <2>1 DEF KeyInv, KeysFit, LabKeyPair!KeysAgree
  <2>4. LabKeyPair!FailuresLeaveNoTrace
    <3>1. SUFFICES ASSUME ~damaged, \A p \in Processes : proc[p].pc = "off"
                   PROVE  LabKeyPair!Inspected # "partial" /\ temporaries = {} /\ lock = None
      BY DEF LabKeyPair!FailuresLeaveNoTrace, LabKeyPair!At
    <3> QED BY <2>1, <3>1 DEF KeyInv, KeyTypes, Traces, Making, Holding
  <2> QED BY <2>2, <2>3, <2>4 DEF LabKeyPair!PairIsSound
<1> QED BY <1>1, <1>2, <1>3, PTL DEF Spec

-----------------------------------------------------------------------------
(* LTI launches                                                            *)

Tokens ==
  [use : {"launch", "ags_service"}, nonce : States \cup {Lti!NoNonce}, issuer : {"lab"},
   audience : {"practice-relay-tool", "practice-relay-ags"}, alg : {"HS256"}, made : Nat, exp : Int]

LtiTypes ==
  /\ now \in Nat /\ restarts \in Nat
  /\ DOMAIN pending \subseteq States /\ IsFiniteSet(DOMAIN pending)
  /\ tokens \subseteq Tokens /\ \A t \in tokens : t.use = "launch" => t.nonce \in States
  /\ registered \in Seq(States) /\ taken \subseteq States
  /\ accepted \in Seq([state : States, token : Tokens])
  /\ flow = [s \in States |-> flow[s]] /\ post = [p \in Posts |-> post[p]]

\* What a handler between two steps holds.
PostsFit ==
  \A p \in Posts :
    /\ post[p].pc \in {"consume", "verify"} => post[p].state \in States /\ post[p].token \in Tokens
    /\ post[p].pc = "verify" =>
         /\ post[p].state \in taken
         /\ \A i \in DOMAIN accepted : accepted[i].state # post[p].state
         /\ \A q \in Posts : post[q].pc = "verify" /\ post[q].state = post[p].state => q = p

\* A state is registered once, then waits or was taken or is forgotten.
FlowFits ==
  \A s \in States :
    /\ flow[s].pc \in {"register", "registered"} => flow[s].at \in Int /\ flow[s].at <= now
    /\ flow[s].pc = "registered" <=> \E k \in DOMAIN registered : registered[k] = s
    /\ s \in taken => flow[s].pc = "registered"
    /\ s \in DOMAIN pending =>
         /\ flow[s].pc = "registered" /\ s \notin taken
         /\ pending[s].at = flow[s].at /\ pending[s].expiresAt = flow[s].at + Ttl

RegisteredOnce == \A i, j \in DOMAIN registered : registered[i] = registered[j] => i = j

AcceptedFits ==
  /\ \A i, j \in DOMAIN accepted : accepted[i].state = accepted[j].state => i = j
  /\ \A i \in DOMAIN accepted :
       /\ accepted[i].state \in taken
       /\ accepted[i].token.nonce = accepted[i].state /\ accepted[i].token.use = "launch"
  /\ \A token \in scored : token.use = "ags_service"

\* Launches that may have made room for themselves at the cost of the ith.
Behind(i) == {k \in DOMAIN registered \ {i} :
                k > i \/ flow[registered[k]].at >= flow[registered[i]].at}
Waits(i) ==
  registered[i] \notin taken /\ now < flow[registered[i]].at + Ttl =>
    registered[i] \in DOMAIN pending \/ Cardinality(Behind(i)) >= MaxPending

LtiInv ==
  /\ LtiTypes /\ PostsFit /\ FlowFits /\ RegisteredOnce /\ AcceptedFits
  /\ Cardinality(DOMAIN pending) <= MaxPending
  /\ \A i \in DOMAIN registered : Waits(i)

\* What the constants are assumed to be.
LEMMA LtiSizes == /\ Ttl \in Nat \ {0} /\ MaxPending \in Nat \ {0} /\ TokenLife \in Nat
                  /\ States \subseteq Nat \ {Lti!NoNonce}
BY Bounds DEF Lti!LtiBounds

\* A step that registers nothing keeps the launches waiting, but for those it takes.
LEMMA WaitingGoesOn ==
  ASSUME LtiInv, registered' = registered, taken \subseteq taken', now' \in Nat, now <= now',
         \A s \in States : flow[s].pc = "registered" => flow'[s] = flow[s],
         \A s \in DOMAIN pending : s \in DOMAIN pending' \/ s \in taken'
  PROVE  \A i \in DOMAIN registered' : Waits(i)'
<1> SUFFICES ASSUME NEW i \in DOMAIN registered, registered[i] \notin taken',
                    now' < flow'[registered[i]].at + Ttl
             PROVE  registered[i] \in DOMAIN pending' \/ Cardinality(Behind(i)') >= MaxPending
  BY DEF Waits
<1>1. \A k \in DOMAIN registered : /\ registered[k] \in States /\ flow[registered[k]].pc = "registered"
                                  /\ flow'[registered[k]] = flow[registered[k]]
                                  /\ flow[registered[k]].at \in Int
  BY DEF LtiInv, LtiTypes, FlowFits
<1>2. Behind(i)' = Behind(i)
  BY <1>1 DEF Behind
<1>3. registered[i] \in DOMAIN pending \/ Cardinality(Behind(i)) >= MaxPending
  <2>1. now \in Nat
    BY DEF LtiInv, LtiTypes
  <2>2. now < flow[registered[i]].at + Ttl
    BY <1>1, <2>1, LtiSizes
  <2> QED BY <2>2 DEF LtiInv, Waits
<1> QED BY <1>2, <1>3

\* The instance brings a Cardinality of its own.
LEMMA SameCardinality == \A S : Lti!Cardinality(S) = Cardinality(S)
BY DEF Lti!Cardinality, Lti!IsFiniteSet, Cardinality, IsFiniteSet

\* Every step of a launch keeps their invariant.
LEMMA LtiStep ==
  ASSUME LtiInv, [Lti!Next]_ltiVars
  PROVE  LtiInv'
<1> USE LtiSizes
<1>1. ASSUME NEW s \in States, NEW issuer, NEW client, Lti!OidcLogin(s, issuer, client)
     PROVE  LtiInv'
  <2>1. LtiTypes'
    BY <1>1 DEF Lti!OidcLogin, Lti!Fresh, Lti!Drawn, Lti!Idle, LtiInv, LtiTypes
  <2>2. PostsFit'
    BY <1>1 DEF Lti!OidcLogin, LtiInv, PostsFit
  <2>3. FlowFits'
    BY <1>1 DEF Lti!OidcLogin, LtiInv, FlowFits, LtiTypes, Lti!Fresh, Lti!Drawn, Lti!Idle
  <2>4. RegisteredOnce'
    BY <1>1 DEF Lti!OidcLogin, LtiInv, RegisteredOnce
  <2>5. AcceptedFits'
    BY <1>1 DEF Lti!OidcLogin, LtiInv, AcceptedFits
  <2>6. (Cardinality(DOMAIN pending) <= MaxPending)'
    BY <1>1 DEF Lti!OidcLogin, LtiInv
  <2>a. \A r \in States : flow[r].pc = "registered" => flow'[r] = flow[r]
    BY <1>1 DEF Lti!OidcLogin, LtiInv, LtiTypes, Lti!Fresh, Lti!Drawn, Lti!Idle
  <2>7. \A i \in DOMAIN registered' : Waits(i)'
    BY WaitingGoesOn, <1>1, <2>a DEF Lti!OidcLogin, LtiInv, LtiTypes
  <2> QED BY <2>1, <2>2, <2>3, <2>4, <2>5, <2>6, <2>7 DEF LtiInv
<1>2. ASSUME NEW s \in States, Lti!RecordLaunch(s)
     PROVE  LtiInv'
  <2>1. LtiTypes'
    <3>1. Lti!Sign("launch", s, "lab", "practice-relay-tool", "HS256") \in Tokens
      BY DEF Lti!Sign, Tokens, LtiInv, LtiTypes
    <3>2. tokens' \subseteq Tokens /\ \A u \in tokens' : u.use = "launch" => u.nonce \in States
      BY <1>2, <3>1 DEF Lti!RecordLaunch, Lti!Sign, LtiInv, LtiTypes
    <3> QED BY <1>2, <3>2 DEF Lti!RecordLaunch, LtiInv, LtiTypes
  <2>2. PostsFit'
    BY <1>2 DEF Lti!RecordLaunch, LtiInv, PostsFit
  <2>3. FlowFits'
    BY <1>2 DEF Lti!RecordLaunch, LtiInv, FlowFits, LtiTypes, Lti!Fresh, Lti!Drawn, Lti!Idle
  <2>4. RegisteredOnce'
    BY <1>2 DEF Lti!RecordLaunch, LtiInv, RegisteredOnce
  <2>5. AcceptedFits'
    BY <1>2 DEF Lti!RecordLaunch, LtiInv, AcceptedFits
  <2>6. (Cardinality(DOMAIN pending) <= MaxPending)'
    BY <1>2 DEF Lti!RecordLaunch, LtiInv
  <2>a. \A r \in States : flow[r].pc = "registered" => flow'[r] = flow[r]
    BY <1>2 DEF Lti!RecordLaunch, LtiInv, LtiTypes, Lti!Fresh, Lti!Drawn, Lti!Idle
  <2>7. \A i \in DOMAIN registered' : Waits(i)'
    BY WaitingGoesOn, <1>2, <2>a DEF Lti!RecordLaunch, LtiInv, LtiTypes
  <2> QED BY <2>1, <2>2, <2>3, <2>4, <2>5, <2>6, <2>7 DEF LtiInv
<1>3. ASSUME NEW s \in States, Lti!PlatformSigns(s)
     PROVE  LtiInv'
  <2>1. LtiTypes'
    BY <1>3 DEF Lti!PlatformSigns, Lti!Sign, Tokens, LtiInv, LtiTypes
  <2>2. PostsFit'
    BY <1>3 DEF Lti!PlatformSigns, LtiInv, PostsFit
  <2>3. FlowFits'
    BY <1>3 DEF Lti!PlatformSigns, LtiInv, FlowFits
  <2>4. RegisteredOnce'
    BY <1>3 DEF Lti!PlatformSigns, LtiInv, RegisteredOnce
  <2>5. AcceptedFits'
    BY <1>3 DEF Lti!PlatformSigns, LtiInv, AcceptedFits
  <2>6. (Cardinality(DOMAIN pending) <= MaxPending)'
    BY <1>3 DEF Lti!PlatformSigns, LtiInv
  <2>7. \A i \in DOMAIN registered' : Waits(i)'
    BY WaitingGoesOn, <1>3 DEF Lti!PlatformSigns, LtiInv, LtiTypes
  <2> QED BY <2>1, <2>2, <2>3, <2>4, <2>5, <2>6, <2>7 DEF LtiInv
<1>4. ASSUME Lti!ServiceToken
     PROVE  LtiInv'
  <2>1. LtiTypes'
    BY <1>4 DEF Lti!ServiceToken, Lti!Sign, Tokens, LtiInv, LtiTypes
  <2>2. PostsFit'
    BY <1>4 DEF Lti!ServiceToken, LtiInv, PostsFit
  <2>3. FlowFits'
    BY <1>4 DEF Lti!ServiceToken, LtiInv, FlowFits
  <2>4. RegisteredOnce'
    BY <1>4 DEF Lti!ServiceToken, LtiInv, RegisteredOnce
  <2>5. AcceptedFits'
    BY <1>4 DEF Lti!ServiceToken, LtiInv, AcceptedFits
  <2>6. (Cardinality(DOMAIN pending) <= MaxPending)'
    BY <1>4 DEF Lti!ServiceToken, LtiInv
  <2>7. \A i \in DOMAIN registered' : Waits(i)'
    BY WaitingGoesOn, <1>4 DEF Lti!ServiceToken, LtiInv, LtiTypes
  <2> QED BY <2>1, <2>2, <2>3, <2>4, <2>5, <2>6, <2>7 DEF LtiInv
<1>5. ASSUME NEW p \in Posts, NEW token \in tokens, Lti!PostScore(p, token)
     PROVE  LtiInv'
  <2>1. LtiTypes'
    BY <1>5 DEF Lti!PostScore, Lti!Idle, LtiInv, LtiTypes
  <2>2. PostsFit'
    BY <1>5 DEF Lti!PostScore, LtiInv, PostsFit, LtiTypes, Lti!Idle
  <2>3. FlowFits'
    BY <1>5 DEF Lti!PostScore, LtiInv, FlowFits
  <2>4. RegisteredOnce'
    BY <1>5 DEF Lti!PostScore, LtiInv, RegisteredOnce
  <2>5. AcceptedFits'
    BY <1>5 DEF Lti!PostScore, LtiInv, AcceptedFits
  <2>6. (Cardinality(DOMAIN pending) <= MaxPending)'
    BY <1>5 DEF Lti!PostScore, LtiInv
  <2>7. \A i \in DOMAIN registered' : Waits(i)'
    BY WaitingGoesOn, <1>5 DEF Lti!PostScore, LtiInv, LtiTypes
  <2> QED BY <2>1, <2>2, <2>3, <2>4, <2>5, <2>6, <2>7 DEF LtiInv
<1>6. ASSUME NEW p \in Posts, NEW token \in tokens, NEW s \in States, Lti!PostLaunch(p, token, s)
     PROVE  LtiInv'
  <2>1. LtiTypes'
    BY <1>6 DEF Lti!PostLaunch, Lti!Idle, LtiInv, LtiTypes
  <2>2. PostsFit'
    BY <1>6 DEF Lti!PostLaunch, LtiInv, PostsFit, LtiTypes, Lti!Idle
  <2>3. FlowFits'
    BY <1>6 DEF Lti!PostLaunch, LtiInv, FlowFits
  <2>4. RegisteredOnce'
    BY <1>6 DEF Lti!PostLaunch, LtiInv, RegisteredOnce
  <2>5. AcceptedFits'
    BY <1>6 DEF Lti!PostLaunch, LtiInv, AcceptedFits
  <2>6. (Cardinality(DOMAIN pending) <= MaxPending)'
    BY <1>6 DEF Lti!PostLaunch, LtiInv
  <2>7. \A i \in DOMAIN registered' : Waits(i)'
    BY WaitingGoesOn, <1>6 DEF Lti!PostLaunch, LtiInv, LtiTypes
  <2> QED BY <2>1, <2>2, <2>3, <2>4, <2>5, <2>6, <2>7 DEF LtiInv
<1>7. ASSUME NEW p \in Posts, Lti!consumeLtiLaunch(p)
     PROVE  LtiInv'
  <2> DEFINE s == post[p].state
  <2>0. /\ post[p].pc = "consume" /\ s \in States /\ post[p].token \in Tokens
        /\ DOMAIN pending' = DOMAIN pending \ {s} /\ \A q \in DOMAIN pending' : pending'[q] = pending[q]
        /\ taken' = taken \cup (DOMAIN pending \cap {s})
        /\ UNCHANGED <<now, flow, tokens, restarts, registered, accepted, scored>>
        /\ \/ post' = [post EXCEPT ![p] = Lti!Idle]
           \/ /\ s \in DOMAIN pending
              /\ post' = [post EXCEPT ![p] = [pc |-> "verify", token |-> post[p].token,
                                              state |-> s, launch |-> pending[s]]]
    BY <1>7 DEF Lti!consumeLtiLaunch, Lti!Taken, LtiInv, PostsFit
  <2> HIDE DEF s
  <2>6. IsFiniteSet(DOMAIN pending') /\ Cardinality(DOMAIN pending') <= MaxPending
    <3>1. /\ IsFiniteSet(DOMAIN pending') /\ Cardinality(DOMAIN pending') <= Cardinality(DOMAIN pending)
          /\ Cardinality(DOMAIN pending) \in Nat /\ Cardinality(DOMAIN pending') \in Nat
      BY <2>0, FS_Subset, FS_CardinalityType DEF LtiInv, LtiTypes
    <3> QED BY <3>1 DEF LtiInv
  <2>1. LtiTypes'
    <3>1. taken' \subseteq States /\ DOMAIN pending' \subseteq States
      BY <2>0 DEF LtiInv, LtiTypes
    <3>2. post' = [q \in Posts |-> post'[q]]
      BY <2>0 DEF LtiInv, LtiTypes
    <3>3. flow' = [q \in States |-> flow'[q]]
      BY <2>0 DEF LtiInv, LtiTypes
    <3> QED BY <2>0, <2>6, <3>1, <3>2, <3>3 DEF LtiInv, LtiTypes
  <2>2. PostsFit'
    <3>1. SUFFICES ASSUME NEW q \in Posts
                   PROVE  /\ post'[q].pc \in {"consume", "verify"} => post'[q].state \in States /\ post'[q].token \in Tokens
                          /\ post'[q].pc = "verify" =>
                               /\ post'[q].state \in taken'
                               /\ \A i \in DOMAIN accepted : accepted[i].state # post'[q].state
                               /\ \A r \in Posts : post'[r].pc = "verify" /\ post'[r].state = post'[q].state => r = q
      BY <2>0 DEF PostsFit
    <3>2. \A r \in Posts \ {p} : post'[r] = post[r]
      BY <2>0 DEF LtiInv, LtiTypes
    <3>3. \/ post'[p].pc = "idle"
          \/ /\ post'[p].pc = "verify" /\ post'[p].state = s /\ post'[p].token = post[p].token
             /\ s \in DOMAIN pending
      BY <2>0 DEF LtiInv, LtiTypes, Lti!Idle
    <3>4. s \in DOMAIN pending => s \notin taken
      BY <2>0 DEF LtiInv, FlowFits
    <3>5. \A i \in DOMAIN accepted : accepted[i].state \in taken
      BY DEF LtiInv, AcceptedFits
    <3>6. /\ post[q].pc \in {"consume", "verify"} => post[q].state \in States /\ post[q].token \in Tokens
          /\ \A r \in Posts : post[r].pc = "verify" => post[r].state \in taken
          /\ post[q].pc = "verify" =>
               /\ \A i \in DOMAIN accepted : accepted[i].state # post[q].state
               /\ \A r \in Posts : post[r].pc = "verify" /\ post[r].state = post[q].state => r = q
      BY DEF LtiInv, PostsFit
    <3>7. CASE q = p
      <4>1. SUFFICES ASSUME post'[p].pc = "verify" PROVE
               /\ s \in States /\ post[p].token \in Tokens /\ s \in taken'
               /\ \A i \in DOMAIN accepted : accepted[i].state # s
               /\ \A r \in Posts : post'[r].pc = "verify" /\ post'[r].state = s => r = p
        BY <3>3, <3>7
      <4>2. s \in DOMAIN pending
        BY <3>3, <4>1
      <4> QED BY <2>0, <3>2, <3>4, <3>5, <3>6, <4>2
    <3>8. CASE q # p
      BY <2>0, <3>2, <3>3, <3>4, <3>6, <3>8
    <3> QED BY <3>7, <3>8
  <2>3. FlowFits'
    BY <2>0 DEF LtiInv, FlowFits
  <2>4. RegisteredOnce'
    BY <2>0 DEF LtiInv, RegisteredOnce
  <2>5. AcceptedFits'
    BY <2>0 DEF LtiInv, AcceptedFits
  <2>7. \A i \in DOMAIN registered' : Waits(i)'
    BY <2>0, WaitingGoesOn DEF LtiInv, LtiTypes
  <2> QED BY <2>1, <2>2, <2>3, <2>4, <2>5, <2>6, <2>7 DEF LtiInv
<1>8. ASSUME NEW p \in Posts, Lti!VerifyLaunch(p)
     PROVE  LtiInv'
  <2> DEFINE answer == [state |-> post[p].state, token |-> post[p].token]
  <2>0. /\ post[p].pc = "verify" /\ post' = [post EXCEPT ![p] = Lti!Idle]
        /\ UNCHANGED <<now, flow, pending, tokens, restarts, registered, taken, scored>>
        /\ \/ accepted' = accepted
           \/ /\ accepted' = Append(accepted, answer)
              /\ answer.token.nonce = answer.state /\ answer.token.use = "launch"
    BY <1>8 DEF Lti!VerifyLaunch, Lti!verifyLtiJwt
  <2>a. /\ answer \in [state : States, token : Tokens] /\ answer.state = post[p].state /\ answer.state \in taken
        /\ \A i \in DOMAIN accepted : accepted[i].state # answer.state
        /\ \A q \in Posts : post[q].pc = "verify" /\ post[q].state = answer.state => q = p
    BY <2>0 DEF LtiInv, PostsFit
  <2> HIDE DEF answer
  <2>b. \/ accepted' = accepted
        \/ /\ accepted' \in Seq([state : States, token : Tokens])
           /\ DOMAIN accepted' = DOMAIN accepted \cup {Len(accepted) + 1}
           /\ Len(accepted) + 1 \notin DOMAIN accepted
           /\ \A i \in DOMAIN accepted : accepted'[i] = accepted[i]
           /\ accepted'[Len(accepted) + 1] = answer
           /\ answer.token.nonce = answer.state /\ answer.token.use = "launch"
    <3> DEFINE L == [state : States, token : Tokens]
    <3>1. accepted \in Seq(L) /\ answer \in L
      BY <2>a DEF LtiInv, LtiTypes
    <3> HIDE DEF L
    <3>2. /\ Append(accepted, answer) \in Seq(L) /\ Len(accepted) \in Nat
          /\ DOMAIN accepted = 1 .. Len(accepted)
          /\ DOMAIN Append(accepted, answer) = 1 .. Len(accepted) + 1
          /\ \A i \in 1 .. Len(accepted) : Append(accepted, answer)[i] = accepted[i]
          /\ Append(accepted, answer)[Len(accepted) + 1] = answer
      BY <3>1
    <3>3. 1 .. Len(accepted) + 1 = 1 .. Len(accepted) \cup {Len(accepted) + 1} /\ Len(accepted) + 1 \notin 1 .. Len(accepted)
      BY <3>2
    <3>4. Append(accepted, answer) \in Seq([state : States, token : Tokens])
      BY <3>2 DEF L
    <3> QED BY <2>0, <3>2, <3>3, <3>4
  <2>c. \A i \in DOMAIN accepted' : accepted'[i] = answer \/ (i \in DOMAIN accepted /\ accepted'[i] = accepted[i])
    BY <2>b
  <2>d. \A q \in Posts : post'[q] = IF q = p THEN Lti!Idle ELSE post[q]
    BY <2>0 DEF LtiInv, LtiTypes
  <2>1. LtiTypes'
    <3>1. post' = [q \in Posts |-> post'[q]] /\ flow' = [q \in States |-> flow'[q]]
      BY <2>0 DEF LtiInv, LtiTypes
    <3>2. accepted' \in Seq([state : States, token : Tokens])
      BY <2>b DEF LtiInv, LtiTypes
    <3> QED BY <2>0, <3>1, <3>2 DEF LtiInv, LtiTypes
  <2>2. PostsFit'
    BY <2>0, <2>a, <2>c, <2>d DEF Lti!Idle, LtiInv, PostsFit
  <2>3. FlowFits'
    BY <2>0 DEF LtiInv, FlowFits
  <2>4. RegisteredOnce'
    BY <2>0 DEF LtiInv, RegisteredOnce
  <2>5. AcceptedFits'
    BY <2>0, <2>a, <2>b DEF LtiInv, AcceptedFits
  <2>6. (Cardinality(DOMAIN pending) <= MaxPending)'
    BY <2>0 DEF LtiInv
  <2>7. \A i \in DOMAIN registered' : Waits(i)'
    BY <2>0, WaitingGoesOn DEF LtiInv, LtiTypes
  <2> QED BY <2>1, <2>2, <2>3, <2>4, <2>5, <2>6, <2>7 DEF LtiInv
<1>9. ASSUME NEW p \in Posts, Lti!processAgsScore(p)
     PROVE  LtiInv'
  <2>1. LtiTypes'
    BY <1>9 DEF Lti!processAgsScore, Lti!verifyAgsServiceToken, Lti!Idle, LtiInv, LtiTypes
  <2>2. PostsFit'
    BY <1>9 DEF Lti!processAgsScore, LtiInv, PostsFit, LtiTypes, Lti!Idle
  <2>3. FlowFits'
    BY <1>9 DEF Lti!processAgsScore, LtiInv, FlowFits
  <2>4. RegisteredOnce'
    BY <1>9 DEF Lti!processAgsScore, LtiInv, RegisteredOnce
  <2>5. AcceptedFits'
    BY <1>9 DEF Lti!processAgsScore, LtiInv, AcceptedFits, Lti!verifyAgsServiceToken
  <2>6. (Cardinality(DOMAIN pending) <= MaxPending)'
    BY <1>9 DEF Lti!processAgsScore, LtiInv
  <2>7. \A i \in DOMAIN registered' : Waits(i)'
    BY WaitingGoesOn, <1>9 DEF Lti!processAgsScore, LtiInv, LtiTypes
  <2> QED BY <2>1, <2>2, <2>3, <2>4, <2>5, <2>6, <2>7 DEF LtiInv
<1>10. ASSUME Lti!Tick
     PROVE  LtiInv'
  <2>1. LtiTypes'
    BY <1>10 DEF Lti!Tick, LtiInv, LtiTypes
  <2>2. PostsFit'
    BY <1>10 DEF Lti!Tick, LtiInv, PostsFit
  <2>3. FlowFits'
    BY <1>10 DEF Lti!Tick, LtiInv, FlowFits, LtiTypes
  <2>4. RegisteredOnce'
    BY <1>10 DEF Lti!Tick, LtiInv, RegisteredOnce
  <2>5. AcceptedFits'
    BY <1>10 DEF Lti!Tick, LtiInv, AcceptedFits
  <2>6. (Cardinality(DOMAIN pending) <= MaxPending)'
    BY <1>10 DEF Lti!Tick, LtiInv
  <2>7. \A i \in DOMAIN registered' : Waits(i)'
    BY WaitingGoesOn, <1>10 DEF Lti!Tick, LtiInv, LtiTypes
  <2> QED BY <2>1, <2>2, <2>3, <2>4, <2>5, <2>6, <2>7 DEF LtiInv
<1>11. ASSUME Lti!Restart
     PROVE  LtiInv'
  <2>1. LtiTypes'
    BY <1>11 DEF Lti!Restart, Lti!Idle, LtiInv, LtiTypes
  <2>2. PostsFit'
    BY <1>11 DEF Lti!Restart, LtiInv, PostsFit, LtiTypes, Lti!Idle
  <2>3. FlowFits'
    BY <1>11 DEF Lti!Restart, LtiInv, FlowFits, LtiTypes
  <2>4. RegisteredOnce'
    BY <1>11 DEF Lti!Restart, LtiInv, RegisteredOnce
  <2>5. AcceptedFits'
    BY <1>11 DEF Lti!Restart, LtiInv, AcceptedFits
  <2>6. (Cardinality(DOMAIN pending) <= MaxPending)'
    BY <1>11 DEF Lti!Restart, LtiInv
  <2>a. \A r \in States : flow[r].pc = "registered" => flow'[r] = flow[r]
    BY <1>11 DEF Lti!Restart, LtiInv, LtiTypes
  <2>7. \A i \in DOMAIN registered' : Waits(i)'
    BY WaitingGoesOn, <1>11, <2>a DEF Lti!Restart, LtiInv, LtiTypes
  <2> QED BY <2>1, <2>2, <2>3, <2>4, <2>5, <2>6, <2>7 DEF LtiInv
<1>13. CASE UNCHANGED ltiVars
  <2>1. (LtiTypes /\ PostsFit /\ FlowFits /\ RegisteredOnce /\ AcceptedFits)'
    BY <1>13 DEF ltiVars, LtiInv, LtiTypes, PostsFit, FlowFits, RegisteredOnce, AcceptedFits
  <2>2. \A i \in DOMAIN registered' : Waits(i)'
    BY <1>13, WaitingGoesOn DEF ltiVars, LtiInv, LtiTypes
  <2> QED BY <1>13, <2>1, <2>2 DEF ltiVars, LtiInv
<1>12. ASSUME NEW s \in States, Lti!registerLtiLaunch(s)
       PROVE  LtiInv'
  <2> DEFINE n == Len(registered)
             at == flow[s].at
             kept == Lti!Unexpired(at)
  <2>1. PICK out \in Lti!Evictions(kept) :
          pending' = [t \in (kept \ out) \cup {s} |->
                        IF t = s THEN [issuer |-> flow[s].issuer, client |-> flow[s].client,
                                       at |-> at, expiresAt |-> at + Ttl]
                        ELSE pending[t]]
    BY <1>12 DEF Lti!registerLtiLaunch
  <2>2. /\ flow' = [flow EXCEPT ![s] = [pc |-> "registered", at |-> at]]
        /\ registered' = Append(registered, s)
        /\ UNCHANGED <<now, tokens, restarts, post, taken, accepted, scored>>
    BY <1>12 DEF Lti!registerLtiLaunch
  <2>3. /\ at \in Int /\ at <= now /\ now \in Nat /\ s \notin taken /\ s \notin DOMAIN pending
        /\ \A k \in DOMAIN registered : registered[k] # s
    BY <1>12 DEF Lti!registerLtiLaunch, LtiInv, LtiTypes, FlowFits
  <2>4. kept \subseteq DOMAIN pending /\ \A r \in DOMAIN pending : r \in kept <=> pending[r].expiresAt > at
    BY DEF Lti!Unexpired
  <2> HIDE DEF at, kept
  <2>5. /\ DOMAIN pending' = (kept \ out) \cup {s} /\ pending'[s].at = at /\ pending'[s].expiresAt = at + Ttl
        /\ \A r \in kept \ out : r # s /\ pending'[r] = pending[r]
    BY <2>1, <2>3, <2>4
  <2>6. /\ IsFiniteSet(kept \ out) /\ Cardinality(kept \ out) \in Nat /\ Cardinality(kept \ out) < MaxPending
        /\ out # {} => /\ Cardinality(kept \ out) = MaxPending - 1
                       /\ \A a \in out, b \in kept \ out : pending[a].at <= pending[b].at
    <3>0. IF Cardinality(kept) < MaxPending THEN out = {}
          ELSE /\ out \in SUBSET kept /\ Cardinality(out) = Cardinality(kept) - MaxPending + 1
               /\ \A a \in out, b \in kept \ out : pending[a].at <= pending[b].at
      <4>1. out \in Lti!Evictions(kept)
        BY <2>1
      <4> HIDE DEF kept
      <4> QED BY ONLY <4>1, SameCardinality DEF Lti!Evictions
    <3>1. IsFiniteSet(kept) /\ Cardinality(kept) \in Nat
      BY <2>4, FS_Subset, FS_CardinalityType DEF LtiInv, LtiTypes
    <3>2. CASE Cardinality(kept) < MaxPending
      <4>1. out = {}
        BY <3>0, <3>2
      <4>2. kept \ out = kept
        BY <4>1
      <4> QED BY <3>1, <3>2, <4>1, <4>2
    <3>3. CASE ~(Cardinality(kept) < MaxPending)
      <4>1. /\ out \in SUBSET kept /\ Cardinality(out) = Cardinality(kept) - MaxPending + 1
            /\ \A a \in out, b \in kept \ out : pending[a].at <= pending[b].at
        BY <3>0, <3>3
      <4>2. kept \cap out = out
        BY <4>1
      <4>3. IsFiniteSet(kept \ out) /\ Cardinality(kept \ out) = Cardinality(kept) - Cardinality(out)
        BY <3>1, <4>2, FS_Difference
      <4> QED BY <3>1, <4>1, <4>3
    <3> QED BY <3>2, <3>3
  <2>7. /\ registered' \in Seq(States) /\ n \in Nat /\ DOMAIN registered = 1 .. n
        /\ DOMAIN registered' = 1 .. (n + 1) /\ registered'[n + 1] = s
        /\ \A k \in 1 .. n : registered'[k] = registered[k] /\ registered[k] \in States
    BY <2>2 DEF LtiInv, LtiTypes
  <2> HIDE DEF n
  <2>8. \A r \in States : flow'[r] = IF r = s THEN [pc |-> "registered", at |-> at] ELSE flow[r]
    BY <2>2 DEF LtiInv, LtiTypes
  <2>9. IsFiniteSet(DOMAIN pending') /\ Cardinality(DOMAIN pending') <= MaxPending
    <3>1. /\ IsFiniteSet((kept \ out) \cup {s})
          /\ Cardinality((kept \ out) \cup {s}) \in {Cardinality(kept \ out), Cardinality(kept \ out) + 1}
      BY <2>6, FS_AddElement
    <3> QED BY <2>5, <2>6, <3>1
  <2>10. LtiTypes'
    <3>1. DOMAIN pending' \subseteq States
      BY <2>4, <2>5 DEF LtiInv, LtiTypes
    <3>2. post' = [q \in Posts |-> post'[q]] /\ flow' = [q \in States |-> flow'[q]]
      BY <2>2 DEF LtiInv, LtiTypes
    <3> QED BY <2>2, <2>7, <2>9, <3>1, <3>2 DEF LtiInv, LtiTypes
  <2>11. PostsFit'
    BY <2>2 DEF LtiInv, PostsFit
  <2>12. FlowFits'
    <3>1. ASSUME NEW r \in States, r # s
          PROVE  /\ flow[r].pc \in {"register", "registered"} => flow[r].at \in Int /\ flow[r].at <= now
                 /\ flow[r].pc = "registered" <=> \E k \in DOMAIN registered' : registered'[k] = r
                 /\ r \in taken => flow[r].pc = "registered"
                 /\ r \in DOMAIN pending' =>
                      /\ flow[r].pc = "registered" /\ r \notin taken
                      /\ pending'[r].at = flow[r].at /\ pending'[r].expiresAt = flow[r].at + Ttl
      <4>1. (\E k \in DOMAIN registered : registered[k] = r) <=> \E k \in DOMAIN registered' : registered'[k] = r
        BY <2>7, <3>1
      <4>2. r \in DOMAIN pending' => r \in DOMAIN pending /\ pending'[r] = pending[r]
        BY <2>4, <2>5, <3>1
      <4> QED BY <4>1, <4>2 DEF LtiInv, FlowFits
    <3>2. \E k \in DOMAIN registered' : registered'[k] = s
      BY <2>7
    <3> QED BY <2>2, <2>3, <2>5, <2>8, <3>1, <3>2 DEF FlowFits
  <2>13. RegisteredOnce'
    BY <2>3, <2>7 DEF LtiInv, RegisteredOnce
  <2>14. AcceptedFits'
    BY <2>2 DEF LtiInv, AcceptedFits
  <2>15. \A i \in DOMAIN registered' : Waits(i)'
    <3>1. SUFFICES ASSUME NEW i \in 1 .. n, registered[i] \notin taken,
                          now < flow[registered[i]].at + Ttl, registered[i] \notin DOMAIN pending'
                   PROVE  Cardinality(Behind(i)') >= MaxPending
      BY <2>2, <2>3, <2>5, <2>7, <2>8 DEF Waits
    <3> DEFINE r == registered[i]
    <3>2. r \in States /\ r # s /\ flow[r].pc = "registered" /\ flow[r].at \in Int
      BY <2>3, <2>7 DEF LtiInv, FlowFits
    <3>3. Behind(i)' = Behind(i) \cup {n + 1}
      <4>1. \A k \in 1 .. n : flow'[registered'[k]] = flow[registered[k]]
        BY <2>3, <2>7, <2>8
      <4>2. Behind(i)' = {k \in (1 .. (n + 1)) \ {i} : k > i \/ flow'[registered'[k]].at >= flow[r].at}
        BY <2>7, <4>1 DEF Behind
      <4>3. Behind(i) = {k \in (1 .. n) \ {i} : k > i \/ flow[registered[k]].at >= flow[r].at}
        BY <2>7 DEF Behind
      <4> HIDE DEF r
      <4>4. n + 1 > i /\ n + 1 # i /\ \A k : k \in 1 .. (n + 1) <=> k \in 1 .. n \/ k = n + 1
        BY <2>7
      <4> QED BY <4>1, <4>2, <4>3, <4>4
    <3>4. /\ IsFiniteSet(Behind(i)') /\ IsFiniteSet(1 .. n) /\ n + 1 \notin 1 .. n
          /\ Behind(i) \subseteq 1 .. n /\ IsFiniteSet(Behind(i))
          /\ Cardinality(Behind(i)) \in Nat /\ Cardinality(Behind(i)') = Cardinality(Behind(i)) + 1
      <4>1. IsFiniteSet(1 .. n)
        BY <2>7, FS_Interval
      <4>2. Behind(i) \subseteq 1 .. n /\ n + 1 \notin 1 .. n
        BY <2>7 DEF Behind
      <4>3. IsFiniteSet(Behind(i)) /\ Cardinality(Behind(i)) \in Nat
        BY <4>1, <4>2, FS_Subset, FS_CardinalityType
      <4> QED BY <3>3, <4>1, <4>2, <4>3, FS_AddElement
    <3>5. CASE r \notin DOMAIN pending
      <4>1. Cardinality(Behind(i)) >= MaxPending
        BY <2>7, <3>1, <3>5 DEF LtiInv, Waits
      <4> QED BY <3>4, <4>1
    <3>6. CASE r \in DOMAIN pending
      <4>1. r \in out /\ pending[r].at = flow[r].at
        <5>1. pending[r].expiresAt = flow[r].at + Ttl /\ pending[r].at = flow[r].at
          BY <3>2, <3>6 DEF LtiInv, FlowFits
        <5>2. pending[r].expiresAt > at
          BY <2>3, <3>1, <3>2, <5>1
        <5> QED BY <2>4, <2>5, <3>1, <3>6, <5>1, <5>2
      <4>2. Cardinality(kept \ out) = MaxPending - 1 /\ \A b \in kept \ out : flow[r].at <= pending[b].at
        BY <2>6, <4>1
      <4> DEFINE K == {k \in 1 .. n : registered[k] \in kept \ out}
                 place == [k \in K |-> registered[k]]
      <4>3. K \subseteq Behind(i)
        <5>1. ASSUME NEW k \in K PROVE k \in Behind(i)
          <6>1. k \in DOMAIN registered /\ registered[k] \in kept \ out /\ k # i
            BY <2>7, <4>1
          <6>2. registered[k] \in DOMAIN pending /\ registered[k] \in States
            BY <2>4, <2>7, <6>1
          <6>3. pending[registered[k]].at = flow[registered[k]].at /\ flow[registered[k]].at \in Int
            BY <6>2 DEF LtiInv, FlowFits
          <6>4. flow[registered[k]].at >= flow[r].at
            BY <3>2, <4>2, <6>1, <6>3
          <6> QED BY <6>1, <6>4 DEF Behind
        <5> QED BY <5>1
      <4>4. \A b \in kept \ out : \E k \in K : place[k] = b
        <5>1. ASSUME NEW b \in kept \ out PROVE \E k \in K : registered[k] = b
          <6>1. b \in States /\ b \in DOMAIN pending
            BY <2>4 DEF LtiInv, LtiTypes
          <6>2. \E k \in 1 .. n : registered[k] = b
            BY <2>7, <6>1 DEF LtiInv, FlowFits
          <6> QED BY <6>2
        <5> QED BY <5>1
      <4>5. place \in Surjection(K, kept \ out)
        <5>1. place \in [K -> kept \ out]
          OBVIOUS
        <5> QED BY <4>4, <5>1 DEF Surjection
      <4>6. IsFiniteSet(K) /\ Cardinality(kept \ out) <= Cardinality(K)
        <5>1. IsFiniteSet(K)
          BY <3>4, <4>3, FS_Subset
        <5> HIDE DEF K, place
        <5> QED BY <4>5, <5>1, FS_Surjection
      <4> HIDE DEF K, place
      <4>7. Cardinality(K) <= Cardinality(Behind(i)) /\ Cardinality(K) \in Nat
        BY <3>4, <4>3, <4>6, FS_Subset, FS_CardinalityType
      <4> QED BY <2>6, <3>4, <4>2, <4>6, <4>7
    <3> QED BY <3>5, <3>6
  <2> QED BY <2>9, <2>10, <2>11, <2>12, <2>13, <2>14, <2>15 DEF LtiInv
<1> QED BY <1>1, <1>2, <1>3, <1>4, <1>5, <1>6, <1>7, <1>8, <1>9, <1>10, <1>11, <1>12, <1>13
DEF Lti!Next

(* A registered state admits one launch, for a token of its own nonce, and  *)
(* waits its lifetime unless MaxPending others, none of them older, were    *)
(* registered beside it (handleLaunch, registerLtiLaunch).                  *)
THEOREM LaunchesStaySound == Spec => []LaunchesAreSound
<1> DEFINE I == which = "lti" => LtiInv
<1>1. Init => I
  <2>1. SUFFICES ASSUME Lti!Init PROVE LtiInv
    BY DEF Init
  <2>2. DOMAIN pending = {} /\ registered = <<>> /\ accepted = <<>> /\ DOMAIN registered = {} /\ DOMAIN accepted = {}
    BY <2>1 DEF Lti!Init
  <2>3. IsFiniteSet(DOMAIN pending) /\ Cardinality(DOMAIN pending) = 0
    BY <2>2, FS_EmptySet
  <2>4. LtiTypes
    BY <2>1, <2>2, <2>3 DEF Lti!Init, LtiTypes
  <2>5. PostsFit /\ FlowFits
    BY <2>1, <2>2 DEF Lti!Init, Lti!Idle, PostsFit, FlowFits
  <2>6. AcceptedFits /\ RegisteredOnce
    BY <2>1, <2>2 DEF Lti!Init, AcceptedFits, RegisteredOnce
  <2> QED BY <2>2, <2>3, <2>4, <2>5, <2>6, LtiSizes DEF LtiInv
<1>2. I /\ [Next]_vars => I'
  BY WhichStays, LtiSteps, LtiStep
<1>3. I => LaunchesAreSound
  <2>1. SUFFICES ASSUME LtiInv PROVE Lti!LaunchesAreSound
    BY DEF LaunchesAreSound
  <2>2. Lti!TypeOK
    <3>1. DOMAIN pending \subseteq States /\ \A t \in tokens : t.use = "launch" => t.nonce \in States
      BY <2>1 DEF LtiInv, LtiTypes
    <3>2. \A s \in DOMAIN pending : pending[s].expiresAt = pending[s].at + Ttl
      BY <2>1, <3>1 DEF LtiInv, FlowFits
    <3> QED BY <2>1, <3>1, <3>2, SameCardinality DEF LtiInv, Lti!TypeOK
  <2>3. Lti!LaunchOnce
    BY <2>1 DEF LtiInv, AcceptedFits, FlowFits, LtiTypes, Lti!LaunchOnce
  <2>4. Lti!LaunchesWait
    <3>1. \A i \in DOMAIN registered : Waits(i)
      BY <2>1 DEF LtiInv
    <3> QED BY ONLY <3>1, SameCardinality DEF Waits, Behind, Lti!LaunchesWait
  <2> QED BY <2>2, <2>3, <2>4 DEF Lti!LaunchesAreSound
<1> QED BY <1>1, <1>2, <1>3, PTL DEF Spec

-----------------------------------------------------------------------------
(* The commands of a record                                                *)

RecordProofs == INSTANCE RecordCommandsProofs WITH
  Users <- RecordUsers, MaxChanges <- MaxEdits, changes <- edits

\* A step of the composition is a step of the record.
LEMMA RecordSteps ==
  ASSUME [Next]_vars, which = "record"
  PROVE  [Aggregate!Next]_recordVars
BY DEF Next, vars

\* The two instances of the aggregate are one.
LEMMA SameNumbers ==
  ASSUME NEW cs
  PROVE  RecordProofs!nextCommentId(cs) = Aggregate!nextCommentId(cs)
BY DEF Aggregate!nextCommentId, Aggregate!Cardinality, RecordProofs!nextCommentId,
       RecordProofs!Cardinality

\* Written out, the two are the same text, in the recursive function too.
LEMMA SameImports ==
  ASSUME NEW sort, NEW start, NEW parts
  PROVE  RecordProofs!AddAll(sort, start, parts) = Aggregate!AddAll(sort, start, parts)
BY DEF RecordProofs!AddAll, RecordProofs!AddPart, RecordProofs!addRegion,
       RecordProofs!addComment, RecordProofs!addTrack, RecordProofs!addTake,
       RecordProofs!nextCommentId, RecordProofs!Cardinality, RecordProofs!Put,
       RecordProofs!Done, RecordProofs!Throws, RecordProofs!Unset, Aggregate!AddAll,
       Aggregate!AddPart, Aggregate!addRegion, Aggregate!addComment, Aggregate!addTrack,
       Aggregate!addTake, Aggregate!nextCommentId, Aggregate!Cardinality, Aggregate!Put,
       Aggregate!Done, Aggregate!Throws, Aggregate!Unset

\* So are the transitions one by one.
LEMMA SameTransitions ==
  ASSUME NEW d, NEW c, NEW actor
  PROVE  RecordProofs!transitionWorkRecord(d, c, actor) =
           Aggregate!transitionWorkRecord(d, c, actor)
<1>1. \A x : RecordProofs!Done(x) = Aggregate!Done(x)
  BY DEF RecordProofs!Done, Aggregate!Done
<1>2. \A x, y : RecordProofs!Throws(x, y) = Aggregate!Throws(x, y)
  BY DEF RecordProofs!Throws, Aggregate!Throws
<1>3. \A f, k, v : RecordProofs!Put(f, k, v) = Aggregate!Put(f, k, v)
  BY DEF RecordProofs!Put, Aggregate!Put
<1>4. RecordProofs!addTrack(d, c) = Aggregate!addTrack(d, c)
  BY <1>1, <1>2, <1>3 DEF RecordProofs!addTrack, Aggregate!addTrack
<1>5. \A id, track : RecordProofs!PutTrack(d, id, track) = Aggregate!PutTrack(d, id, track)
  BY <1>1, <1>2, <1>3 DEF RecordProofs!PutTrack, Aggregate!PutTrack
<1>6. RecordProofs!addAnalysisTrack(d, c) = Aggregate!addAnalysisTrack(d, c)
  BY <1>2, <1>5 DEF RecordProofs!addAnalysisTrack, Aggregate!addAnalysisTrack
<1>7. RecordProofs!attachMveiMotifTrack(d, c) = Aggregate!attachMveiMotifTrack(d, c)
  BY <1>1, <1>5 DEF RecordProofs!attachMveiMotifTrack, Aggregate!attachMveiMotifTrack
<1>8. RecordProofs!attachMusicNotationTrack(d, c) = Aggregate!attachMusicNotationTrack(d, c)
  BY <1>5 DEF RecordProofs!attachMusicNotationTrack, Aggregate!attachMusicNotationTrack
<1>9. RecordProofs!addTake(d, c) = Aggregate!addTake(d, c)
  BY DEF RecordProofs!addTake, Aggregate!addTake, RecordProofs!Done, Aggregate!Done,
         RecordProofs!Put, Aggregate!Put, RecordProofs!Unset, Aggregate!Unset
<1>10. RecordProofs!setPreferredTake(d, c) = Aggregate!setPreferredTake(d, c)
  BY <1>1, <1>2 DEF RecordProofs!setPreferredTake, Aggregate!setPreferredTake
<1>11. RecordProofs!addRegion(d, c) = Aggregate!addRegion(d, c)
  BY <1>1, <1>2, <1>3 DEF RecordProofs!addRegion, Aggregate!addRegion
<1>12. RecordProofs!addComment(d, c, actor) = Aggregate!addComment(d, c, actor)
  BY <1>1, <1>2, <1>3, SameNumbers
  DEF RecordProofs!addComment, Aggregate!addComment, RecordProofs!Unset,
      Aggregate!Unset
<1>13. RecordProofs!resolveComment(d, c) = Aggregate!resolveComment(d, c)
  BY <1>1, <1>2 DEF RecordProofs!resolveComment, Aggregate!resolveComment
<1>14. RecordProofs!attachUsePolicySnapshot(d, c, actor) = Aggregate!attachUsePolicySnapshot(d, c, actor)
  BY <1>1, <1>2 DEF RecordProofs!attachUsePolicySnapshot, Aggregate!attachUsePolicySnapshot
<1>15. RecordProofs!submitVersion(d, c) = Aggregate!submitVersion(d, c)
  BY <1>1 DEF RecordProofs!submitVersion, Aggregate!submitVersion
<1>16. RecordProofs!addRepresentedSubject(d, c) = Aggregate!addRepresentedSubject(d, c)
  BY <1>1, <1>2 DEF RecordProofs!addRepresentedSubject, Aggregate!addRepresentedSubject
<1>17. RecordProofs!addArtifact(d, c) = Aggregate!addArtifact(d, c)
  BY <1>1, <1>2, <1>3 DEF RecordProofs!addArtifact, Aggregate!addArtifact
<1>18. RecordProofs!addAnnotation(d) = Aggregate!addAnnotation(d)
  BY <1>1 DEF RecordProofs!addAnnotation, Aggregate!addAnnotation
<1>19. RecordProofs!addUsePolicy(d, c) = Aggregate!addUsePolicy(d, c)
  BY <1>1, <1>2, <1>3 DEF RecordProofs!addUsePolicy, Aggregate!addUsePolicy
<1>20. RecordProofs!addSnapshot(d, c) = Aggregate!addSnapshot(d, c)
  BY <1>1, <1>2 DEF RecordProofs!addSnapshot, Aggregate!addSnapshot
<1>21. RecordProofs!addMember(d, c.user, c.role) = Aggregate!addMember(d, c.user, c.role)
  BY <1>3 DEF RecordProofs!addMember, Aggregate!addMember
<1>22. RecordProofs!patch(d, c) = Aggregate!patch(d, c)
  BY <1>1 DEF RecordProofs!patch, Aggregate!patch
<1>23. RecordProofs!importEaf(d, c) = Aggregate!importEaf(d, c)
  BY <1>1, SameImports DEF RecordProofs!importEaf, Aggregate!importEaf
<1>24. RecordProofs!importOtio(d, c) = Aggregate!importOtio(d, c)
  BY <1>1, SameImports DEF RecordProofs!importOtio, Aggregate!importOtio
<1> QED
  BY <1>1, <1>4, <1>6, <1>7, <1>8, <1>9, <1>10, <1>11, <1>12, <1>13, <1>14, <1>15, <1>16, <1>17,
     <1>18, <1>19, <1>20, <1>21, <1>22, <1>23, <1>24
  DEF RecordProofs!transitionWorkRecord, Aggregate!transitionWorkRecord

\* And what a document must satisfy, and what a command is.
LEMMA SameInvariants ==
  /\ \A d : RecordProofs!AggregateInvariants(d) = Aggregate!AggregateInvariants(d)
  /\ RecordProofs!NoRecord = Aggregate!NoRecord
<1>1. \A d : RecordProofs!AggregateInvariants(d) = Aggregate!AggregateInvariants(d)
  BY DEF RecordProofs!AggregateInvariants, RecordProofs!UniqueIds,
       RecordProofs!SubjectReferences, RecordProofs!ValidRegions,
       RecordProofs!TakeCoherence, RecordProofs!CommentAnchors,
       RecordProofs!ArtifactReferences, RecordProofs!VersionSnapshotReferences,
       RecordProofs!VersionNamesUnique, RecordProofs!Unset, Aggregate!AggregateInvariants,
       Aggregate!UniqueIds, Aggregate!SubjectReferences, Aggregate!ValidRegions,
       Aggregate!TakeCoherence, Aggregate!CommentAnchors, Aggregate!ArtifactReferences,
       Aggregate!VersionSnapshotReferences, Aggregate!VersionNamesUnique, Aggregate!Unset
<1>2. RecordProofs!NoRecord = Aggregate!NoRecord
  BY DEF RecordProofs!NoRecord, Aggregate!NoRecord
<1> QED BY <1>1, <1>2

LEMMA CommandsOfTheRunFit == RecordProofs!CommandsFit
BY CommandsFit DEF RecordProofs!CommandsFit,
       RecordProofs!IsCommand, RecordProofs!OwnSnapshotIds, RecordProofs!VersionNames,
       RecordProofs!CommandTypes, RecordProofs!Range, Aggregate!IsCommand,
       Aggregate!OwnSnapshotIds, Aggregate!VersionNames, Aggregate!CommandTypes,
       Aggregate!Range

\* The record of the composition behaves as that of the proofs.
LEMMA SameSteps ==
  /\ RecordProofs!Init = Aggregate!Init /\ RecordProofs!Next = Aggregate!Next
  /\ RecordProofs!vars = recordVars
<1>1. \A d, u, c : RecordProofs!Permitted(d, u, c) = Aggregate!Permitted(d, u, c)
  BY DEF RecordProofs!RolePermissions, RecordProofs!AllMutations, RecordProofs!CommandTypes,
       RecordProofs!CommandPermissions, RecordProofs!CanMutate, RecordProofs!NoRecord,
       RecordProofs!createEmptyRecord, RecordProofs!Roles, RecordProofs!Permitted,
       RecordProofs!RequiredPermissions, RecordProofs!MayInvite, Aggregate!RolePermissions,
       Aggregate!AllMutations, Aggregate!CommandTypes, Aggregate!CommandPermissions,
       Aggregate!CanMutate, Aggregate!NoRecord, Aggregate!createEmptyRecord,
       Aggregate!Roles, Aggregate!Permitted, Aggregate!RequiredPermissions,
       Aggregate!MayInvite
<1>2. \A u, c : RecordProofs!Lawful(u, c) = Aggregate!Lawful(u, c)
  BY DEF RecordProofs!Lawful, RecordProofs!GivesRole, Aggregate!Lawful, Aggregate!GivesRole
<1>3. \A u : RecordProofs!Create(u) = Aggregate!Create(u)
  BY DEF RecordProofs!Create, RecordProofs!NoRecord, RecordProofs!addMember,
       RecordProofs!createEmptyRecord, RecordProofs!Put, RecordProofs!Unset,
       Aggregate!Create, Aggregate!NoRecord, Aggregate!addMember,
       Aggregate!createEmptyRecord, Aggregate!Put, Aggregate!Unset
<1>4. \A u, c : RecordProofs!Change(u, c) = Aggregate!Change(u, c)
  BY <1>1, <1>2, SameTransitions, SameInvariants
  DEF RecordProofs!Change, RecordProofs!Written, Aggregate!Change, Aggregate!Written
<1> QED BY <1>3, <1>4, SameInvariants
DEF RecordProofs!Next, RecordProofs!Init, Aggregate!Next, Aggregate!Init,
       RecordProofs!vars, recordVars

LEMMA RecordBehaves == Spec /\ which = "record" => RecordProofs!Spec /\ [](which = "record")
<1>1. Init /\ which = "record" => RecordProofs!Init
  BY SameSteps DEF Init
<1>2. which = "record" /\ [Next]_vars =>
        (which = "record")' /\ [RecordProofs!Next]_(RecordProofs!vars)
  BY WhichStays, RecordSteps, SameSteps DEF RecordProofs!vars, recordVars
<1> QED BY <1>1, <1>2, PTL DEF Spec, RecordProofs!Spec

LEMMA OthersLeaveTheRecord ==
  Spec /\ which # "record" => [][UNCHANGED recordVars]_recordVars /\ [](which # "record")
<1>1. which # "record" /\ [Next]_vars => (which # "record")' /\ [UNCHANGED recordVars]_recordVars
  BY DEF Next, vars
<1> QED BY <1>1, PTL DEF Spec

(* A command that a transition accepts yields a document that can be stored *)
(* (transitionWorkRecord, parseWorkRecord).                                *)
THEOREM CommandsStayLegal == Spec => []TransitionsParse
<1>1. RecordProofs!TransitionsParse => TransitionsParse
  BY SameTransitions, SameInvariants
  DEF TransitionsParse, Aggregate!TransitionsParse, RecordProofs!TransitionsParse
<1>2. which # "record" => TransitionsParse
  BY DEF TransitionsParse
<1>3. RecordProofs!Spec => []RecordProofs!TransitionsParse
  BY CommandsOfTheRunFit, RecordProofs!EveryCommandParses
<1>4. Spec /\ which = "record" => []TransitionsParse
  BY <1>1, <1>3, RecordBehaves, PTL
<1>5. Spec /\ which # "record" => []TransitionsParse
  BY <1>2, OthersLeaveTheRecord, PTL
<1> QED BY <1>4, <1>5

\* What a later command leaves of the versions, said of either instance.
VersionsKept ==
  record # Aggregate!NoRecord =>
    \A i \in DOMAIN record.versions :
      /\ i \in DOMAIN record'.versions
      /\ record'.versions[i] = record.versions[i]
      /\ Aggregate!Snapshot(record', record.versions[i].ref) =
           Aggregate!Snapshot(record, record.versions[i].ref)
VersionsProved ==
  record # RecordProofs!NoRecord =>
    \A i \in DOMAIN record.versions :
      /\ i \in DOMAIN record'.versions
      /\ record'.versions[i] = record.versions[i]
      /\ RecordProofs!Snapshot(record', record.versions[i].ref) =
           RecordProofs!Snapshot(record, record.versions[i].ref)

\* And of the refusals.
RefusalsKept ==
  record # Aggregate!NoRecord =>
    \A s \in record.subjects, use \in {"assessment", "archive"} :
      Aggregate!Refused(record, s, use) /\ Aggregate!Shows(record', s) =>
        ~Aggregate!evaluateExportPolicy(record', "explicit", use)
RefusalsProved ==
  record # RecordProofs!NoRecord =>
    \A s \in record.subjects, use \in {"assessment", "archive"} :
      RecordProofs!Refused(record, s, use) /\ RecordProofs!Shows(record', s) =>
        ~RecordProofs!evaluateExportPolicy(record', "explicit", use)

(* Submitted versions, the snapshots they name and refusals of a use stand  *)
(* (submitVersion, addSnapshot, addUsePolicy, evaluateExplicitRequest).     *)
THEOREM HistoryStaysAsItWas == Spec => HistoryStands
<1>1. RecordProofs!Spec => RecordProofs!VersionsStand /\ RecordProofs!RefusalStands
  BY CommandsOfTheRunFit, RecordProofs!HistoryAlwaysStands DEF RecordProofs!HistoryStands
<1>3. VersionsProved => VersionsKept
  BY SameInvariants DEF VersionsProved, VersionsKept, RecordProofs!Snapshot, Aggregate!Snapshot
<1>4. RefusalsProved => RefusalsKept
  <2>1. \A rec, s, use : RecordProofs!Refused(rec, s, use) <=> Aggregate!Refused(rec, s, use)
    BY DEF RecordProofs!Refused, Aggregate!Refused
  <2>2. \A rec, s : RecordProofs!Shows(rec, s) <=> Aggregate!Shows(rec, s)
    BY DEF RecordProofs!Shows, Aggregate!Shows
  <2>3. \A rec : RecordProofs!PreservationHolds(rec) <=> Aggregate!PreservationHolds(rec)
    BY DEF RecordProofs!PreservationHolds, Aggregate!PreservationHolds
  <2>4. \A rec, use : RecordProofs!ExplicitGrant(rec, use) <=> Aggregate!ExplicitGrant(rec, use)
    BY DEF RecordProofs!ExplicitGrant, Aggregate!ExplicitGrant, RecordProofs!Unset,
           Aggregate!Unset
  <2>5. \A rec, use : RecordProofs!evaluateExportPolicy(rec, "explicit", use)
                        <=> Aggregate!evaluateExportPolicy(rec, "explicit", use)
    BY <2>3, <2>4 DEF RecordProofs!evaluateExportPolicy, Aggregate!evaluateExportPolicy
  <2> QED BY <2>1, <2>2, <2>5, SameInvariants DEF RefusalsProved, RefusalsKept
<1>5. RecordProofs!Spec => [][VersionsProved]_(RecordProofs!vars)
  BY <1>1 DEF RecordProofs!VersionsStand, VersionsProved
<1>6. RecordProofs!Spec => [][RefusalsProved]_(RecordProofs!vars)
  BY <1>1 DEF RecordProofs!RefusalStands, RefusalsProved
<1>7. [][VersionsKept]_(Aggregate!vars) /\ [][RefusalsKept]_(Aggregate!vars) => HistoryStands
  BY DEF HistoryStands, Aggregate!HistoryStands, Aggregate!VersionsStand,
         Aggregate!RefusalStands, VersionsKept, RefusalsKept
<1>8. /\ [VersionsProved]_(RecordProofs!vars) => [VersionsKept]_(Aggregate!vars)
      /\ [RefusalsProved]_(RecordProofs!vars) => [RefusalsKept]_(Aggregate!vars)
  BY <1>3, <1>4 DEF RecordProofs!vars, Aggregate!vars
<1>9. [UNCHANGED recordVars]_recordVars =>
        [VersionsKept]_(Aggregate!vars) /\ [RefusalsKept]_(Aggregate!vars)
  BY DEF Aggregate!vars, recordVars
<1>10. Spec /\ which = "record" =>
         [][VersionsKept]_(Aggregate!vars) /\ [][RefusalsKept]_(Aggregate!vars)
  BY <1>5, <1>6, <1>8, RecordBehaves, PTL
<1>11. Spec /\ which # "record" =>
         [][VersionsKept]_(Aggregate!vars) /\ [][RefusalsKept]_(Aggregate!vars)
  BY <1>9, OthersLeaveTheRecord, PTL
<1> QED BY <1>7, <1>10, <1>11

-----------------------------------------------------------------------------
(* Logins and sessions                                                     *)

LEMMA AuthSteps ==
  ASSUME [Next]_vars, which = "auth"
  PROVE  [Auth!Next]_authVars
BY DEF Next, vars

LEMMA AuthCardinality == \A S : Auth!Cardinality(S) = Cardinality(S)
BY DEF Auth!Cardinality, Cardinality

LoginStates == {[pc |-> "idle"]} \cup [pc : {"derive", "wait"}, user : {"ada", "bob"}, password : {"x", "y"}]
Deriving(table) == {l \in Logins : table[l].pc = "derive"}

\* The queue of a table of logins: whoever waits, once, and nobody else.
Queues(queue, table) ==
  /\ queue \in Seq(Logins)
  /\ \A i, j \in 1 .. Len(queue) : queue[i] = queue[j] => i = j
  /\ \A i \in 1 .. Len(queue) : table[queue[i]].pc = "wait"
  /\ \A l \in Logins : table[l].pc = "wait" => \E i \in 1 .. Len(queue) : queue[i] = l

\* A slot is taken for each derivation that runs.
TakesSlots(n, table) == IsFiniteSet(Deriving(table)) /\ n = Cardinality(Deriving(table))

AuthInv ==
  /\ login \in [Logins -> LoginStates] /\ clock \in Nat
  /\ Queues(waiting, login) /\ TakesSlots(active, login)
  /\ active <= MaxActive /\ Len(waiting) <= MaxQueued /\ (waiting # <<>> => active = MaxActive)
  /\ \A session \in sessions : session.exp \in Nat /\ session.exp <= clock + SessionLife

\* One slot more, one derivation more,
LEMMA OneSlotMore ==
  ASSUME NEW n, NEW table, NEW table2, TakesSlots(n, table), NEW l, l \notin Deriving(table),
         Deriving(table2) = Deriving(table) \cup {l}
  PROVE  TakesSlots(n + 1, table2)
<1> DEFINE D == Deriving(table)
<1>1. IsFiniteSet(D) /\ n = Cardinality(D)
  BY DEF TakesSlots
<1>2. IsFiniteSet(D \cup {l}) /\ Cardinality(D \cup {l}) = Cardinality(D) + 1
  BY <1>1, FS_AddElement
<1> QED BY <1>1, <1>2 DEF TakesSlots

\* and one less.
LEMMA OneSlotLess ==
  ASSUME NEW n, NEW table, NEW table2, TakesSlots(n, table), NEW l \in Deriving(table),
         Deriving(table2) = Deriving(table) \ {l}
  PROVE  TakesSlots(n - 1, table2)
<1> DEFINE D == Deriving(table)
<1>1. IsFiniteSet(D) /\ n = Cardinality(D)
  BY DEF TakesSlots
<1>2. IsFiniteSet(D \ {l}) /\ Cardinality(D \ {l}) = Cardinality(D) - 1
  BY <1>1, FS_RemoveElement
<1> QED BY <1>1, <1>2 DEF TakesSlots

\* A slot that is handed on.
LEMMA SlotGoesOn ==
  ASSUME NEW n, NEW table, NEW table2, TakesSlots(n, table), NEW l \in Deriving(table),
         NEW h, h \notin Deriving(table), Deriving(table2) = (Deriving(table) \ {l}) \cup {h}
  PROVE  TakesSlots(n, table2)
<1> DEFINE D == Deriving(table)
           E == D \ {l}
<1>1. IsFiniteSet(D) /\ n = Cardinality(D) /\ Cardinality(D) \in Nat
  BY FS_CardinalityType DEF TakesSlots
<1>2. IsFiniteSet(E) /\ Cardinality(E) = Cardinality(D) - 1 /\ h \notin E
  BY <1>1, FS_RemoveElement
<1>3. IsFiniteSet(E \cup {h}) /\ Cardinality(E \cup {h}) = Cardinality(E) + 1
  BY <1>2, FS_AddElement
<1>4. Cardinality(E \cup {h}) = n
  <2> HIDE DEF E, D
  <2> QED BY <1>1, <1>2, <1>3
<1> QED BY <1>3, <1>4 DEF TakesSlots

LEMMA LoginKeeps ==
  ASSUME AuthInv, NEW l \in Logins, NEW user \in {"ada", "bob"}, NEW password \in {"x", "y"},
         Auth!Login(l, user, password)
  PROVE  AuthInv'
<1> USE Bounds DEF Auth!GateBounds
<1> DEFINE q == [pc |-> "derive", user |-> user, password |-> password]
<1>1. /\ login[l] = [pc |-> "idle"] /\ UNCHANGED <<sessions, clock>>
      /\ login \in [Logins -> LoginStates]
  BY DEF Auth!Login, Auth!Idle, AuthInv
<1>2. q \in LoginStates /\ [q EXCEPT !.pc = "wait"] \in LoginStates
  BY DEF LoginStates
<1>3. CASE active < MaxActive
  <2>1. active' = active + 1 /\ login' = [login EXCEPT ![l] = q] /\ waiting' = waiting
    BY <1>3 DEF Auth!Login
  <2>2. login' \in [Logins -> LoginStates]
    BY <1>1, <1>2, <2>1
  <2>3. Deriving(login') = Deriving(login) \cup {l} /\ l \notin Deriving(login)
    BY <1>1, <2>1 DEF Deriving
  <2>4. TakesSlots(active', login')
    BY <2>1, <2>3, OneSlotMore DEF AuthInv
  <2>5. waiting = <<>> /\ active \in Nat
    BY <1>3, FS_CardinalityType DEF AuthInv, TakesSlots
  <2>6. Queues(waiting', login')
    BY <1>1, <2>1, <2>5 DEF AuthInv, Queues
  <2> QED BY <1>1, <1>3, <2>1, <2>2, <2>4, <2>5, <2>6 DEF AuthInv
<1>4. CASE ~(active < MaxActive) /\ Len(waiting) < MaxQueued
  <2>1. active' = active /\ login' = [login EXCEPT ![l] = [q EXCEPT !.pc = "wait"]] /\ waiting' = Append(waiting, l)
    BY <1>4 DEF Auth!Login
  <2>2. login' \in [Logins -> LoginStates]
    BY <1>1, <1>2, <2>1
  <2>3. Deriving(login') = Deriving(login)
    BY <1>1, <2>1 DEF Deriving
  <2>4. TakesSlots(active', login') /\ active \in Nat
    BY <2>1, <2>3, FS_CardinalityType DEF TakesSlots, AuthInv
  <2>5. Queues(waiting', login')
    <3>1. /\ Len(waiting') = Len(waiting) + 1 /\ waiting' \in Seq(Logins) /\ waiting'[Len(waiting) + 1] = l
          /\ \A i \in 1 .. Len(waiting) : waiting'[i] = waiting[i] /\ waiting[i] # l
          /\ Len(waiting) \in Nat
      BY <1>1, <2>1 DEF AuthInv, Queues
    <3>2. /\ login'[l].pc = "wait" /\ \A m \in Logins : m # l => login'[m] = login[m]
      BY <1>1, <2>1
    <3>3. \A i, j \in 1 .. Len(waiting') : waiting'[i] = waiting'[j] => i = j
      BY <3>1 DEF AuthInv, Queues
    <3>4. \A i \in 1 .. Len(waiting') : login'[waiting'[i]].pc = "wait"
      BY <3>1, <3>2 DEF AuthInv, Queues
    <3>5. \A m \in Logins : login'[m].pc = "wait" => \E i \in 1 .. Len(waiting') : waiting'[i] = m
      <4>1. ASSUME NEW m \in Logins, login'[m].pc = "wait", m # l PROVE \E i \in 1 .. Len(waiting') : waiting'[i] = m
        BY <3>1, <3>2, <4>1 DEF AuthInv, Queues
      <4>2. Len(waiting) + 1 \in 1 .. Len(waiting')
        BY <3>1
      <4> QED BY <3>1, <4>1, <4>2
    <3> QED BY <3>1, <3>3, <3>4, <3>5 DEF Queues
  <2>6. Len(waiting') <= MaxQueued /\ active' = MaxActive
    BY <1>4, <2>1, <2>4 DEF AuthInv, Queues
  <2> QED BY <1>1, <2>1, <2>2, <2>4, <2>5, <2>6 DEF AuthInv
<1>5. CASE ~(active < MaxActive) /\ ~(Len(waiting) < MaxQueued)
  <2>1. UNCHANGED <<active, waiting, login, sessions, clock>>
    BY <1>5 DEF Auth!Login
  <2> QED BY <2>1 DEF AuthInv
<1> QED BY <1>3, <1>4, <1>5

LEMMA DerivedKeeps ==
  ASSUME AuthInv, NEW l \in Logins, Auth!Derived(l)
  PROVE  AuthInv'
<1> USE Bounds DEF Auth!GateBounds
<1>1. login \in [Logins -> LoginStates] /\ login[l].pc = "derive" /\ clock' = clock /\ l \in Deriving(login)
  BY DEF Auth!Derived, AuthInv, Deriving
<1>2. \A session \in sessions' : session.exp \in Nat /\ session.exp <= clock' + SessionLife
  <2>1. \A session \in sessions' : session \in sessions \/ session.exp = clock + SessionLife
    BY DEF Auth!Derived
  <2> QED BY <1>1, <2>1 DEF AuthInv
<1>3. CASE waiting = <<>>
  <2>1. active' = active - 1 /\ login' = [login EXCEPT ![l] = [pc |-> "idle"]] /\ waiting' = waiting
    BY <1>3 DEF Auth!Derived, Auth!HandOver, Auth!Idle
  <2>2. login' \in [Logins -> LoginStates]
    BY <1>1, <2>1 DEF LoginStates
  <2>3. Deriving(login') = Deriving(login) \ {l}
    BY <1>1, <2>1 DEF Deriving
  <2>4. TakesSlots(active', login') /\ active \in Nat
    <3>1. TakesSlots(active', login')
      BY <1>1, <2>1, <2>3, OneSlotLess DEF AuthInv
    <3> QED BY <3>1, FS_CardinalityType DEF TakesSlots, AuthInv
  <2>5. Queues(waiting', login')
    BY <1>1, <1>3, <2>1 DEF AuthInv, Queues
  <2> QED BY <1>1, <1>2, <1>3, <2>1, <2>2, <2>4, <2>5 DEF AuthInv
<1>4. CASE waiting # <<>>
  <2> DEFINE h == Head(waiting)
  <2>1. active' = active /\ login' = [login EXCEPT ![l] = [pc |-> "idle"], ![h].pc = "derive"] /\ waiting' = Tail(waiting)
    BY <1>4 DEF Auth!Derived, Auth!HandOver, Auth!Idle
  <2>2. /\ Len(waiting) \in Nat \ {0} /\ h = waiting[1] /\ h \in Logins /\ login[h].pc = "wait" /\ h # l
        /\ waiting' \in Seq(Logins) /\ Len(waiting') = Len(waiting) - 1
        /\ \A i \in 1 .. Len(waiting') : waiting'[i] = waiting[i + 1]
    BY <1>1, <1>4, <2>1 DEF AuthInv, Queues
  <2> HIDE DEF h
  <2>3. /\ login'[l] = [pc |-> "idle"] /\ login'[h] = [login[h] EXCEPT !.pc = "derive"]
        /\ \A m \in Logins \ {l, h} : login'[m] = login[m]
        /\ DOMAIN login' = Logins
    BY <1>1, <2>1, <2>2
  <2>4. login' \in [Logins -> LoginStates] /\ login'[h].pc = "derive"
    <3>1. login[h] \in [pc : {"derive", "wait"}, user : {"ada", "bob"}, password : {"x", "y"}]
      BY <1>1, <2>2 DEF LoginStates
    <3>2. login'[h] \in LoginStates /\ login'[l] \in LoginStates /\ login'[h].pc = "derive"
      BY <2>3, <3>1 DEF LoginStates
    <3>3. login' \in [Logins -> LoginStates]
      BY <1>1, <2>1, <2>3, <3>2
    <3> QED BY <3>2, <3>3
  <2>5. Deriving(login') = (Deriving(login) \ {l}) \cup {h} /\ h \notin Deriving(login)
    <3>1. \A m \in Logins : login'[m].pc = "derive" <=> m = h \/ (m # l /\ login[m].pc = "derive")
      <4>1. login'[l].pc # "derive"
        BY <2>3
      <4> QED BY <2>2, <2>3, <2>4, <4>1
    <3> QED BY <2>2, <3>1 DEF Deriving
  <2>6. TakesSlots(active', login')
    BY <1>1, <2>1, <2>5, SlotGoesOn DEF AuthInv
  <2>7. Queues(waiting', login')
    <3>1. \A i \in 1 .. Len(waiting') : /\ i + 1 \in 1 .. Len(waiting) /\ i + 1 # 1
                                        /\ waiting'[i] \in Logins \ {l, h}
      <4>1. TAKE i \in 1 .. Len(waiting')
      <4>2. i + 1 \in 1 .. Len(waiting) /\ i + 1 # 1 /\ 1 \in 1 .. Len(waiting) /\ waiting'[i] = waiting[i + 1]
        BY <2>2
      <4>3. waiting[i + 1] \in Logins /\ waiting[i + 1] # h /\ login[waiting[i + 1]].pc = "wait"
        BY <2>2, <4>2 DEF AuthInv, Queues
      <4> QED BY <1>1, <4>2, <4>3
    <3>2. \A i, j \in 1 .. Len(waiting') : waiting'[i] = waiting'[j] => i = j
      BY <2>2, <3>1 DEF AuthInv, Queues
    <3>3. \A i \in 1 .. Len(waiting') : login'[waiting'[i]].pc = "wait"
      BY <2>2, <2>3, <3>1 DEF AuthInv, Queues
    <3>4. ASSUME NEW m \in Logins, login'[m].pc = "wait" PROVE \E i \in 1 .. Len(waiting') : waiting'[i] = m
      <4>1. m \in Logins \ {l, h} /\ login[m].pc = "wait"
        <5>1. login'[l].pc # "wait"
          BY <2>3
        <5> QED BY <2>3, <2>4, <3>4, <5>1
      <4>2. PICK i \in 1 .. Len(waiting) : waiting[i] = m
        BY <4>1 DEF AuthInv, Queues
      <4>3. i - 1 \in 1 .. Len(waiting') /\ waiting'[i - 1] = m
        BY <2>2, <4>1, <4>2
      <4> QED BY <4>3
    <3> QED BY <2>2, <3>2, <3>3, <3>4 DEF Queues
  <2>8. active' = MaxActive /\ Len(waiting') <= MaxQueued
    BY <1>4, <2>1, <2>2 DEF AuthInv
  <2> QED BY <1>1, <1>2, <2>1, <2>4, <2>6, <2>7, <2>8 DEF AuthInv
<1> QED BY <1>3, <1>4

\* With no login under way nothing is taken and nobody waits.
LEMMA NobodyLogsIn ==
  ASSUME NEW table, table = [l \in Logins |-> [pc |-> "idle"]]
  PROVE  table \in [Logins -> LoginStates] /\ Queues(<<>>, table) /\ TakesSlots(0, table)
<1>1. Deriving(table) = {}
  BY DEF Deriving
<1>2. TakesSlots(0, table)
  BY <1>1, FS_EmptySet DEF TakesSlots
<1> QED BY <1>2 DEF LoginStates, Queues

LEMMA AuthStarts ==
  ASSUME Auth!Init
  PROVE  AuthInv
<1> USE Bounds DEF Auth!GateBounds
<1> QED BY NobodyLogsIn DEF Auth!Init, Auth!Idle, AuthInv

LEMMA AuthStep ==
  ASSUME AuthInv, [Auth!Next]_authVars
  PROVE  AuthInv'
<1> USE Bounds DEF Auth!GateBounds
<1>1. ASSUME NEW l \in Logins, NEW user \in {"ada", "bob"}, NEW password \in {"x", "y"},
             Auth!Login(l, user, password)
      PROVE  AuthInv'
  BY <1>1, LoginKeeps
<1>2. ASSUME NEW l \in Logins, Auth!Derived(l) PROVE AuthInv'
  BY <1>2, DerivedKeeps
<1>3. CASE Auth!Tick
  BY <1>3 DEF Auth!Tick, AuthInv
<1>4. CASE Auth!Restart
  <2>1. /\ active' = 0 /\ waiting' = <<>> /\ login' = [l \in Logins |-> [pc |-> "idle"]]
        /\ sessions' = sessions /\ clock' = clock
    BY <1>4 DEF Auth!Restart, Auth!Idle
  <2>2. login' \in [Logins -> LoginStates] /\ Queues(waiting', login') /\ TakesSlots(active', login')
    BY <2>1, NobodyLogsIn
  <2> QED BY <2>1, <2>2 DEF AuthInv
<1>5. CASE UNCHANGED authVars
  BY <1>5 DEF authVars, AuthInv
<1> QED BY <1>1, <1>2, <1>3, <1>4, <1>5 DEF Auth!Next

LEMMA AuthSafe ==
  ASSUME AuthInv
  PROVE  Auth!LoginsAreSound
<1> USE Bounds DEF Auth!GateBounds
<1>1. Auth!SlotsAreExact
  <2>1. active = Auth!Cardinality({l \in Logins : login[l].pc = "derive"})
    BY AuthCardinality DEF AuthInv, TakesSlots, Deriving
  <2>2. {waiting[i] : i \in DOMAIN waiting} = {l \in Logins : login[l].pc = "wait"}
    BY DEF AuthInv, Queues
  <2> QED BY <2>1, <2>2 DEF Auth!SlotsAreExact, AuthInv
<1>2. Auth!SessionsFollowAccounts
  BY DEF AuthInv, Auth!SessionsFollowAccounts, Auth!verify
<1> QED BY <1>1, <1>2 DEF Auth!LoginsAreSound

LEMMA AuthKept == Spec => [](which = "auth" => Auth!LoginsAreSound)
<1> DEFINE I == which = "auth" => AuthInv
<1>1. Init => I
  BY AuthStarts DEF Init
<1>2. I /\ [Next]_vars => I'
  BY WhichStays, AuthSteps, AuthStep
<1>3. I => (which = "auth" => Auth!LoginsAreSound)
  BY AuthSafe
<1> QED BY <1>1, <1>2, <1>3, PTL DEF Spec

-----------------------------------------------------------------------------
(* The guesses at a password                                               *)

GuessProofs == INSTANCE LoginAdmissionProofs WITH
  Requests <- GuessRequests, MaxLag <- NoLag, Shared <- FALSE

\* The bounds of the run are what the proofs ask for.
LEMMA GuessBoundsFit ==
  /\ GuessProofs!LimitsPositive /\ GuessProofs!OneProcessReadsFreshTime
  /\ GuessProofs!SetsAreFinite /\ GuessProofs!NoneIsNothingElse /\ GuessProofs!OneProcess
<1>1. \A S : GuessProofs!IsFiniteSet(S) <=> Guesses!IsFiniteSet(S)
  BY DEF GuessProofs!IsFiniteSet, Guesses!IsFiniteSet
<1>2. GuessProofs!Attempts = Guesses!Attempts
  BY DEF GuessProofs!Attempts, Guesses!Attempts
<1> QED BY <1>1, <1>2, GuessBounds
    DEF GuessProofs!LimitsPositive, GuessProofs!OneProcessReadsFreshTime,
        GuessProofs!SetsAreFinite, GuessProofs!NoneIsNothingElse, GuessProofs!OneProcess

\* A sum is a sum in either instance.
LEMMA SameSums ==
  ASSUME NEW f, NEW S
  PROVE  GuessProofs!SumFunctionOnSet(f, S) = Guesses!SumFunctionOnSet(f, S)
BY DEF GuessProofs!SumFunctionOnSet, GuessProofs!FoldFunctionOnSet, GuessProofs!MapThenFoldSet,
       Guesses!SumFunctionOnSet, Guesses!FoldFunctionOnSet, Guesses!MapThenFoldSet

LEMMA SameSizes ==
  ASSUME NEW S
  PROVE  GuessProofs!Cardinality(S) = Guesses!Cardinality(S)
BY DEF GuessProofs!Cardinality, Guesses!Cardinality

\* The guesses of the composition behave as those of the proofs.
LEMMA SameGuesses ==
  /\ GuessProofs!GInit = Guesses!GInit /\ GuessProofs!GNext = Guesses!GNext
  /\ GuessProofs!gvars = guessVars
  /\ GuessProofs!GuessesAreBounded = Guesses!GuessesAreBounded
<1>1. GuessProofs!GInit = Guesses!GInit
  BY DEF GuessProofs!GInit, GuessProofs!Init, GuessProofs!NoFailure, GuessProofs!Idle,
         GuessProofs!NoGuess, GuessProofs!Ages, Guesses!GInit, Guesses!Init,
         Guesses!NoFailure, Guesses!Idle, Guesses!NoGuess, Guesses!Ages
<1>2. \A scope, lag : GuessProofs!Droppable(scope, lag) = Guesses!Droppable(scope, lag)
  BY SameSizes
  DEF GuessProofs!Droppable, GuessProofs!Expired, GuessProofs!Live, GuessProofs!Entries,
      GuessProofs!Open, Guesses!Droppable, Guesses!Expired, Guesses!Live,
      Guesses!Entries, Guesses!Open
<1>3. \A scope, lag, d : GuessProofs!Settled(scope, lag, d) = Guesses!Settled(scope, lag, d)
  BY SameSizes
  DEF GuessProofs!Settled, GuessProofs!Expired, GuessProofs!Live, GuessProofs!Of,
      GuessProofs!Keys, GuessProofs!Open, GuessProofs!NoFailure, Guesses!Settled,
      Guesses!Expired, Guesses!Live, Guesses!Of, Guesses!Keys, Guesses!Open, Guesses!NoFailure
<1>4. \A table, live, scope :
        GuessProofs!Tracked(table, live, scope) = Guesses!Tracked(table, live, scope)
  BY DEF GuessProofs!Tracked, GuessProofs!Entries, Guesses!Tracked, Guesses!Entries
<1>5. \A table, live, scope, key, limit :
        GuessProofs!Refused(table, live, scope, key, limit)
          = Guesses!Refused(table, live, scope, key, limit)
  BY <1>4, SameSizes DEF GuessProofs!Refused, GuessProofs!Of, Guesses!Refused, Guesses!Of
<1>6. \A r : GuessProofs!BeginLogin(r) = Guesses!BeginLogin(r)
  BY <1>2, <1>3, <1>5
  DEF GuessProofs!BeginLogin, GuessProofs!Expired, GuessProofs!Live, GuessProofs!Idle,
      Guesses!BeginLogin, Guesses!Expired, Guesses!Live, Guesses!Idle
<1>7. \A table, key, lag : GuessProofs!Charge(table, key, lag) = Guesses!Charge(table, key, lag)
  BY SameSizes
  DEF GuessProofs!Charge, GuessProofs!Open, GuessProofs!Room, GuessProofs!Entries,
      Guesses!Charge, Guesses!Open, Guesses!Room, Guesses!Entries
<1>8. \A r : GuessProofs!FinishLogin(r) = Guesses!FinishLogin(r)
  BY <1>7
  DEF GuessProofs!FinishLogin, GuessProofs!Idle, GuessProofs!NoFailure,
      Guesses!FinishLogin, Guesses!Idle, Guesses!NoFailure
<1>9. \A r : GuessProofs!Judge(r) = Guesses!Judge(r)
  BY SameSizes
  DEF GuessProofs!Judge, GuessProofs!Out, GuessProofs!Ages, Guesses!Judge, Guesses!Out,
      Guesses!Ages
<1>10. \A r : GuessProofs!Die(r) = Guesses!Die(r)
  BY DEF GuessProofs!Die, GuessProofs!Forgotten, GuessProofs!NoFailure, GuessProofs!Idle,
         Guesses!Die, Guesses!Forgotten, Guesses!NoFailure, Guesses!Idle
<1>11. GuessProofs!Tick = Guesses!Tick
  BY DEF GuessProofs!Tick, GuessProofs!Waiting, GuessProofs!Older, Guesses!Tick,
         Guesses!Waiting, Guesses!Older
<1>12. \A r : /\ \A a, s : GuessProofs!Arrive(r, a, s) = Guesses!Arrive(r, a, s)
              /\ \A o : GuessProofs!Verify(r, o) = Guesses!Verify(r, o)
              /\ GuessProofs!Guess(r) = Guesses!Guess(r)
  BY DEF GuessProofs!Arrive, GuessProofs!Verify, GuessProofs!Guess, Guesses!Arrive,
         Guesses!Verify, Guesses!Guess
<1>13. GuessProofs!GNext = Guesses!GNext
  BY <1>6, <1>8, <1>9, <1>10, <1>11, <1>12
  DEF GuessProofs!GNext, GuessProofs!NoGuess, GuessProofs!Ages, Guesses!GNext,
      Guesses!NoGuess, Guesses!Ages
<1>14. GuessProofs!GuessesAreBounded = Guesses!GuessesAreBounded
  <2>1. GuessProofs!GuessBound = Guesses!GuessBound
    BY SameSums DEF GuessProofs!GuessBound, GuessProofs!Ages, Guesses!GuessBound, Guesses!Ages
  <2>2. GuessProofs!TrackedBound = Guesses!TrackedBound
    BY <1>4, SameSizes
    DEF GuessProofs!TrackedBound, GuessProofs!Live, GuessProofs!Scopes,
        Guesses!TrackedBound, Guesses!Live, Guesses!Scopes
  <2> QED BY <2>1, <2>2 DEF GuessProofs!GuessesAreBounded, Guesses!GuessesAreBounded
<1> QED BY <1>1, <1>13, <1>14 DEF GuessProofs!gvars, guessVars

\* A step of the composition is a step of the guesses.
LEMMA GuessSteps ==
  ASSUME [Next]_vars, which = "guesses"
  PROVE  [Guesses!GNext]_guessVars
BY DEF Next, vars

LEMMA GuessesBehave == Spec /\ which = "guesses" => GuessProofs!GSpec
<1>1. Init => GuessProofs!GInit
  BY SameGuesses DEF Init
<1>2. which = "guesses" /\ [Next]_vars =>
        (which = "guesses")' /\ [GuessProofs!GNext]_(GuessProofs!gvars)
  BY WhichStays, GuessSteps, SameGuesses DEF GuessProofs!gvars, guessVars
<1> QED BY <1>1, <1>2, PTL DEF Spec, GuessProofs!GSpec

LEMMA OthersStay == Spec /\ which # "guesses" => [](which # "guesses")
<1>1. which # "guesses" /\ [Next]_vars => (which # "guesses")'
  BY WhichStays
<1> QED BY <1>1, PTL DEF Spec

LEMMA GuessesKept == Spec => [](which = "guesses" => Guesses!GuessesAreBounded)
<1>1. GuessProofs!GSpec => []GuessProofs!GuessesAreBounded
  BY GuessBoundsFit, GuessProofs!GuessesStayBounded
<1>2. GuessProofs!GuessesAreBounded => Guesses!GuessesAreBounded
  BY SameGuesses
<1>3. Spec /\ which = "guesses" => [](which = "guesses" => Guesses!GuessesAreBounded)
  BY <1>1, <1>2, GuessesBehave, PTL
<1>4. Spec /\ which # "guesses" => [](which = "guesses" => Guesses!GuessesAreBounded)
  <2>1. which # "guesses" => (which = "guesses" => Guesses!GuessesAreBounded)
    OBVIOUS
  <2> QED BY <2>1, OthersStay, PTL
<1> QED BY <1>3, <1>4

(* Slots are taken once and given back once, sessions follow the accounts,  *)
(* and guesses at an account and the keys that are tracked are bounded      *)
(* (derivePasswordKeyAsync, verify, beginLogin, finishLogin).               *)
THEOREM LoginsStaySound == Spec => []LoginsAreSound
<1>1. /\ which = "auth" => Auth!LoginsAreSound
      /\ which = "guesses" => Guesses!GuessesAreBounded
      => LoginsAreSound
  BY DEF LoginsAreSound
<1> QED BY <1>1, AuthKept, GuessesKept, PTL

-----------------------------------------------------------------------------
(* The pages of a listing                                                  *)

\* A step of the composition is a step of the listing.
LEMMA ListingSteps ==
  ASSUME [Next]_vars, which = "listing"
  PROVE  [Listing!Next]_listingVars
BY DEF Next, vars

\* The listing counts as everyone does.
LEMMA ListingCardinality == \A S : Listing!Cardinality(S) = Cardinality(S)
BY DEF Listing!Cardinality, Cardinality

\* Ids are numbers, 0 is none of them.
LEMMA IdsAreFinite == IsFiniteSet(Ids) /\ Ids \in SUBSET Nat /\ \A id \in Ids : id > 0
<1>1. Listing!IsFiniteSet(Ids) /\ Ids \subseteq Nat \ {0}
  BY Bounds DEF Listing!ListingAssumption
<1>2. IsFiniteSet(Ids)
  BY <1>1 DEF Listing!IsFiniteSet, IsFiniteSet
<1> QED BY <1>1, <1>2

\* The first elements of a sequence.
LEMMA FirstOnes ==
  ASSUME NEW S, NEW s \in Seq(S), NEW n \in 0 .. Len(s)
  PROVE  /\ SubSeq(s, 1, n) \in Seq(S) /\ Len(SubSeq(s, 1, n)) = n
         /\ \A i \in 1 .. n : SubSeq(s, 1, n)[i] = s[i]
OBVIOUS

\* A sequence of numbers that rises.
InOrder(s) == \A i, j \in DOMAIN s : i < j => s[i] < s[j]

\* A finite set of numbers can be put in order: its least number first, then the rest.
LEMMA OrderExists ==
  ASSUME NEW S \in SUBSET Nat, IsFiniteSet(S)
  PROVE  \E s \in [1 .. Cardinality(S) -> S] : InOrder(s)
<1> DEFINE Ordered(A) == \E s \in [1 .. Cardinality(A) -> A] : InOrder(s)
           Bad == {n \in Nat : \E A \in SUBSET S : Cardinality(A) = n /\ ~Ordered(A)}
<1>1. ASSUME NEW n \in Bad, \A m \in Bad : n <= m PROVE FALSE
  <2>1. PICK A \in SUBSET S : Cardinality(A) = n /\ ~Ordered(A)
    OBVIOUS
  <2>2. IsFiniteSet(A) /\ A \in SUBSET Nat /\ n \in Nat
    BY FS_Subset
  <2>3. CASE A = {}
    <3>1. Cardinality(A) = 0 /\ 1 .. 0 = {}
      BY <2>3, FS_EmptySet
    <3>2. [i \in 1 .. Cardinality(A) |-> 0] \in [1 .. Cardinality(A) -> A]
      BY <3>1
    <3>3. InOrder([i \in 1 .. Cardinality(A) |-> 0])
      BY <3>1 DEF InOrder
    <3> QED BY <2>1, <3>2, <3>3
  <2>4. CASE A # {}
    <3>1. PICK x \in A : \A y \in A : x <= y
      BY <2>2, <2>4, Sums!LeastNumber
    <3> DEFINE B == A \ {x}
    <3>2. IsFiniteSet(B) /\ Cardinality(B) = n - 1 /\ n - 1 \in Nat
      <4>1. IsFiniteSet(B) /\ Cardinality(B) = Cardinality(A) - 1
        BY <2>2, FS_RemoveElement
      <4>2. Cardinality(B) \in Nat
        BY <4>1, FS_CardinalityType
      <4> QED BY <2>1, <4>1, <4>2
    <3>3. PICK t \in [1 .. n - 1 -> B] : InOrder(t)
      <4>1. n - 1 \notin Bad
        BY <1>1, <2>2, <3>2
      <4>2. Ordered(B)
        BY <3>2, <4>1
      <4> QED BY <3>2, <4>2
    <3> DEFINE s == [i \in 1 .. n |-> IF i = 1 THEN x ELSE t[i - 1]]
    <3>4. \A i \in 1 .. n : i # 1 => i - 1 \in 1 .. n - 1 /\ t[i - 1] \in B
      BY <2>2, <3>2
    <3>5. s \in [1 .. n -> A]
      BY <3>4
    <3>6. ASSUME NEW i \in 1 .. n, NEW j \in 1 .. n, i < j PROVE s[i] < s[j]
      <4>1. j # 1 /\ s[j] = t[j - 1] /\ s[j] \in B
        BY <3>4, <3>6, <2>2
      <4>2. CASE i = 1
        <5>1. s[i] = x
          BY <4>2
        <5>2. s[j] \in A /\ s[j] # x /\ s[j] \in Nat /\ x \in Nat /\ x <= s[j]
          BY <2>2, <3>1, <4>1
        <5> HIDE DEF s
        <5> QED BY <5>1, <5>2
      <4>3. CASE i # 1
        <5>1. s[i] = t[i - 1] /\ i - 1 \in 1 .. n - 1 /\ j - 1 \in 1 .. n - 1 /\ i - 1 < j - 1
          BY <2>2, <3>4, <3>6, <4>1, <4>3
        <5> QED BY <3>3, <4>1, <5>1 DEF InOrder
      <4> QED BY <4>2, <4>3
    <3>7. InOrder(s)
      BY <3>5, <3>6 DEF InOrder
    <3> QED BY <2>1, <3>5, <3>7
  <2> QED BY <2>3, <2>4
<1>2. Bad = {}
  BY <1>1, Sums!LeastNumber
<1>3. Cardinality(S) \in Nat
  BY FS_CardinalityType
<1> QED BY <1>2, <1>3

\* Every element of the set has its place in the order.
LEMMA SortedIsWhole ==
  ASSUME NEW S \in SUBSET Nat, IsFiniteSet(S)
  PROVE  /\ Listing!Sorted(S) \in Seq(S) /\ InOrder(Listing!Sorted(S))
         /\ \A x \in S : \E i \in 1 .. Len(Listing!Sorted(S)) : Listing!Sorted(S)[i] = x
<1> DEFINE s == Listing!Sorted(S)
           n == Cardinality(S)
<1>1. s = CHOOSE t \in [1 .. n -> S] : InOrder(t)
  BY ListingCardinality DEF Listing!Sorted, InOrder
<1>2. s \in [1 .. n -> S] /\ InOrder(s)
  <2>1. \E t \in [1 .. n -> S] : InOrder(t)
    BY OrderExists
  <2> HIDE DEF s, n
  <2> QED BY <1>1, <2>1
<1>3. n \in Nat
  BY FS_CardinalityType
<1>4. s \in Seq(S) /\ Len(s) = n
  <2> HIDE DEF s, n
  <2> QED BY <1>2, <1>3
<1>5. \A x \in S : \E i \in 1 .. n : s[i] = x
  <2> HIDE DEF s, n
  <2>1. \A i \in 1 .. n : s[i] \in Nat
    BY <1>2
  <2>2. \A i, j \in 1 .. n : s[i] = s[j] => i = j
    <3>1. \A i, j \in 1 .. n : i < j => s[i] < s[j]
      BY <1>2 DEF InOrder
    <3>2. \A i, j \in 1 .. n : i < j => s[i] # s[j]
      BY <2>1, <3>1
    <3> QED BY <1>3, <3>2
  <2>3. s \in Injection(1 .. n, S)
    BY <1>2, <2>2 DEF Injection, IsInjective
  <2>4. Cardinality(1 .. n) = Cardinality(S)
    BY <1>3, FS_Interval DEF n
  <2>5. s \in Surjection(1 .. n, S)
    BY <2>3, <2>4, FS_Injection
  <2> QED BY <2>5 DEF Surjection
<1> QED BY <1>2, <1>4, <1>5

-----------------------------------------------------------------------------
\* What a walk knows: it was shown whatever was there all the time, up to where it is, and
\* its next page can be asked for with one cursor only.
ListInv ==
  /\ records \in [Ids -> Listing!Contents] /\ walk.after \in Nat
  /\ listed \in Seq(Ids) /\ InOrder(listed)
  /\ walk.pc # "ended" => \A i \in 1 .. Len(listed) : listed[i] <= walk.after
  /\ walk.pc = "idle" => cursors = {} /\ listed = <<>>
  /\ walk.pc = "walking" =>
       /\ walk.filter \in Listing!Filters
       /\ steady \subseteq Listing!Met(walk.filter)
       /\ \A id \in steady : id <= walk.after => id \in Listing!ToSet(listed)
       /\ \A c \in cursors : c.after \in Nat /\ c.after <= walk.after
       /\ \A c \in cursors : c.after = walk.after => c = Listing!Cursor(walk.filter, walk.after)
  /\ walk.pc = "ended" => steady \subseteq Listing!ToSet(listed)

\* A page of the records behind a place: it goes on from what was listed, in order, and
\* shows all of them up to where it ends.
LEMMA PageGoesOn ==
  ASSUME NEW filter, NEW after \in Nat, NEW limit \in Limits,
         listed \in Seq(Ids), InOrder(listed), \A i \in 1 .. Len(listed) : listed[i] <= after,
         Listing!ServePage(filter, after, limit)
  PROVE  /\ listed' \in Seq(Ids) /\ InOrder(listed') /\ walk'.filter = filter
         /\ Listing!ToSet(listed) \subseteq Listing!ToSet(listed')
         /\ \/ /\ walk'.pc = "ended"
               /\ \A id \in Listing!Met(filter) : id > after => id \in Listing!ToSet(listed')
            \/ /\ walk'.pc = "walking" /\ walk'.after \in Nat /\ walk'.after > after
               /\ cursors' = cursors \cup {Listing!Cursor(filter, walk'.after)}
               /\ \A i \in 1 .. Len(listed') : listed'[i] <= walk'.after
               /\ \A id \in Listing!Met(filter) :
                    id > after /\ id <= walk'.after => id \in Listing!ToSet(listed')
<1> USE Bounds DEF Listing!ListingAssumption
<1> DEFINE S == {id \in Listing!Met(filter) : id > after}
           later == Listing!Sorted(S)
           rows == Listing!Rows(filter, after, limit)
           page == SubSeq(rows, 1, IF Len(rows) < limit THEN Len(rows) ELSE limit)
           m == IF Len(later) <= limit THEN Len(later) ELSE limit
<1>1. S \in SUBSET Nat /\ S \in SUBSET Ids /\ IsFiniteSet(S) /\ \A x \in S : x > after
  BY IdsAreFinite, FS_Subset DEF Listing!Met
<1>2. /\ later \in Seq(S) /\ InOrder(later)
      /\ \A x \in S : \E i \in 1 .. Len(later) : later[i] = x
  <2> HIDE DEF S
  <2> QED BY <1>1, SortedIsWhole
<1>3. limit \in Nat \ {0} /\ Len(later) \in Nat
  BY <1>2
<1>4. rows = SubSeq(later, 1, IF Len(later) <= limit THEN Len(later) ELSE limit + 1)
  BY DEF Listing!Rows
<1>5. /\ page \in Seq(S) /\ Len(page) = m /\ \A i \in 1 .. m : page[i] = later[i]
      /\ Len(rows) > limit <=> Len(later) > limit
  <2> HIDE DEF later, rows, S
  <2>1. /\ rows \in Seq(S) /\ Len(rows) = (IF Len(later) <= limit THEN Len(later) ELSE limit + 1)
        /\ \A i \in 1 .. Len(rows) : rows[i] = later[i]
    <3> DEFINE k == IF Len(later) <= limit THEN Len(later) ELSE limit + 1
    <3>1. k \in 0 .. Len(later) /\ rows = SubSeq(later, 1, k)
      BY <1>3, <1>4
    <3> HIDE DEF k
    <3>2. rows \in Seq(S) /\ Len(rows) = k /\ \A i \in 1 .. k : rows[i] = later[i]
      BY <1>2, <3>1, FirstOnes
    <3> QED BY <3>2 DEF k
  <2>2. m \in 0 .. Len(rows) /\ m = IF Len(rows) < limit THEN Len(rows) ELSE limit
    BY <1>3, <2>1
  <2>3. page = SubSeq(rows, 1, m)
    BY <2>2
  <2>4. \A i \in 1 .. m : rows[i] = later[i]
    BY <2>1, <2>2
  <2> HIDE DEF page, m
  <2>5. page \in Seq(S) /\ Len(page) = m /\ \A i \in 1 .. m : page[i] = later[i]
    BY <2>1, <2>2, <2>3, <2>4, FirstOnes
  <2> QED BY <1>3, <2>1, <2>5
<1>6. listed' = listed \o page
  BY DEF Listing!ServePage
<1>7. /\ walk'.filter = filter
      /\ Len(rows) > limit => /\ walk'.pc = "walking" /\ walk'.after = page[Len(page)]
                              /\ cursors' = cursors \cup {Listing!Cursor(filter, page[Len(page)])}
      /\ ~(Len(rows) > limit) => walk'.pc = "ended"
  BY DEF Listing!ServePage, Listing!Last
<1> HIDE DEF page, rows, later
<1>8. m \in Nat /\ m <= Len(later)
  BY <1>3
<1> HIDE DEF m
<1>9. /\ \A i \in 1 .. m : page[i] \in S /\ page[i] \in Nat /\ page[i] > after
      /\ \A i, j \in 1 .. m : i < j => page[i] < page[j]
  <2> HIDE DEF S
  <2>1. \A i \in 1 .. m : i \in 1 .. Len(later) /\ page[i] = later[i]
    BY <1>3, <1>5, <1>8
  <2>2. \A i \in 1 .. Len(later) : later[i] \in S
    BY <1>2
  <2>3. \A i, j \in 1 .. Len(later) : i < j => later[i] < later[j]
    <3>1. DOMAIN later = 1 .. Len(later)
      BY <1>2
    <3> QED BY <1>2, <3>1 DEF InOrder
  <2>4. \A i, j \in 1 .. m : i < j => later[i] < later[j]
    BY <2>1, <2>3
  <2> QED BY <1>1, <2>1, <2>2, <2>4
<1>10. /\ listed' \in Seq(Ids) /\ Len(listed') = Len(listed) + m /\ Len(listed) \in Nat
       /\ \A i \in 1 .. Len(listed) : listed'[i] = listed[i]
       /\ \A i \in 1 .. m : listed'[Len(listed) + i] = page[i]
  <2>1. page \in Seq(Ids) /\ Len(page) = m
    BY <1>1, <1>5
  <2>2. /\ listed \o page \in Seq(Ids) /\ Len(listed \o page) = Len(listed) + Len(page)
        /\ \A i \in 1 .. Len(listed) : (listed \o page)[i] = listed[i]
        /\ \A i \in 1 .. Len(page) : (listed \o page)[Len(listed) + i] = page[i]
    <3>1. ASSUME NEW t \in Seq(Ids), NEW u \in Seq(Ids)
          PROVE  /\ t \o u \in Seq(Ids) /\ Len(t \o u) = Len(t) + Len(u)
                 /\ \A i \in 1 .. Len(t) : (t \o u)[i] = t[i]
                 /\ \A i \in 1 .. Len(u) : (t \o u)[Len(t) + i] = u[i]
      OBVIOUS
    <3> QED BY <2>1, <3>1
  <2>3. Len(listed) \in Nat
    OBVIOUS
  <2> QED BY <1>6, <2>1, <2>2, <2>3
<1>11. \A i \in 1 .. Len(listed') :
         \/ i \in 1 .. Len(listed)
         \/ i - Len(listed) \in 1 .. m /\ listed'[i] = page[i - Len(listed)]
  BY <1>8, <1>10
<1>12. InOrder(listed')
  <2> SUFFICES ASSUME NEW i \in 1 .. Len(listed'), NEW j \in 1 .. Len(listed'), i < j
               PROVE  listed'[i] < listed'[j]
    BY <1>10 DEF InOrder
  <2>1. CASE j \in 1 .. Len(listed)
    <3>1. i \in 1 .. Len(listed)
      BY <1>10, <2>1
    <3> QED BY <1>10, <2>1, <3>1 DEF InOrder
  <2>2. CASE i \in 1 .. Len(listed) /\ j \notin 1 .. Len(listed)
    <3>1. listed'[i] \in Nat /\ listed'[i] <= after
      <4>1. listed[i] \in Ids
        BY <2>2
      <4> QED BY <1>10, <2>2, <4>1
    <3>2. listed'[j] \in Nat /\ listed'[j] > after
      BY <1>9, <1>11, <2>2
    <3> QED BY <3>1, <3>2
  <2>3. CASE i \notin 1 .. Len(listed) /\ j \notin 1 .. Len(listed)
    <3>1. i - Len(listed) < j - Len(listed)
      BY <1>10
    <3> QED BY <1>9, <1>11, <2>3, <3>1
  <2> QED BY <1>10, <2>1, <2>2, <2>3
<1>13. Listing!ToSet(listed) \subseteq Listing!ToSet(listed')
  BY <1>8, <1>10 DEF Listing!ToSet
<1>14. \A i \in 1 .. m : later[i] \in Listing!ToSet(listed')
  <2> TAKE i \in 1 .. m
  <2>1. Len(listed) + i \in 1 .. Len(listed') /\ listed'[Len(listed) + i] = later[i]
    BY <1>5, <1>8, <1>10
  <2> QED BY <1>10, <2>1 DEF Listing!ToSet
<1>15. CASE ~(Len(later) > limit)
  <2>1. m = Len(later)
    BY <1>3, <1>15 DEF m
  <2>2. \A id \in Listing!Met(filter) : id > after => id \in Listing!ToSet(listed')
    BY <1>2, <1>14, <2>1
  <2> QED BY <1>5, <1>7, <1>10, <1>12, <1>13, <1>15, <2>2
<1>16. CASE Len(later) > limit
  <2>1. m = limit /\ m \in 1 .. m /\ m \in 1 .. Len(later)
    BY <1>3, <1>16 DEF m
  <2>2. /\ walk'.pc = "walking" /\ walk'.after = page[m] /\ page[m] \in Nat /\ page[m] > after
        /\ cursors' = cursors \cup {Listing!Cursor(filter, page[m])}
    BY <1>5, <1>7, <1>9, <1>16, <2>1
  <2>3. \A i \in 1 .. Len(listed') : listed'[i] <= page[m]
    <3> TAKE i \in 1 .. Len(listed')
    <3>1. CASE i \in 1 .. Len(listed)
      <4>1. listed'[i] \in Nat /\ listed'[i] <= after
        <5>1. listed[i] \in Ids
          BY <3>1
        <5> QED BY <1>10, <3>1, <5>1
      <4> QED BY <2>2, <4>1
    <3>2. CASE i - Len(listed) \in 1 .. m /\ listed'[i] = page[i - Len(listed)]
      <4>1. i - Len(listed) = m \/ i - Len(listed) < m
        BY <1>8, <3>2
      <4> QED BY <1>9, <2>1, <3>2, <4>1
    <3> QED BY <1>11, <3>1, <3>2
  <2>4. ASSUME NEW id \in Listing!Met(filter), id > after, id <= page[m]
        PROVE  id \in Listing!ToSet(listed')
    <3>1. PICK i \in 1 .. Len(later) : later[i] = id
      BY <1>2, <2>4
    <3>2. i \in 1 .. m
      <4>1. page[m] = later[m]
        BY <1>5, <2>1
      <4>2. SUFFICES ASSUME i > m PROVE FALSE
        BY <1>8, <3>1
      <4>3. later[m] < later[i]
        BY <1>2, <1>3, <2>1, <4>2 DEF InOrder
      <4> QED BY <1>1, <2>2, <2>4, <3>1, <4>1, <4>3
    <3> QED BY <1>14, <3>1, <3>2
  <2>5. /\ walk'.after \in Nat /\ walk'.after > after
        /\ cursors' = cursors \cup {Listing!Cursor(filter, walk'.after)}
        /\ \A i \in 1 .. Len(listed') : listed'[i] <= walk'.after
        /\ \A id \in Listing!Met(filter) : id > after /\ id <= walk'.after => id \in Listing!ToSet(listed')
    BY <2>2, <2>3, <2>4
  <2> QED BY <1>7, <1>10, <1>12, <1>13, <2>2, <2>5
<1> QED BY <1>15, <1>16

\* Nothing is listed at first.
LEMMA ListingStarts ==
  ASSUME Listing!Init
  PROVE  ListInv
BY DEF Listing!Init, ListInv, InOrder

\* A page adds what is behind the walk, a change takes out of `steady` what it hides.
LEMMA ListingStep ==
  ASSUME ListInv, [Listing!Next]_listingVars
  PROVE  ListInv'
<1> USE Bounds DEF Listing!ListingAssumption
<1>1. ASSUME NEW filter \in Listing!Filters, NEW limit \in Limits, Listing!FirstPage(filter, limit)
      PROVE  ListInv'
  <2>1. /\ walk.pc = "idle" /\ Listing!ServePage(filter, 0, limit) /\ steady' = Listing!Met(filter)
        /\ records' = records /\ cursors = {} /\ listed = <<>>
    BY <1>1 DEF Listing!FirstPage, ListInv
  <2>2. Listing!Met(filter)' = Listing!Met(filter) /\ \A id \in Listing!Met(filter) : id > 0
    <3>1. Listing!Met(filter)' = Listing!Met(filter)
      BY <2>1 DEF Listing!Met, Listing!Meets
    <3>2. \A id \in Listing!Met(filter) : id > 0
      BY IdsAreFinite DEF Listing!Met
    <3> QED BY <3>1, <3>2
  <2>3. InOrder(<<>>) /\ \A i \in 1 .. Len(<<>>) : <<>>[i] <= 0
    BY DEF InOrder
  <2>4. /\ listed' \in Seq(Ids) /\ InOrder(listed') /\ walk'.filter = filter
        /\ \/ /\ walk'.pc = "ended"
              /\ \A id \in Listing!Met(filter) : id > 0 => id \in Listing!ToSet(listed')
           \/ /\ walk'.pc = "walking" /\ walk'.after \in Nat /\ walk'.after > 0
              /\ cursors' = cursors \cup {Listing!Cursor(filter, walk'.after)}
              /\ \A i \in 1 .. Len(listed') : listed'[i] <= walk'.after
              /\ \A id \in Listing!Met(filter) :
                   id > 0 /\ id <= walk'.after => id \in Listing!ToSet(listed')
    BY <1>1, <2>1, <2>3, PageGoesOn DEF ListInv
  <2>5. walk'.after \in Nat
    BY <2>1, <2>4 DEF Listing!ServePage
  <2> QED BY <1>1, <2>1, <2>2, <2>4, <2>5 DEF ListInv, Listing!Cursor
<1>2. ASSUME NEW filter \in Listing!Filters, NEW c \in cursors, NEW limit \in Limits,
             Listing!NextPage(filter, c, limit)
      PROVE  ListInv'
  <2>1. /\ walk.pc = "walking" /\ c.after = walk.after /\ Listing!Accepts(filter, c)
        /\ Listing!ServePage(filter, walk.after, limit) /\ steady' = steady /\ records' = records
    BY <1>2 DEF Listing!NextPage
  <2>2. filter = walk.filter
    BY <1>2, <2>1 DEF ListInv, Listing!Accepts, Listing!Cursor, Listing!Filters
  <2>3. /\ records' \in [Ids -> Listing!Contents] /\ Listing!Met(filter)' = Listing!Met(filter)
        /\ listed \in Seq(Ids) /\ InOrder(listed) /\ walk.after \in Nat
        /\ \A i \in 1 .. Len(listed) : listed[i] <= walk.after
    BY <2>1 DEF ListInv, Listing!Met, Listing!Meets
  <2>4. /\ listed' \in Seq(Ids) /\ InOrder(listed') /\ walk'.filter = filter
        /\ Listing!ToSet(listed) \subseteq Listing!ToSet(listed')
        /\ \/ /\ walk'.pc = "ended"
              /\ \A id \in Listing!Met(filter) : id > walk.after => id \in Listing!ToSet(listed')
           \/ /\ walk'.pc = "walking" /\ walk'.after \in Nat /\ walk'.after > walk.after
              /\ cursors' = cursors \cup {Listing!Cursor(filter, walk'.after)}
              /\ \A i \in 1 .. Len(listed') : listed'[i] <= walk'.after
              /\ \A id \in Listing!Met(filter) :
                   id > walk.after /\ id <= walk'.after => id \in Listing!ToSet(listed')
    BY <2>1, <2>3, PageGoesOn
  <2>5. walk'.after \in Nat
    BY <2>1, <2>3, <2>4 DEF Listing!ServePage
  <2>6. /\ steady \subseteq Listing!Met(filter) /\ Listing!Met(filter) \subseteq Nat /\ filter \in Listing!Filters
        /\ \A id \in steady : id <= walk.after => id \in Listing!ToSet(listed)
        /\ \A d \in cursors : d.after \in Nat /\ d.after <= walk.after
    BY <1>2, <2>1, <2>2, IdsAreFinite DEF ListInv, Listing!Met
  <2>7. CASE walk'.pc = "ended"
    <3>1. \A id \in steady : id \in Listing!ToSet(listed')
      BY <2>3, <2>4, <2>6, <2>7
    <3> QED BY <2>1, <2>3, <2>4, <2>5, <2>7, <3>1 DEF ListInv
  <2>8. CASE walk'.pc # "ended"
    <3>1. \A id \in steady : id <= walk'.after => id \in Listing!ToSet(listed')
      BY <2>3, <2>4, <2>6, <2>8
    <3>2. \A d \in cursors' : d.after \in Nat /\ d.after <= walk'.after
      BY <2>3, <2>4, <2>6, <2>8 DEF Listing!Cursor
    <3>3. \A d \in cursors' : d.after = walk'.after => d = Listing!Cursor(filter, walk'.after)
      BY <2>3, <2>4, <2>6, <2>8
    <3> QED BY <2>1, <2>3, <2>4, <2>5, <2>6, <2>8, <3>1, <3>2, <3>3 DEF ListInv, Listing!Cursor
  <2> QED BY <2>7, <2>8
<1>3. ASSUME NEW id \in Ids, NEW record_ \in Listing!Contents, Listing!Change(id, record_)
      PROVE  ListInv'
  <2>1. /\ walk' = walk /\ listed' = listed /\ cursors' = cursors /\ walk.pc # "ended"
        /\ records' = [records EXCEPT ![id] = record_]
        /\ steady' = IF walk.pc = "walking" /\ ~Listing!Meets(record_, walk.filter) THEN steady \ {id} ELSE steady
    BY <1>3 DEF Listing!Change
  <2>2. records' \in [Ids -> Listing!Contents]
    BY <1>3, <2>1 DEF ListInv
  <2>3. walk.pc = "walking" => steady' \subseteq Listing!Met(walk.filter)' /\ steady' \subseteq steady
    BY <1>3, <2>1 DEF ListInv, Listing!Met, Listing!Meets
  <2> QED BY <2>1, <2>2, <2>3 DEF ListInv
<1>4. CASE UNCHANGED listingVars
  BY <1>4 DEF listingVars, ListInv, Listing!Met, Listing!Meets
<1> QED BY <1>1, <1>2, <1>3, <1>4 DEF Listing!Next

(* A walk shows no record twice and in no other order than that of the ids,  *)
(* and every record that met its filter all the time (parseCollectionQuery,  *)
(* listSummariesByMember).                                                   *)
THEOREM WalksStayWhole == Spec => []WalkIsWhole
<1> DEFINE I == which = "listing" => ListInv
<1>1. Init => I
  BY ListingStarts DEF Init
<1>2. I /\ [Next]_vars => I'
  BY WhichStays, ListingSteps, ListingStep
<1>3. I => WalkIsWhole
  BY DEF ListInv, WalkIsWhole, Listing!WalkIsWhole, InOrder
<1> QED BY <1>1, <1>2, <1>3, PTL DEF Spec
==============================================================================
