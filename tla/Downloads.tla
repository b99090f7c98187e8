------------------------------ MODULE Downloads ------------------------------
(***************************************************************************)
(* Downloads of one media object by several requests of several processes. *)
(* A download takes a slot of its process and, with the PostgreSQL         *)
(* adapter, a lease of the deployment; it stages the whole object in a     *)
(* private file and verifies it, asks again whether the caller may have    *)
(* it, sends the head and streams the file.  The client may go, the time   *)
(* may run out and the lease may be lost anywhere; whatever happens, the   *)
(* file, the lease and the slot are given back.                            *)
(***************************************************************************)
EXTENDS Naturals, FiniteSets, FiniteSetsExt

CONSTANTS Transfers,      \* the downloads
          Deployments,    \* of processes: [on |-> [Transfers -> the process that serves it],
                          \*                leased |-> whether the adapter keeps leases (PostgreSQL)]
          MaxProcess,     \* transfers of a process
          MaxDeployment,  \* leases of the deployment
          MaxMishaps      \* bound on what happens from outside

VARIABLES deployment,     \* the one that runs
          access,         \* what the caller may: "full", "noTake", "stranger", "signedOut"
          bytes,          \* the object in its store: "whole", "damaged" or "missing"
          run,            \* [Transfers -> one download]
          active,         \* [process -> slots taken]
          leases,         \* [Transfers -> "none", "live" or "lapsed"]
          up,             \* [process -> "up", "stopped" or "thrown"]
          mishaps         \* what happened from outside so far

vars == <<deployment, access, bytes, run, active, leases, up, mishaps>>

DownloadsAssumption ==
  /\ MaxProcess \in Nat \ {0} /\ MaxDeployment \in Nat \ {0} /\ MaxMishaps \in Nat
  /\ IsFiniteSet(Transfers)
  /\ \A s \in Deployments : DOMAIN s.on = Transfers /\ s.leased \in BOOLEAN

On == deployment.on
Leased == deployment.leased
Gates == {On[d] : d \in Transfers}
Fresh == [at |-> "new", aborted |-> FALSE, gone |-> FALSE, file |-> "none", heads |-> 0,
          status |-> 0, sent |-> "nothing", throws |-> FALSE, withdrawn |-> FALSE, faulty |-> FALSE]
Under(d, at) == run[d].at = at /\ up[On[d]] = "up"
Holding == {"lease", "open", "stage", "again", "stream", "close"}
Still == UNCHANGED <<access, bytes, up, mishaps>>
Mishap == mishaps < MaxMishaps /\ mishaps' = mishaps + 1

-----------------------------------------------------------------------------
(* Ends of a download.                                                     *)

\* An answer, when nothing of the transfer is held any more.
Ended(run_, status) == [run_ EXCEPT !.at = "over", !.status = status, !.heads = @ + 1]
Refuse(d, status) == run' = [run EXCEPT ![d] = Ended(@, status)] /\ UNCHANGED <<active, leases>>

\* releaseTransfer, whose failure is swallowed, and then the slot of the process.
Released(d, run_) ==
  /\ active' = [active EXCEPT ![On[d]] = @ - 1]
  /\ \/ leases' = [leases EXCEPT ![d] = "none"] /\ run' = [run EXCEPT ![d] = run_]
     \/ /\ Leased /\ leases[d] # "none" /\ UNCHANGED leases
        /\ run' = [run EXCEPT ![d] = [run_ EXCEPT !.faulty = TRUE]]

Permitted == access = "full"
Denial == [noTake |-> 404, stranger |-> 403, signedOut |-> 401][access]

-----------------------------------------------------------------------------
(* A download, one await after the other.                                  *)

\* The session is checked before anything is awaited.
Ask(d) ==
  /\ Under(d, "new") /\ Still /\ UNCHANGED <<active, leases>>
  /\ run' = [run EXCEPT ![d] = IF access = "signedOut" THEN Ended(@, 401) ELSE [@ EXCEPT !.at = "authorize"]]

Authorize(d) ==
  /\ Under(d, "authorize") /\ Still
  /\ IF Permitted
     THEN run' = [run EXCEPT ![d].at = "look"] /\ UNCHANGED <<active, leases>>
     ELSE Refuse(d, Denial)

\* The metadata of the key, and at once a slot of the process.
Look(d) ==
  /\ Under(d, "look") /\ Still
  /\ \/ access = "noTake" /\ Refuse(d, 404)      \* no longer attached
     \/ active[On[d]] >= MaxProcess /\ Refuse(d, 429)
     \/ /\ active[On[d]] < MaxProcess /\ UNCHANGED leases
        /\ active' = [active EXCEPT ![On[d]] = @ + 1]
        /\ run' = [run EXCEPT ![d].at = IF Leased THEN "lease" ELSE "open"]

\* A query of the first steps fails.
QueryFails(d) ==
  /\ run[d].at \in {"authorize", "look"} /\ up[On[d]] = "up" /\ Still /\ Refuse(d, 500)

\* The transaction of a lease: lapsed leases are deleted, the others counted.
Living == {d \in Transfers : leases[d] = "live"}
Swept == [d \in Transfers |-> IF leases[d] = "lapsed" THEN "none" ELSE leases[d]]
Lease(d) ==
  /\ Under(d, "lease") /\ Still
  /\ IF Cardinality(Living) >= MaxDeployment
     THEN /\ run' = [run EXCEPT ![d] = Ended(@, 429)] /\ UNCHANGED leases
          /\ active' = [active EXCEPT ![On[d]] = @ - 1]
     ELSE /\ leases' = [Swept EXCEPT ![d] = "live"]
          /\ \/ run' = [run EXCEPT ![d].at = "open"] /\ UNCHANGED active
             \/ /\ run' = [run EXCEPT ![d] = [Ended(@, 500) EXCEPT !.faulty = TRUE]]  \* COMMIT unheard
                /\ active' = [active EXCEPT ![On[d]] = @ - 1]

LeaseFails(d) ==
  /\ Under(d, "lease") /\ Still /\ UNCHANGED leases
  /\ run' = [run EXCEPT ![d] = Ended(@, 500)]
  /\ active' = [active EXCEPT ![On[d]] = @ - 1]

\* Mutant: an object that is not there keeps its slot.
Open_Keeps(d) ==
  /\ Under(d, "open") /\ Still
  /\ \/ bytes = "missing" /\ Refuse(d, 404)
     \/ Released(d, Ended(run[d], 500))
     \/ /\ bytes # "missing" /\ ~run[d].aborted
        /\ run' = [run EXCEPT ![d].at = "stage"] /\ UNCHANGED <<active, leases>>

\* The stream of the object.
Open(d) ==
  /\ Under(d, "open") /\ Still
  /\ \/ bytes = "missing" /\ Released(d, Ended(run[d], 404))
     \/ Released(d, Ended(run[d], 500))
     \/ /\ bytes # "missing" /\ ~run[d].aborted
        /\ run' = [run EXCEPT ![d].at = "stage"] /\ UNCHANGED <<active, leases>>

\* Mutant: the staged bytes are not compared with the metadata.
Verified_Trusted(content) == TRUE

Verified(content) == content = "whole"

\* The staged file, or, when the transfer was aborted, a write failed or the bytes are not those
\* of the metadata, no file (unless its removal fails too) and an error that no handler knows.
Stage(d) ==
  /\ Under(d, "stage") /\ Still
  /\ \/ /\ ~run[d].aborted /\ bytes # "missing" /\ Verified(bytes)
        /\ run' = [run EXCEPT ![d].at = "again", ![d].file = bytes] /\ UNCHANGED <<active, leases>>
     \/ Released(d, Ended(run[d], 500))
     \/ Released(d, [Ended(run[d], 500) EXCEPT !.file = "left", !.faulty = TRUE])

\* The head, with nothing awaited since the caller was found permitted.  The stream of the file
\* is refused when the transfer was aborted; that error is swallowed if the client is gone.
Head(run_) ==
  [run_ EXCEPT !.status = 200, !.heads = @ + 1,
               !.at = IF run_.aborted THEN "close" ELSE "stream",
               !.throws = run_.aborted /\ ~run_.gone]

\* The caller may no longer have it.
Denied(run_) == [run_ EXCEPT !.status = Denial, !.heads = @ + 1, !.at = "close"]

\* Mutant: the head is sent without asking again.
Again_Unasked(d) ==
  /\ Under(d, "again") /\ Still /\ UNCHANGED <<active, leases>>
  /\ run' = [run EXCEPT ![d] = Head(@)]

Again(d) ==
  /\ Under(d, "again") /\ Still /\ UNCHANGED <<active, leases>>
  /\ run' = [run EXCEPT ![d] = IF Permitted THEN Head(@) ELSE Denied(@)]

AgainFails(d) ==
  /\ Under(d, "again") /\ Still /\ UNCHANGED <<active, leases>>
  /\ run' = [run EXCEPT ![d].at = "close", ![d].throws = TRUE]

\* The pipeline sends all of the file, or destroys the response and is silent about it.
Stream(d) ==
  /\ Under(d, "stream") /\ Still /\ UNCHANGED <<active, leases>>
  /\ \/ ~run[d].aborted /\ run' = [run EXCEPT ![d].at = "close", ![d].sent = run[d].file]
     \/ run' = [run EXCEPT ![d].at = "close", ![d].sent = "cut"]

\* cleanup: the file goes, or its removal fails and the rest is given back all the same.
Cleaned(d) ==
  {[run[d] EXCEPT !.at = "closing", !.file = "none"],
   [run[d] EXCEPT !.at = "closing", !.file = "left", !.faulty = TRUE]}

\* Mutant: a removal that fails keeps the slot and the lease.
Close_OnlyAfterRemoval(d) ==
  /\ Under(d, "close") /\ Still
  /\ \E c \in Cleaned(d) :
       IF c.file = "left" THEN run' = [run EXCEPT ![d] = c] /\ UNCHANGED <<active, leases>>
       ELSE Released(d, c)

Close(d) ==
  /\ Under(d, "close") /\ Still
  /\ \E c \in Cleaned(d) : Released(d, c)

\* What was thrown becomes an answer; a second head throws again, out of the request, and an
\* unhandled rejection ends the process.
Over(d) ==
  /\ Under(d, "closing") /\ UNCHANGED <<access, bytes, leases, mishaps>>
  /\ IF run[d].throws /\ run[d].heads > 0
     THEN /\ up' = [up EXCEPT ![On[d]] = "thrown"] /\ active' = [active EXCEPT ![On[d]] = 0]
          /\ UNCHANGED run
     ELSE /\ UNCHANGED <<active, up>>
          /\ run' = [run EXCEPT ![d] = IF @.throws THEN Ended(@, 500) ELSE [@ EXCEPT !.at = "over"]]

-----------------------------------------------------------------------------
(* What happens meanwhile.                                                 *)

\* Lifetime of a transfer: from the authorised request to its end.
Alive(d) == run[d].at \in {"look", "lease", "open", "stage", "again", "stream"} /\ up[On[d]] = "up"

ClientGoes(d) ==
  /\ Mishap
  /\ Alive(d) /\ ~run[d].gone
  /\ run' = [run EXCEPT ![d].gone = TRUE, ![d].aborted = TRUE]
  /\ UNCHANGED <<access, bytes, active, leases, up>>

TimeRunsOut(d) ==
  /\ Mishap
  /\ Alive(d) /\ ~run[d].aborted
  /\ run' = [run EXCEPT ![d].aborted = TRUE]
  /\ UNCHANGED <<access, bytes, active, leases, up>>

\* The renewal of a lease finds that it lapsed, or its query fails.
RenewalFails(d) ==
  /\ Mishap
  /\ Leased /\ run[d].at \in Holding \ {"lease", "close"} /\ up[On[d]] = "up" /\ ~run[d].aborted
  /\ run' = [run EXCEPT ![d].aborted = TRUE]
  /\ UNCHANGED <<access, bytes, active, leases, up>>

\* A lease that nobody renewed in time.
Lapse(d) ==
  /\ Mishap
  /\ leases[d] = "live" /\ leases' = [leases EXCEPT ![d] = "lapsed"]
  /\ UNCHANGED <<access, bytes, run, active, up>>

Withdraw ==
  /\ Mishap
  /\ access = "full" /\ access' \in {"noTake", "stranger", "signedOut"}
  /\ run' = [d \in Transfers |->
       [run[d] EXCEPT !.withdrawn = run[d].at \in {"look", "lease", "open", "stage", "again"}]]
  /\ UNCHANGED <<bytes, active, leases, up>>

Damage ==
  /\ Mishap
  /\ bytes = "whole" /\ bytes' \in {"damaged", "missing"}
  /\ UNCHANGED <<access, run, active, leases, up>>

Stop(p) ==
  /\ Mishap
  /\ up[p] = "up" /\ up' = [up EXCEPT ![p] = "stopped"] /\ active' = [active EXCEPT ![p] = 0]
  /\ UNCHANGED <<access, bytes, run, leases>>

Init ==
  /\ deployment \in Deployments
  /\ access = "full" /\ bytes = "whole" /\ run = [d \in Transfers |-> Fresh]
  /\ active = [p \in Gates |-> 0] /\ leases = [d \in Transfers |-> "none"]
  /\ up = [p \in Gates |-> "up"] /\ mishaps = 0

Next ==
  /\ deployment' = deployment
  /\ \/ \E d \in Transfers :
          \/ Ask(d) \/ Authorize(d) \/ Look(d) \/ QueryFails(d) \/ Lease(d) \/ LeaseFails(d) \/ Open(d)
          \/ Stage(d) \/ Again(d) \/ AgainFails(d) \/ Stream(d) \/ Close(d) \/ Over(d)
          \/ ClientGoes(d) \/ TimeRunsOut(d) \/ RenewalFails(d) \/ Lapse(d)
     \/ Withdraw \/ Damage \/ \E p \in Gates : Stop(p)

Spec == Init /\ [][Next]_vars

-----------------------------------------------------------------------------
(* Whatever fails, a slot is taken by exactly the transfers under way, and *)
(* the deployment never has more leases alive than its limit.              *)
SlotsAreExact ==
  /\ \A p \in Gates : up[p] = "up" =>
       /\ active[p] = Cardinality({d \in Transfers : On[d] = p /\ run[d].at \in Holding})
       /\ active[p] <= MaxProcess
  /\ Cardinality(Living) <= MaxDeployment

\* No client gets bytes that are not the object's, nor any once access was withdrawn while the
\* object was being staged.
ServesWhatIsAllowed ==
  \A d \in Transfers :
    /\ run[d].sent \in {"nothing", "cut", "whole"}
    /\ run[d].withdrawn => run[d].status # 200

\* Unless a deletion failed, a download that is over has left neither file nor lease.
LeavesNothing ==
  \A d \in Transfers : run[d].at = "over" /\ ~run[d].faulty =>
    run[d].file = "none" /\ leases[d] = "none"

\* A download that is over was answered once.  A process is ended by a second answer only when
\* a transfer was aborted, its client still there, between its staging and its head.
AnsweredOnce ==
  /\ \A d \in Transfers : run[d].at = "over" => run[d].heads = 1
  /\ \A p \in Gates : up[p] = "thrown" =>
       \E d \in Transfers : On[d] = p /\ run[d].status = 200 /\ run[d].aborted /\ run[d].sent = "nothing"

DownloadsAreSound == SlotsAreExact /\ ServesWhatIsAllowed /\ LeavesNothing /\ AnsweredOnce
=============================================================================
