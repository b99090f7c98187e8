----------------------------- MODULE MCRecoveries -----------------------------
(***************************************************************************)
(* What must happen in the end, checked under fairness: the JSON store,    *)
(* the PostgreSQL media store and the admission of logins, one of them in  *)
(* each behaviour (`which`), the others standing still.                    *)
(***************************************************************************)
EXTENDS Integers, FiniteSets

CONSTANTS Ids, System, NoRecord, MaxOps, BackupIds, Gone, Keep, None, MaxRestarts,
          Uploads, Takes, Workers, MaxObject, MaxRecord, MaxUploads, MaxTransfers,
          Lease, Quiet, PutTime, MaxDeaths, MaxRefers,
          Accounts, Sources, Requests, Leases, AccountLimit, SourceLimit, Window,
          MaxTracked, MaxLag, Shared

VARIABLES which,
  live, next, previous, staged, leftovers, marker, pending, counters, backups, pc, then,
  serving, boot, area, nextOp, acked, lapses, restarts,
  takes, uploads, objects, jobs, leases, stored, flight, writer, worker,
  deaths, revived,
  failures, attempts, request

jsonVars == <<live, next, previous, staged, leftovers, marker, pending, counters, backups, pc,
              then, serving, boot, area, nextOp, acked, lapses, restarts>>
mediaVars == <<takes, uploads, objects, jobs, leases, stored, flight, writer, worker,
               deaths, revived>>
loginVars == <<failures, attempts, request>>
vars == <<which, jsonVars, mediaVars, loginVars>>

Json == INSTANCE JsonStore WITH stops <- restarts, MaxStops <- MaxRestarts
Media == INSTANCE PgMedia WITH stops <- deaths, MaxStops <- MaxDeaths
Logins == INSTANCE LoginAdmission

Init ==
  /\ which \in {"json", "media", "logins"}
  /\ Json!Init /\ Media!Init /\ Logins!Init

Only(machine, rest) == which = machine /\ UNCHANGED <<which, rest>>
OfJson == Only("json", <<mediaVars, loginVars>>)
OfMedia == Only("media", <<jsonVars, loginVars>>)
OfLogins == Only("logins", <<jsonVars, mediaVars>>)

Next ==
  \/ OfJson /\ Json!Next
  \/ OfMedia /\ Media!Next
  \/ OfLogins /\ Logins!Next

Spec == Init /\ [][Next]_vars

(* The process of the store goes on with what it began, and is started     *)
(* again when it stopped.                                                  *)
JsonFairness == WF_vars(OfJson /\ Json!Progress)

(* Every process that lives goes on, a pass is started every 30 s, and     *)
(* time passes.                                                            *)
MediaFairness ==
  /\ WF_vars(OfMedia /\ Media!Tick)
  /\ \A u \in Uploads : WF_vars(OfMedia /\ Media!UploadStep(u))
  /\ \A w \in Workers : WF_vars(OfMedia /\ Media!WorkStep(w))

(* A login that was accepted runs to its end, and time passes: strongly    *)
(* fair, since MaxLag makes the clock wait for the callers that hold an    *)
(* old reading.                                                            *)
LoginFairness ==
  /\ SF_vars(OfLogins /\ Logins!Tick)
  /\ \A r \in Requests :
       /\ WF_vars(OfLogins /\ Logins!BeginLogin(r))
       /\ WF_vars(OfLogins /\ Logins!FinishLogin(r))
       /\ WF_vars(OfLogins /\ \E o \in {"right", "wrong", "none"} : Logins!Verify(r, o))

(* An interrupted operation or restore does not stay half done.            *)
RecoveryCompletes == which = "json" /\ JsonFairness => Json!RecoveryCompletes

(* Every upload ends in the record, or with nothing left of it.            *)
EndsServedOrClean == which = "media" /\ MediaFairness => Media!EndsServedOrClean

(* A lockout ends, of an account and of a source.                          *)
LockoutsEnd == which = "logins" /\ LoginFairness => Logins!LockoutsEnd
=============================================================================
