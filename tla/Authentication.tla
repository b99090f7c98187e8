---------------------------- MODULE Authentication ----------------------------
(***************************************************************************)
(* Course-local authentication of one process (packages/auth): logins      *)
(* derive a key in a bounded number of scrypt jobs, wait for a slot in a   *)
(* bounded queue, and get a signed session; a session is held against the  *)
(* accounts that are configured when it is used.  A restart loads the      *)
(* accounts again.  Admission, which surrounds a login, is LoginAdmission. *)
(***************************************************************************)
EXTENDS Integers, Sequences, FiniteSets

CONSTANTS Users, Passwords,
          Logins,          \* logins that run at once
          Configurations,  \* accounts a start may load: [user -> [role, password]]
          MaxActive, MaxQueued,
          SessionLife,     \* DEFAULT_TTL_MS, in ticks
          MaxTime, MaxRestarts, MaxSessions,
          SecretConfigured \* PRACTICE_RELAY_AUTH_SECRET is set

GateBounds == MaxActive \in Nat \ {0} /\ MaxQueued \in Nat /\ SessionLife \in Nat

VARIABLES accounts,  \* the configuration this process loaded
          active,    \* slots that are taken
          waiting,   \* logins that wait for one, first come first served
          login,     \* where each login is
          sessions,  \* every session that was signed
          started,   \* generation of a secret that is made at the start
          now

vars == <<accounts, active, waiting, login, sessions, started, now>>

Idle == [pc |-> "idle"]

Init ==
  /\ accounts \in Configurations
  /\ active = 0 /\ waiting = <<>>
  /\ login = [l \in Logins |-> Idle]
  /\ sessions = {}
  /\ started = 0
  /\ now = 0

-----------------------------------------------------------------------------
\* An unknown user costs a derivation like any other.
Login(l, user, password) ==
  /\ login[l] = Idle
  /\ LET q == [pc |-> "derive", user |-> user, password |-> password]
     IN IF active < MaxActive
        THEN /\ active' = active + 1
             /\ login' = [login EXCEPT ![l] = q]
             /\ UNCHANGED waiting
        ELSE IF Len(waiting) < MaxQueued
        THEN /\ waiting' = Append(waiting, l)
             /\ login' = [login EXCEPT ![l] = [q EXCEPT !.pc = "wait"]]
             /\ UNCHANGED active
        ELSE UNCHANGED <<active, waiting, login>>   \* AuthenticationBusyError
  /\ UNCHANGED <<accounts, sessions, started, now>>

\* Mutant: a slot is given back and handed on.
HandOver_Frees(l) ==
  /\ active' = active - 1
  /\ waiting' = IF waiting = <<>> THEN waiting ELSE Tail(waiting)
  /\ login' = [k \in Logins |->
       IF k = l THEN Idle
       ELSE IF waiting # <<>> /\ k = Head(waiting)
            THEN [login[k] EXCEPT !.pc = "derive"] ELSE login[k]]

\* The finally block: the slot goes to the next login, or back.
HandOver(l) ==
  IF waiting = <<>>
  THEN /\ active' = active - 1
       /\ login' = [login EXCEPT ![l] = Idle]
       /\ UNCHANGED waiting
  ELSE /\ waiting' = Tail(waiting)
       /\ login' = [login EXCEPT ![l] = Idle, ![Head(waiting)].pc = "derive"]
       /\ UNCHANGED active

Matches(user, password) ==
  user \in DOMAIN accounts /\ accounts[user].password = password

\* scrypt ends or fails; a session is signed for the account as configured.
Derived(l) ==
  /\ login[l].pc = "derive"
  /\ HandOver(l)
  /\ \E failed \in BOOLEAN :
       sessions' = IF \/ failed
                      \/ ~Matches(login[l].user, login[l].password)
                      \/ Cardinality(sessions) = MaxSessions
         THEN sessions
         ELSE sessions \union
           {[user |-> login[l].user, role |-> accounts[login[l].user].role,
             exp |-> now + SessionLife, made |-> started]}
  /\ UNCHANGED <<accounts, started, now>>

\* Mutant: the role of the session is believed.
verify_Believed(session) ==
  /\ SecretConfigured \/ session.made = started
  /\ session.user \in DOMAIN accounts
  /\ now <= session.exp

verify(session) ==
  /\ SecretConfigured \/ session.made = started
  /\ session.user \in DOMAIN accounts
  /\ now <= session.exp
  /\ session.role = accounts[session.user].role

-----------------------------------------------------------------------------
Tick ==
  /\ now < MaxTime
  /\ now' = now + 1
  /\ UNCHANGED <<accounts, active, waiting, login, sessions, started>>

Restart ==
  /\ started < MaxRestarts
  /\ accounts' \in Configurations
  /\ active' = 0 /\ waiting' = <<>>
  /\ login' = [l \in Logins |-> Idle]
  /\ started' = started + 1
  /\ UNCHANGED <<sessions, now>>

Next ==
  \/ \E l \in Logins :
       \/ \E user \in Users, password \in Passwords : Login(l, user, password)
       \/ Derived(l)
  \/ Tick \/ Restart

Spec == Init /\ [][Next]_vars
-----------------------------------------------------------------------------
(* A slot is lost to nobody and given to nobody twice, whether derivations *)
(* end or fail: as many are taken as derivations run, and nobody waits     *)
(* while one is free (derivePasswordKeyAsync).  A slot lost on each error  *)
(* would end in a process that answers no login.                           *)
SlotsAreExact ==
  /\ active = Cardinality({l \in Logins : login[l].pc = "derive"})
  /\ active <= MaxActive
  /\ Len(waiting) <= MaxQueued
  /\ waiting # <<>> => active = MaxActive
  /\ {waiting[i] : i \in DOMAIN waiting} = {l \in Logins : login[l].pc = "wait"}

(* A session that was signed before a restart gives nobody a role that the *)
(* configuration took away since (verify).                                 *)
SessionsFollowAccounts ==
  \A session \in sessions :
    verify(session) =>
      /\ session.user \in DOMAIN accounts
      /\ accounts[session.user].role = session.role
      /\ session.exp - now <= SessionLife

(* Logins are never locked out by a lost slot, nor sessions ahead of the   *)
(* configuration.                                                          *)
LoginsAreSound == SlotsAreExact /\ SessionsFollowAccounts
=============================================================================
