---------------------------- MODULE LoginAdmission ----------------------------
(***************************************************************************)
(* Login admission: beginLogin and finishLogin of packages/runtime-state,  *)
(* called by serveLogin around one password verification.                  *)
(*                                                                         *)
(* Shared = FALSE is the adapter of one process (memory-state.ts): a call  *)
(* runs from Date.now() to its end without interruption.  Shared = TRUE is *)
(* the PostgreSQL adapter (postgres-state.ts): a call reads the clock of   *)
(* its process, then waits for the tenant's advisory lock, so it may work  *)
(* with a time up to MaxLag ticks old and calls may get the lock out of    *)
(* the order of their times.                                               *)
(*                                                                         *)
(* Times are kept as the time left (`left`): a tick lowers all of them, so *)
(* that the clock needs no bound.  An entry is over for a caller whose     *)
(* reading is `lag` old when left + lag <= 0.                              *)
(***************************************************************************)
EXTENDS Integers, FiniteSets

CONSTANTS Accounts, Sources,          \* admission keys
          Requests,                   \* concurrent login requests
          Leases,                     \* attempt ids (UUIDs)
          AccountLimit, SourceLimit,  \* DEFAULT_LOGIN_LIMIT, DEFAULT_SOURCE_LIMIT
          Window,                     \* windowMs, in ticks
          MaxTracked,                 \* MAX_TRACKED_LOGIN_KEYS
          MaxLag,                     \* longest wait between Date.now() and the lock
          Shared,                     \* PostgreSQL adapter?
          None

ASSUME LimitsPositive ==
  /\ AccountLimit \in Nat \ {0} /\ SourceLimit \in Nat \ {0}
  /\ Window \in Nat \ {0} /\ MaxTracked \in Nat \ {0} /\ MaxLag \in Nat
ASSUME OneProcessReadsFreshTime == Shared \in BOOLEAN /\ (~Shared => MaxLag = 0)
ASSUME SetsAreFinite == IsFiniteSet(Leases) /\ IsFiniteSet(Accounts) /\ IsFiniteSet(Sources)

Attempts == [account : Accounts, source : Sources, left : -MaxLag .. Window]
ASSUME NoneIsNothingElse == None \notin Attempts /\ None \notin {"right", "wrong", "none"}

Keys == [account |-> Accounts, source |-> Sources]
Scopes == {"account", "source"}

VARIABLES
  failures,  \* per scope and key: [count, left]; count 0 is an absent entry
  attempts,  \* per lease: [account, source, left], or None
  request    \* per request: where serveLogin is, and what it holds
vars == <<failures, attempts, request>>

NoFailure == [count |-> 0, left |-> -MaxLag]
Idle == [phase |-> "idle", account |-> None, source |-> None, lease |-> None, lag |-> 0, outcome |-> None]

Init ==
  /\ failures = [account |-> [k \in Accounts |-> NoFailure], source |-> [k \in Sources |-> NoFailure]]
  /\ attempts = [l \in Leases |-> None]
  /\ request = [r \in Requests |-> Idle]

-----------------------------------------------------------------------------
Live == {l \in Leases : attempts[l] # None}
Of(live, scope, key) == {l \in live : attempts[l][scope] = key}
Entries(table) == {k \in DOMAIN table : table[k].count > 0}

\* The failure window of a key is open for a caller whose clock reading is lag old.
Open(failure, lag) == failure.count > 0 /\ failure.left + lag > 0

\* increment: a failure joins the open window of its key or opens a new one.  The
\* memory adapter opens none when its table is full, even for a key whose own
\* closed entry is what fills it.
Room_Bounded(table) == Cardinality(Entries(table)) < MaxTracked   \* mutant: with PostgreSQL too
Room(table) == Shared \/ Cardinality(Entries(table)) < MaxTracked
Charge_LateWindow(table, key, lag) ==      \* mutant: the window starts at the lock, after the reading
  IF Open(table[key], lag) THEN [table EXCEPT ![key].count = @ + 1]
  ELSE IF Room(table) THEN [table EXCEPT ![key] = [count |-> 1, left |-> Window + lag]]
  ELSE table
Charge(table, key, lag) ==
  IF Open(table[key], lag) THEN [table EXCEPT ![key].count = @ + 1]
  ELSE IF Room(table) THEN [table EXCEPT ![key] = [count |-> 1, left |-> Window - lag]]
  ELSE table

\* settleExpiredAttempts: every expired lease is charged as a failure, then closed
\* windows are dropped.  `dropped` are the keys whose charge finds a full table; it
\* depends on the order in which the leases are visited (see Droppable).
Expired(lag) == {l \in Live : attempts[l].left + lag <= 0}
\* Mutant: closed windows are not dropped.
Settled_KeepsClosed(scope, lag, dropped) ==
  LET due(k) == Cardinality(Of(Expired(lag), scope, k))
  IN  [k \in Keys[scope] |->
         IF failures[scope][k].count > 0 \/ k \in dropped
           THEN [failures[scope][k] EXCEPT !.count = @ + due(k)]
         ELSE IF due(k) > 0 THEN [count |-> due(k), left |-> Window - lag]
         ELSE NoFailure]

\* Mutant: every window is dropped, open or closed.
Settled_DropsOpen(scope, lag, dropped) ==
  LET due(k) == Cardinality(Of(Expired(lag), scope, k))
  IN  [k \in Keys[scope] |->
         IF due(k) > 0 THEN [count |-> due(k), left |-> Window - lag] ELSE NoFailure]

Settled(scope, lag, dropped) ==
  LET due(k) == Cardinality(Of(Expired(lag), scope, k))
  IN  [k \in Keys[scope] |->
         IF Open(failures[scope][k], lag)
           THEN [failures[scope][k] EXCEPT !.count = @ + due(k)]
         ELSE IF due(k) > 0 /\ k \notin dropped
           THEN [count |-> due(k), left |-> Window - lag]
         ELSE NoFailure]

\* Keys that lose their charge: none with PostgreSQL; in memory those with a closed
\* entry of their own, certainly if the table is full before the visit, possibly
\* if the visit itself fills it.
Droppable(scope, lag) ==
  LET table == failures[scope]
      dueKeys == {attempts[l][scope] : l \in Expired(lag)}
      closed == {k \in dueKeys \cap Entries(table) : ~Open(table[k], lag)}
  IN  IF Shared \/ Cardinality(Entries(table) \cup dueKeys) < MaxTracked THEN {{}}
      ELSE IF Cardinality(Entries(table)) >= MaxTracked THEN {closed}
      ELSE SUBSET closed

\* The decision of beginLogin after the settlement.
Tracked(table, live, scope) == Entries(table) \cup {attempts[l][scope] : l \in live}
Refused_CountsFailuresOnly(table, live, scope, key, limit) ==     \* mutant: leases do not count
  \/ key \notin Tracked(table, live, scope) /\ Cardinality(Tracked(table, live, scope)) >= MaxTracked
  \/ table[key].count >= limit
Refused_NoTableBound(table, live, scope, key, limit) ==           \* mutant: any number of keys
  table[key].count + Cardinality(Of(live, scope, key)) >= limit
Refused(table, live, scope, key, limit) ==
  \/ key \notin Tracked(table, live, scope) /\ Cardinality(Tracked(table, live, scope)) >= MaxTracked
  \/ table[key].count + Cardinality(Of(live, scope, key)) >= limit

-----------------------------------------------------------------------------
\* serveLogin calls beginLogin, which reads the clock.
Arrive(r, a, s) ==
  /\ request[r].phase = "idle"
  /\ request' = [request EXCEPT ![r] =
       [phase |-> "begin", account |-> a, source |-> s, lease |-> None, lag |-> 0, outcome |-> None]]
  /\ UNCHANGED <<failures, attempts>>

\* beginLogin under the tenant's lock: settle, then refuse or insert a lease.
BeginLogin(r) ==
  LET q == request[r]
      live == Live \ Expired(q.lag)
  IN  /\ q.phase = "begin"
      /\ \E da \in Droppable("account", q.lag), ds \in Droppable("source", q.lag) :
           failures' = [account |-> Settled("account", q.lag, da), source |-> Settled("source", q.lag, ds)]
      /\ IF \/ Refused(failures'.account, live, "account", q.account, AccountLimit)
            \/ Refused(failures'.source, live, "source", q.source, SourceLimit)
         THEN /\ attempts' = [l \in Leases |-> IF l \in live THEN attempts[l] ELSE None]
              /\ request' = [request EXCEPT ![r] = Idle]
         ELSE \E l \in Leases \ (Live \cup {request[o].lease : o \in Requests}) :
              /\ attempts' = [x \in Leases |->
                   IF x = l THEN [account |-> q.account, source |-> q.source, left |-> Window - q.lag]
                   ELSE IF x \in live THEN attempts[x] ELSE None]
              /\ request' = [request EXCEPT ![r] =
                   [phase |-> "verify", account |-> q.account, source |-> q.source,
                    lease |-> l, lag |-> 0, outcome |-> None]]

\* auth.login answers: right, wrong, or (queue full, error) no verdict.  finishLogin
\* then reads the clock.
Verify(r, outcome) ==
  /\ request[r].phase = "verify"
  /\ request' = [request EXCEPT ![r].phase = "finish", ![r].outcome = outcome]
  /\ UNCHANGED <<failures, attempts>>

\* finishLogin: only the lease that is still there is settled.
FinishLogin(r) ==
  LET q == request[r]
      lease == attempts[q.lease]
      expired == lease.left + q.lag <= 0
  IN  /\ q.phase = "finish"
      /\ request' = [request EXCEPT ![r] = Idle]
      /\ IF lease = None THEN UNCHANGED <<failures, attempts>>
         ELSE /\ attempts' = [attempts EXCEPT ![q.lease] = None]
              /\ failures' =
                   IF expired \/ q.outcome = "wrong"
                     THEN [account |-> Charge(failures.account, lease.account, q.lag),
                           source  |-> Charge(failures.source, lease.source, q.lag)]
                   ELSE IF q.outcome = "right"
                     THEN [failures EXCEPT !.account[lease.account] = NoFailure]
                   ELSE failures

\* The process of a request dies.  With several, the request ends and its lease stays
\* in the database; the only process takes its state with it.
Forgotten ==
  /\ failures' = [account |-> [k \in Accounts |-> NoFailure], source |-> [k \in Sources |-> NoFailure]]
  /\ attempts' = [l \in Leases |-> None]
  /\ request' = [r \in Requests |-> Idle]
Die(r) ==
  /\ request[r].phase # "idle"
  /\ IF Shared THEN request' = [request EXCEPT ![r] = Idle] /\ UNCHANGED <<failures, attempts>>
     ELSE Forgotten

\* Time passes.  A caller waits at most MaxLag ticks for the lock; a time left of
\* -MaxLag is over for every caller and is not lowered further.
Waiting(r) == request[r].phase \in {"begin", "finish"}
Older(x) == [x EXCEPT !.left = IF @ > -MaxLag THEN @ - 1 ELSE @]
Tick ==
  /\ \A r \in Requests : Waiting(r) => request[r].lag < MaxLag
  /\ failures' = [account |-> [k \in Accounts |-> Older(failures.account[k])],
                  source  |-> [k \in Sources |-> Older(failures.source[k])]]
  /\ attempts' = [l \in Leases |-> IF attempts[l] = None THEN None ELSE Older(attempts[l])]
  /\ request' = [r \in Requests |-> IF Waiting(r) THEN [request[r] EXCEPT !.lag = @ + 1] ELSE request[r]]

Next ==
  \/ \E r \in Requests :
       \/ \E a \in Accounts, s \in Sources : Arrive(r, a, s)
       \/ BeginLogin(r)
       \/ \E o \in {"right", "wrong", "none"} : Verify(r, o)
       \/ FinishLogin(r)
       \/ Die(r)
  \/ Tick

Spec == Init /\ [][Next]_vars

-----------------------------------------------------------------------------
(* Properties                                                               *)

Failures(keys) == [keys -> [count : Nat, left : -MaxLag .. Window]]
LoginRequests ==
  [phase : {"idle", "begin", "verify", "finish"}, account : Accounts \cup {None}, source : Sources \cup {None},
   lease : Leases \cup {None}, lag : 0 .. MaxLag, outcome : {"right", "wrong", "none", None}]
HoldsItsPart(q) ==
  /\ q.phase # "idle" => q.account \in Accounts /\ q.source \in Sources
  /\ q.phase \in {"verify", "finish"} => q.lease \in Leases
  /\ q.phase = "finish" => q.outcome # None

\* Types of beginLogin's tables and of serveLogin's local state.
TypeOK ==
  /\ failures \in [account : Failures(Accounts), source : Failures(Sources)]
  /\ attempts \in [Leases -> Attempts \cup {None}]
  /\ request \in [Requests -> LoginRequests]
  /\ \A r \in Requests : HoldsItsPart(request[r])

\* Failures counted and attempts in flight never exceed the limit together, of an
\* account or of a source: concurrent logins cannot overrun the limit between the
\* check of beginLogin and the charge of finishLogin.
Load(scope, key) == failures[scope][key].count + Cardinality(Of(Live, scope, key))
AdmissionBound ==
  /\ \A a \in Accounts : Load("account", a) <= AccountLimit
  /\ \A s \in Sources : Load("source", s) <= SourceLimit

\* The tables of failures and leases name at most MaxTracked accounts and sources
\* (MAX_TRACKED_LOGIN_KEYS), whatever keys the callers make up.
TrackedBound ==
  \A scope \in Scopes : Cardinality(Tracked(failures[scope], Live, scope)) <= MaxTracked

\* Only a right answer given in time lifts an open window of an account and nothing
\* lifts a source's: no stale clock, settlement or other request shortens it or
\* lowers its count.  (The only process, when it dies, forgets all.)
Forgives(r, a) ==
  /\ request[r].phase = "finish" /\ request[r].outcome = "right"
  /\ attempts[request[r].lease] # None /\ attempts[request[r].lease].account = a
  /\ attempts[request[r].lease].left + request[r].lag > 0
Stands(scope, k) ==
  Open(failures[scope][k], 0) =>
    /\ failures'[scope][k].count >= failures[scope][k].count
    /\ failures'[scope][k].left >= failures[scope][k].left - 1
WindowsStand ==
  [][ \/ ~Shared /\ Forgotten
      \/ /\ \A s \in Sources : Stands("source", s)
         /\ \A a \in Accounts : Stands("account", a) \/ \E r \in Requests : Forgives(r, a) /\ FinishLogin(r)
    ]_vars

\* finishLogin of a wrong answer whose lease is still there leaves the failure in an
\* open window of its account and of its source ("failures count against account
\* and source windows", types.ts:32).
WrongAnswerIsCharged ==
  [][ \A r \in Requests :
        /\ request[r].phase = "finish" /\ request[r].outcome = "wrong"
        /\ attempts[request[r].lease] # None
        /\ FinishLogin(r)
        => LET lease == attempts[request[r].lease]
           IN  /\ Open(failures'.account[lease.account], request[r].lag)
               /\ Open(failures'.source[lease.source], request[r].lag)
    ]_vars

\* A lockout ends: while anybody logs in, an account or a source that has reached its
\* limit is below it again sooner or later, or at the moment it would be lets a login in,
\* whatever the answers are, and though the processes that held some of its leases died.
\* Whose login is let in then is another matter: other accounts may use up the limit of a
\* source, or the places of the key table, again and again.
Limit(scope) == IF scope = "account" THEN AccountLimit ELSE SourceLimit
LockedOut(scope, k) ==
  /\ Load(scope, k) >= Limit(scope)
  /\ \A r \in Requests : ~(request[r].phase = "verify" /\ request[r][scope] = k)
LockoutsEnd ==
  []<><<\E r \in Requests : BeginLogin(r)>>_vars
    => \A scope \in Scopes : \A k \in Keys[scope] : LockedOut(scope, k) ~> ~LockedOut(scope, k)
=============================================================================
