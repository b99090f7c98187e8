------------------------- MODULE LoginAdmissionProofs -------------------------
(***************************************************************************)
(* Proofs about LoginAdmission, for any number of accounts, sources,        *)
(* requests and leases and any limits, window and lag.                      *)
(*                                                                          *)
(* TypeOK and AdmissionBound are inductive together: settling turns a lease *)
(* of a key into a failure of it, so that it never makes the key's load     *)
(* greater, and a new lease is given below the limit only.  WindowsStand    *)
(* and WrongAnswerIsCharged are about single steps, which the types of      *)
(* failures, leases and requests are enough for.                            *)
(*                                                                         *)
(* The bound of the guesses in one process follows from what the failures  *)
(* and leases of an account say of them (Fits): every guess older than the *)
(* open window of failures was charged to one earlier window.              *)
(***************************************************************************)
EXTENDS LoginGuesses, FiniteSums, FiniteSetTheorems, TLAPS

IInv == TypeOK /\ AdmissionBound

\* The leases of a key are finitely many, whichever leases are asked about.
LEMMA OfFinite ==
  ASSUME NEW scope, NEW key, NEW live \in SUBSET Leases
  PROVE  /\ Of(live, scope, key) \in SUBSET Leases
         /\ IsFiniteSet(Of(live, scope, key)) /\ Cardinality(Of(live, scope, key)) \in Nat
<1>1. Of(live, scope, key) \in SUBSET Leases
  BY DEF Of
<1>2. IsFiniteSet(Of(live, scope, key))
  BY <1>1, SetsAreFinite, FS_Subset
<1> QED BY <1>1, <1>2, FS_CardinalityType

\* The expired leases of a key and its other ones are together its leases.
LEMMA LeasesSplit ==
  ASSUME NEW scope, NEW key, NEW lag
  PROVE  Cardinality(Of(Live, scope, key))
           = Cardinality(Of(Expired(lag), scope, key)) + Cardinality(Of(Live \ Expired(lag), scope, key))
<1> DEFINE A == Of(Expired(lag), scope, key)
           B == Of(Live \ Expired(lag), scope, key)
<1>1. /\ Of(Live, scope, key) = A \cup B /\ A \cap B = {}
      /\ Expired(lag) \in SUBSET Leases /\ Live \ Expired(lag) \in SUBSET Leases
  BY DEF Of, Expired, Live
<1>2. /\ IsFiniteSet(A) /\ IsFiniteSet(B)
      /\ Cardinality(A) \in Nat /\ Cardinality(B) \in Nat
  BY <1>1, OfFinite
<1>3. Cardinality(A \cup B) = Cardinality(A) + Cardinality(B) - Cardinality(A \cap B)
  BY <1>2, FS_Union
<1>4. Cardinality(A \cap B) = 0
  BY <1>1, FS_EmptySet
<1>5. Cardinality(A \cup B) = Cardinality(A) + Cardinality(B)
  <2> HIDE DEF A, B
  <2> QED BY <1>2, <1>3, <1>4
<1> QED BY <1>1, <1>5

\* settleExpiredAttempts turns leases into failures and adds to neither otherwise.
LEMMA SettledLoad ==
  ASSUME TypeOK, NEW scope \in Scopes, NEW lag \in 0 .. MaxLag, NEW dropped
  PROVE  /\ Settled(scope, lag, dropped) \in Failures(Keys[scope])
         /\ \A k \in Keys[scope] :
              Settled(scope, lag, dropped)[k].count + Cardinality(Of(Live \ Expired(lag), scope, k))
                <= Load(scope, k)
<1> DEFINE due(k) == Cardinality(Of(Expired(lag), scope, k))
           kept(k) == Cardinality(Of(Live \ Expired(lag), scope, k))
           S == Settled(scope, lag, dropped)
<1>1. failures[scope] \in Failures(Keys[scope])
  BY DEF TypeOK, Scopes, Keys
<1>2. Expired(lag) \in SUBSET Leases /\ Live \ Expired(lag) \in SUBSET Leases
  BY DEF Expired, Live
<1>3. \A k \in Keys[scope] : due(k) \in Nat /\ kept(k) \in Nat
  BY <1>2, OfFinite
<1>4. \A k \in Keys[scope] : Load(scope, k) = failures[scope][k].count + due(k) + kept(k)
  <2> TAKE k \in Keys[scope]
  <2>1. Cardinality(Of(Live, scope, k)) = due(k) + kept(k)
    BY LeasesSplit
  <2>2. failures[scope][k].count \in Nat
    BY <1>1 DEF Failures
  <2> QED BY <2>1, <2>2, <1>3 DEF Load
<1>5. \A k \in Keys[scope] :
        /\ S[k] \in [count : Nat, left : -MaxLag .. Window]
        /\ S[k].count <= failures[scope][k].count + due(k)
  <2> TAKE k \in Keys[scope]
  <2>1. failures[scope][k] \in [count : Nat, left : -MaxLag .. Window] /\ due(k) \in Nat
    BY <1>1, <1>3 DEF Failures
  <2>2. S[k] = IF Open(failures[scope][k], lag)
                 THEN [failures[scope][k] EXCEPT !.count = @ + due(k)]
               ELSE IF due(k) > 0 /\ k \notin dropped
                 THEN [count |-> due(k), left |-> Window - lag]
               ELSE NoFailure
    BY DEF Settled
  <2> HIDE DEF due, S
  <2> QED BY <2>1, <2>2, LimitsPositive DEF NoFailure
<1>6. S = [k \in Keys[scope] |-> S[k]]
  BY DEF Settled
<1>7. S \in Failures(Keys[scope])
  <2> HIDE DEF S
  <2> QED BY <1>5, <1>6 DEF Failures
<1> QED
  <2> HIDE DEF due, kept, S
  <2>1. \A k \in Keys[scope] : S[k].count + kept(k) <= Load(scope, k)
    <3> TAKE k \in Keys[scope]
    <3>1. S[k].count \in Nat /\ failures[scope][k].count \in Nat
      BY <1>1, <1>5 DEF Failures
    <3> QED BY <3>1, <1>3, <1>4, <1>5
  <2> QED BY <1>7, <2>1 DEF S, kept

\* increment adds at most one failure, to one key.
LEMMA ChargeAddsOne ==
  ASSUME NEW keys, NEW table \in Failures(keys), NEW key \in keys, NEW lag \in 0 .. MaxLag
  PROVE  /\ Charge(table, key, lag) \in Failures(keys)
         /\ Charge(table, key, lag)[key].count <= table[key].count + 1
         /\ \A k \in keys \ {key} : Charge(table, key, lag)[k] = table[k]
  BY LimitsPositive DEF Charge, Failures, Open

\* AdmissionBound, one scope at a time.
LEMMA BoundByScope ==
  AdmissionBound <=> \A scope \in Scopes : \A k \in Keys[scope] : Load(scope, k) <= Limit(scope)
  BY DEF AdmissionBound, Scopes, Keys, Limit

LEMMA LoadIsNat ==
  ASSUME TypeOK, NEW scope \in Scopes, NEW k \in Keys[scope]
  PROVE  Load(scope, k) \in Nat /\ failures[scope][k].count \in Nat
<1>1. failures[scope][k].count \in Nat
  BY DEF TypeOK, Scopes, Keys, Failures
<1>2. Live \in SUBSET Leases
  BY DEF Live
<1> QED BY <1>1, <1>2, OfFinite DEF Load

\* A request that only moves on leaves tables and leases alone.
LEMMA BoundOfTables ==
  ASSUME AdmissionBound, UNCHANGED <<failures, attempts>>
  PROVE  AdmissionBound'
  BY DEF AdmissionBound, Load, Of, Live

\* One request changes to a record that holds its part.
LEMMA RequestTypes ==
  ASSUME TypeOK, NEW r \in Requests, NEW q \in LoginRequests, HoldsItsPart(q),
         request' = [request EXCEPT ![r] = q]
  PROVE  request' \in [Requests -> LoginRequests] /\ \A x \in Requests : HoldsItsPart(request'[x])
  BY DEF TypeOK

LEMMA IdleIsARequest == Idle \in LoginRequests /\ HoldsItsPart(Idle)
  BY LimitsPositive DEF Idle, LoginRequests, HoldsItsPart

LEMMA ArriveStep ==
  ASSUME IInv, NEW r \in Requests, NEW a \in Accounts, NEW s \in Sources, Arrive(r, a, s)
  PROVE  IInv'
<1> DEFINE q == [phase |-> "begin", account |-> a, source |-> s, lease |-> None, lag |-> 0, outcome |-> None]
<1>1. q \in LoginRequests /\ HoldsItsPart(q)
  BY LimitsPositive DEF LoginRequests, HoldsItsPart
<1>2. TypeOK'
  <2> HIDE DEF q
  <2> QED BY <1>1, RequestTypes DEF IInv, TypeOK, Arrive, q
<1> QED BY <1>2, BoundOfTables DEF IInv, Arrive

LEMMA VerifyStep ==
  ASSUME IInv, NEW r \in Requests, NEW o \in {"right", "wrong", "none"}, Verify(r, o)
  PROVE  IInv'
<1> DEFINE q == [request[r] EXCEPT !.phase = "finish", !.outcome = o]
<1>1. request[r] \in LoginRequests /\ HoldsItsPart(request[r]) /\ request[r].phase = "verify" /\ o # None
  BY NoneIsNothingElse DEF IInv, TypeOK, Verify
<1>2. q \in LoginRequests /\ HoldsItsPart(q)
  BY <1>1 DEF LoginRequests, HoldsItsPart
<1>3. request' = [request EXCEPT ![r] = q]
  BY DEF Verify, IInv, TypeOK
<1>4. TypeOK'
  <2> HIDE DEF q
  <2> QED BY <1>2, <1>3, RequestTypes DEF IInv, TypeOK, Verify
<1> QED BY <1>4, BoundOfTables DEF IInv, Verify

LEMMA DieSharedStep ==
  ASSUME IInv, NEW r \in Requests, Die(r), Shared
  PROVE  IInv'
<1>1. TypeOK'
  BY IdleIsARequest, RequestTypes DEF IInv, TypeOK, Die
<1> QED BY <1>1, BoundOfTables DEF IInv, Die

LEMMA ForgottenStep ==
  ASSUME IInv, Forgotten
  PROVE  IInv'
<1>1. TypeOK'
  BY LimitsPositive, IdleIsARequest DEF IInv, TypeOK, Forgotten, Failures, NoFailure
<1>2. Live' = {}
  BY DEF Live, Forgotten
<1>3. \A scope, k : Of(Live, scope, k)' = {}
  BY <1>2 DEF Of
<1>4. \A scope \in Scopes : \A k \in Keys[scope] : failures'[scope][k].count = 0
  BY DEF Forgotten, Scopes, Keys, NoFailure
<1>5. \A scope \in Scopes : \A k \in Keys[scope] : Load(scope, k)' = 0
  BY <1>3, <1>4, FS_EmptySet DEF Load
<1>6. AdmissionBound'
  BY <1>5, LimitsPositive DEF AdmissionBound, Scopes, Keys
<1> QED BY <1>1, <1>6 DEF IInv

\* Time changes neither the number of failures nor that of leases.
LEMMA TickStep ==
  ASSUME IInv, Tick
  PROVE  IInv'
<1>0. \A x \in Attempts : Older(x) \in Attempts /\ Older(x).account = x.account /\ Older(x).source = x.source
  BY LimitsPositive DEF Older, Attempts
<1>1. TypeOK'
  <2>1. failures' \in [account : Failures(Accounts), source : Failures(Sources)]
    <3>1. \A x \in [count : Nat, left : -MaxLag .. Window] : Older(x) \in [count : Nat, left : -MaxLag .. Window]
      BY LimitsPositive DEF Older
    <3>2. /\ failures'.account = [k \in Accounts |-> Older(failures.account[k])]
          /\ failures'.source = [k \in Sources |-> Older(failures.source[k])]
          /\ failures' = [account |-> failures'.account, source |-> failures'.source]
      BY DEF Tick
    <3>3. failures.account \in Failures(Accounts) /\ failures.source \in Failures(Sources)
      BY DEF IInv, TypeOK
    <3>4. failures'.account \in Failures(Accounts) /\ failures'.source \in Failures(Sources)
      BY <3>1, <3>2, <3>3 DEF Failures
    <3> QED BY <3>2, <3>4
  <2>2. attempts' \in [Leases -> Attempts \cup {None}]
    BY <1>0 DEF IInv, TypeOK, Tick
  <2>3. /\ request' \in [Requests -> LoginRequests]
        /\ \A r \in Requests : /\ request'[r].phase = request[r].phase /\ request'[r].account = request[r].account
                              /\ request'[r].source = request[r].source /\ request'[r].lease = request[r].lease
                              /\ request'[r].outcome = request[r].outcome
    BY LimitsPositive DEF IInv, TypeOK, Tick, LoginRequests, Waiting
  <2> QED BY <2>1, <2>2, <2>3 DEF IInv, TypeOK, HoldsItsPart
<1>2. /\ Live' = Live
      /\ \A l \in Live : attempts'[l].account = attempts[l].account /\ attempts'[l].source = attempts[l].source
  BY <1>0, NoneIsNothingElse DEF IInv, TypeOK, Tick, Live
<1>3. /\ \A a \in Accounts : failures'.account[a].count = failures.account[a].count
      /\ \A s \in Sources : failures'.source[s].count = failures.source[s].count
  BY DEF IInv, TypeOK, Tick, Older, Failures
<1>4. /\ \A a \in Accounts : Of(Live, "account", a)' = Of(Live, "account", a)
      /\ \A s \in Sources : Of(Live, "source", s)' = Of(Live, "source", s)
  BY <1>2 DEF Of
<1>5. AdmissionBound'
  BY <1>3, <1>4 DEF IInv, AdmissionBound, Load
<1> QED BY <1>1, <1>5 DEF IInv

\* The decision of beginLogin after its settlement, in each scope.
LEMMA BeginLoginStep ==
  ASSUME IInv, NEW r \in Requests, BeginLogin(r)
  PROVE  IInv'
<1> DEFINE lag == request[r].lag
           live == Live \ Expired(lag)
<1>1. /\ request[r] \in LoginRequests /\ HoldsItsPart(request[r]) /\ request[r].phase = "begin"
      /\ lag \in 0 .. MaxLag /\ request[r].account \in Accounts /\ request[r].source \in Sources
  BY DEF IInv, TypeOK, BeginLogin, HoldsItsPart, LoginRequests
<1>2. live \in SUBSET Leases
  BY DEF Live
<1>3. PICK da, ds :
        failures' = [account |-> Settled("account", lag, da), source |-> Settled("source", lag, ds)]
  BY DEF BeginLogin
<1>4. \A scope \in Scopes :
        /\ failures'[scope] \in Failures(Keys[scope])
        /\ \A k \in Keys[scope] :
             failures'[scope][k].count + Cardinality(Of(live, scope, k)) <= Limit(scope)
  <2> TAKE scope \in Scopes
  <2>1. PICK dropped : failures'[scope] = Settled(scope, lag, dropped)
    BY <1>3 DEF Scopes
  <2>2. /\ Settled(scope, lag, dropped) \in Failures(Keys[scope])
        /\ \A k \in Keys[scope] :
             Settled(scope, lag, dropped)[k].count + Cardinality(Of(live, scope, k)) <= Load(scope, k)
    BY <1>1, SettledLoad DEF IInv
  <2>3. failures'[scope] \in Failures(Keys[scope])
    BY <2>1, <2>2
  <2>4. ASSUME NEW k \in Keys[scope]
        PROVE  failures'[scope][k].count + Cardinality(Of(live, scope, k)) <= Limit(scope)
    <3>1. Load(scope, k) \in Nat /\ Load(scope, k) <= Limit(scope)
      BY LoadIsNat, BoundByScope DEF IInv
    <3>2. failures'[scope][k].count \in Nat
      BY <2>3 DEF Failures
    <3>3. Cardinality(Of(live, scope, k)) \in Nat
      BY <1>2, OfFinite
    <3>4. failures'[scope][k].count + Cardinality(Of(live, scope, k)) <= Load(scope, k)
      BY <2>1, <2>2
    <3>5. Limit(scope) \in Nat
      BY LimitsPositive DEF Limit
    <3> HIDE DEF live
    <3> QED BY <3>1, <3>2, <3>3, <3>4, <3>5
  <2> QED BY <2>3, <2>4
<1>5. failures' \in [account : Failures(Accounts), source : Failures(Sources)]
  BY <1>3, <1>4 DEF Scopes, Keys
<1>6. CASE /\ attempts' = [l \in Leases |-> IF l \in live THEN attempts[l] ELSE None]
           /\ request' = [request EXCEPT ![r] = Idle]
  <2>1. TypeOK'
    BY <1>5, <1>6, IdleIsARequest, RequestTypes DEF IInv, TypeOK
  <2>2. Live' = live
    BY <1>6 DEF Live
  <2>3. \A scope, k : Of(Live, scope, k)' = Of(live, scope, k)
    BY <1>2, <1>6, <2>2 DEF Of
  <2>4. AdmissionBound'
    <3> HIDE DEF live
    <3>1. \A scope \in Scopes : \A k \in Keys[scope] : Load(scope, k)' <= Limit(scope)
      BY <1>4, <2>3 DEF Load
    <3> QED BY <3>1 DEF AdmissionBound, Scopes, Keys, Limit
  <2> QED BY <2>1, <2>4 DEF IInv
<1>7. CASE /\ ~ Refused(failures'.account, live, "account", request[r].account, AccountLimit)
           /\ ~ Refused(failures'.source, live, "source", request[r].source, SourceLimit)
           /\ \E l \in Leases \ (Live \cup {request[o].lease : o \in Requests}) :
                /\ attempts' = [x \in Leases |->
                     IF x = l THEN [account |-> request[r].account, source |-> request[r].source, left |-> Window - lag]
                     ELSE IF x \in live THEN attempts[x] ELSE None]
                /\ request' = [request EXCEPT ![r] =
                     [phase |-> "verify", account |-> request[r].account, source |-> request[r].source,
                      lease |-> l, lag |-> 0, outcome |-> None]]
  <2> DEFINE new == [account |-> request[r].account, source |-> request[r].source, left |-> Window - lag]
  <2>1. PICK l \in Leases :
          /\ l \notin Live
          /\ attempts' = [x \in Leases |-> IF x = l THEN new ELSE IF x \in live THEN attempts[x] ELSE None]
          /\ request' = [request EXCEPT ![r] =
                     [phase |-> "verify", account |-> request[r].account, source |-> request[r].source,
                      lease |-> l, lag |-> 0, outcome |-> None]]
    BY <1>7
  <2>2. new \in Attempts /\ new # None
    BY <1>1, LimitsPositive, NoneIsNothingElse DEF Attempts
  <2>3. TypeOK'
    <3> DEFINE q == [phase |-> "verify", account |-> request[r].account, source |-> request[r].source,
                     lease |-> l, lag |-> 0, outcome |-> None]
    <3>1. q \in LoginRequests /\ HoldsItsPart(q)
      BY <1>1, LimitsPositive DEF LoginRequests, HoldsItsPart
    <3>2. request' = [request EXCEPT ![r] = q]
      BY <2>1 DEF IInv, TypeOK
    <3>3. request' \in [Requests -> LoginRequests] /\ \A x \in Requests : HoldsItsPart(request'[x])
      <4> HIDE DEF q
      <4> QED BY <3>1, <3>2, RequestTypes DEF IInv
    <3>4. attempts' \in [Leases -> Attempts \cup {None}]
      <4> HIDE DEF new
      <4> QED BY <2>1, <2>2 DEF IInv, TypeOK
    <3> QED BY <1>5, <3>3, <3>4 DEF TypeOK
  <2>4. Live' = live \cup {l} /\ l \notin live
    <3> HIDE DEF new
    <3> QED BY <2>1, <2>2 DEF Live
  <2>5. ASSUME NEW scope \in Scopes, NEW k \in Keys[scope]
        PROVE  Load(scope, k)' <= Limit(scope)
    <3> DEFINE before == Of(live, scope, k)
    <3>1. IsFiniteSet(before) /\ Cardinality(before) \in Nat /\ l \notin before
      <4>1. l \notin before
        BY <2>4 DEF Of
      <4> QED BY <1>2, <4>1, OfFinite
    <3>2. failures'[scope][k].count \in Nat
      BY <1>4 DEF Failures
    <3>3. failures'[scope][k].count + Cardinality(before) <= Limit(scope) /\ Limit(scope) \in Nat
      BY <1>4, LimitsPositive DEF Limit
    <3>4. CASE new[scope] = k
      <4>1. Of(Live, scope, k)' = before \cup {l}
        <5> HIDE DEF new, live
        <5> QED BY <1>2, <2>1, <2>4, <3>4 DEF Of
      <4>2. Cardinality(before \cup {l}) = Cardinality(before) + 1
        BY <3>1, FS_AddElement
      <4>3. ~ (failures'[scope][k].count + Cardinality(before) >= Limit(scope))
        BY <1>7, <3>4 DEF Refused, Scopes, Limit
      <4> HIDE DEF before, new, live
      <4> QED BY <3>1, <3>2, <3>3, <4>1, <4>2, <4>3 DEF Load
    <3>5. CASE new[scope] # k
      <4>1. Of(Live, scope, k)' = before
        <5> HIDE DEF new, live
        <5> QED BY <1>2, <2>1, <2>4, <3>5 DEF Of
      <4> HIDE DEF before, new, live
      <4> QED BY <3>3, <4>1 DEF Load
    <3> QED BY <3>4, <3>5
  <2>6. AdmissionBound'
    BY <2>5 DEF AdmissionBound, Scopes, Keys, Limit
  <2> QED BY <2>3, <2>6 DEF IInv
<1> QED BY <1>6, <1>7 DEF BeginLogin

\* finishLogin gives back the lease and charges at most one failure for it.
LEMMA FinishLoginStep ==
  ASSUME IInv, NEW r \in Requests, FinishLogin(r)
  PROVE  IInv'
<1> DEFINE id == request[r].lease
           lease == attempts[id]
           lag == request[r].lag
<1>1. id \in Leases /\ lag \in 0 .. MaxLag
  BY DEF IInv, TypeOK, FinishLogin, HoldsItsPart, LoginRequests
<1>2. request' \in [Requests -> LoginRequests] /\ \A x \in Requests : HoldsItsPart(request'[x])
  BY IdleIsARequest, RequestTypes DEF IInv, FinishLogin
<1>3. CASE UNCHANGED <<failures, attempts>>
  BY <1>2, <1>3, BoundOfTables DEF IInv, TypeOK
<1>4. CASE /\ lease # None
           /\ attempts' = [attempts EXCEPT ![id] = None]
           /\ \/ failures' = [account |-> Charge(failures.account, lease.account, lag),
                              source  |-> Charge(failures.source, lease.source, lag)]
              \/ failures' = [failures EXCEPT !.account[lease.account] = NoFailure]
              \/ failures' = failures
  <2>1. lease \in Attempts /\ lease.account \in Accounts /\ lease.source \in Sources
    BY <1>1, <1>4 DEF IInv, TypeOK, Attempts
  <2>2. \A scope \in Scopes :
          /\ failures'[scope] \in Failures(Keys[scope])
          /\ failures'[scope][lease[scope]].count <= failures[scope][lease[scope]].count + 1
          /\ \A k \in Keys[scope] \ {lease[scope]} : failures'[scope][k].count = failures[scope][k].count
    <3>1. failures.account \in Failures(Accounts) /\ failures.source \in Failures(Sources)
      BY DEF IInv, TypeOK
    <3>2. CASE failures' = [account |-> Charge(failures.account, lease.account, lag),
                            source  |-> Charge(failures.source, lease.source, lag)]
      <4> HIDE DEF lease, lag
      <4>1. /\ Charge(failures.account, lease.account, lag) \in Failures(Accounts)
            /\ Charge(failures.account, lease.account, lag)[lease.account].count <= failures.account[lease.account].count + 1
            /\ \A k \in Accounts \ {lease.account} :
                 Charge(failures.account, lease.account, lag)[k] = failures.account[k]
        BY <1>1, <2>1, <3>1, ChargeAddsOne
      <4>2. /\ Charge(failures.source, lease.source, lag) \in Failures(Sources)
            /\ Charge(failures.source, lease.source, lag)[lease.source].count <= failures.source[lease.source].count + 1
            /\ \A k \in Sources \ {lease.source} :
                 Charge(failures.source, lease.source, lag)[k] = failures.source[k]
        BY <1>1, <2>1, <3>1, ChargeAddsOne
      <4> QED BY <3>2, <4>1, <4>2 DEF Scopes, Keys
    <3>3. CASE failures' = [failures EXCEPT !.account[lease.account] = NoFailure]
      <4> HIDE DEF lease
      <4>1. /\ failures'.account = [failures.account EXCEPT ![lease.account] = NoFailure]
            /\ failures'.source = failures.source
        BY <3>3 DEF IInv, TypeOK
      <4>2. NoFailure \in [count : Nat, left : -MaxLag .. Window] /\ NoFailure.count = 0
        BY LimitsPositive DEF NoFailure
      <4>3. /\ failures'.account \in Failures(Accounts)
            /\ failures'.account[lease.account].count = 0
            /\ \A k \in Accounts \ {lease.account} : failures'.account[k] = failures.account[k]
        BY <2>1, <3>1, <4>1, <4>2 DEF Failures
      <4>4. failures.account[lease.account].count \in Nat /\ failures.source[lease.source].count \in Nat
        BY <2>1, <3>1 DEF Failures
      <4>5. /\ failures'.account[lease.account].count <= failures.account[lease.account].count + 1
            /\ failures'.source[lease.source].count <= failures.source[lease.source].count + 1
            /\ \A k \in Sources : failures'.source[k].count = failures.source[k].count
            /\ failures'.source \in Failures(Sources)
        BY <3>1, <4>1, <4>3, <4>4
      <4> QED BY <4>3, <4>5 DEF Scopes, Keys
    <3>4. CASE failures' = failures
      <4>1. failures.account[lease.account].count \in Nat /\ failures.source[lease.source].count \in Nat
        BY <2>1, <3>1 DEF Failures
      <4> HIDE DEF lease
      <4> QED BY <3>1, <3>4, <4>1 DEF Scopes, Keys
    <3> QED BY <1>4, <3>2, <3>3, <3>4
  <2>3. failures' \in [account : Failures(Accounts), source : Failures(Sources)]
    <3>1. failures' = [account |-> failures'.account, source |-> failures'.source]
      BY <1>4 DEF IInv, TypeOK
    <3> QED BY <2>2, <3>1 DEF Scopes, Keys
  <2>4. TypeOK'
    BY <1>2, <1>4, <2>3 DEF IInv, TypeOK
  <2>5. Live' = Live \ {id} /\ id \in Live
    BY <1>1, <1>4 DEF Live, IInv, TypeOK
  <2>6. ASSUME NEW scope \in Scopes, NEW k \in Keys[scope]
        PROVE  Load(scope, k)' <= Limit(scope)
    <3> DEFINE before == Of(Live, scope, k)
    <3>1. Live \in SUBSET Leases
      BY DEF Live
    <3>2. IsFiniteSet(before) /\ Cardinality(before) \in Nat
      BY <3>1, OfFinite
    <3>3. /\ Load(scope, k) = failures[scope][k].count + Cardinality(before)
          /\ Load(scope, k) <= Limit(scope) /\ Limit(scope) \in Nat
          /\ failures[scope][k].count \in Nat
      BY LoadIsNat, BoundByScope, LimitsPositive DEF IInv, Load, Limit
    <3>4. failures'[scope][k].count \in Nat
      BY <2>2 DEF Failures
    <3>5. CASE lease[scope] = k
      <4>1. Of(Live, scope, k)' = before \ {id} /\ id \in before
        BY <1>4, <2>5, <3>5 DEF Of, Live, IInv, TypeOK
      <4>2. Cardinality(before \ {id}) = Cardinality(before) - 1
        BY <3>2, <4>1, FS_RemoveElement
      <4>3. failures'[scope][k].count <= failures[scope][k].count + 1
        BY <2>2, <3>5
      <4> HIDE DEF before, lease, id
      <4> QED BY <3>2, <3>3, <3>4, <4>1, <4>2, <4>3 DEF Load
    <3>6. CASE lease[scope] # k
      <4>1. Of(Live, scope, k)' = before
        BY <1>4, <2>5, <3>6 DEF Of, Live, IInv, TypeOK
      <4>2. failures'[scope][k].count = failures[scope][k].count
        BY <2>2, <3>6
      <4> HIDE DEF before, lease, id
      <4> QED BY <3>3, <4>1, <4>2 DEF Load
    <3> QED BY <3>5, <3>6
  <2>7. AdmissionBound'
    BY <2>6 DEF AdmissionBound, Scopes, Keys, Limit
  <2> QED BY <2>4, <2>7 DEF IInv
<1> QED BY <1>3, <1>4 DEF FinishLogin

-----------------------------------------------------------------------------
LEMMA InvariantInit ==
  ASSUME Init
  PROVE  IInv
<1>1. TypeOK
  BY LimitsPositive, IdleIsARequest DEF Init, TypeOK, Failures, NoFailure
<1>2. \A scope, k : Of(Live, scope, k) = {}
  BY DEF Init, Live, Of
<1>3. \A scope \in Scopes : \A k \in Keys[scope] : Load(scope, k) = 0
  <2>1. \A scope \in Scopes : \A k \in Keys[scope] : failures[scope][k].count = 0
    BY DEF Init, Scopes, Keys, NoFailure
  <2>2. Cardinality({}) = 0
    BY FS_EmptySet
  <2>3. \A scope, k : Cardinality(Of(Live, scope, k)) = 0
    BY <1>2, <2>2
  <2> QED BY <2>1, <2>3 DEF Load
<1>4. AdmissionBound
  BY <1>3, LimitsPositive DEF AdmissionBound, Scopes, Keys
<1> QED BY <1>1, <1>4 DEF IInv

LEMMA InvariantStep ==
  ASSUME IInv, [Next]_vars
  PROVE  IInv'
<1>1. CASE UNCHANGED vars
  BY <1>1, BoundOfTables DEF IInv, TypeOK, vars
<1>2. ASSUME NEW r \in Requests, Die(r) PROVE IInv'
  BY <1>2, DieSharedStep, ForgottenStep DEF Die
<1>3. CASE Tick
  BY <1>3, TickStep
<1>4. ASSUME NEW r \in Requests,
             \/ \E a \in Accounts, s \in Sources : Arrive(r, a, s)
             \/ BeginLogin(r)
             \/ \E o \in {"right", "wrong", "none"} : Verify(r, o)
             \/ FinishLogin(r)
      PROVE  IInv'
  BY <1>4, ArriveStep, BeginLoginStep, VerifyStep, FinishLoginStep
<1> QED BY <1>1, <1>2, <1>3, <1>4 DEF Next

\* The invariant holds in every state of every behaviour.
THEOREM Invariance == Spec => []IInv
<1>1. Init => IInv
  BY InvariantInit
<1>2. IInv /\ [Next]_vars => IInv'
  BY InvariantStep
<1> QED BY <1>1, <1>2, PTL DEF Spec

\* Types of the admission tables and of the requests.
THEOREM TypeCorrect == Spec => []TypeOK
<1>1. IInv => TypeOK
  BY DEF IInv
<1> QED BY <1>1, Invariance, PTL

\* Concurrent logins never overrun an account's or a source's limit.
THEOREM AdmissionIsBounded == Spec => []AdmissionBound
<1>1. IInv => AdmissionBound
  BY DEF IInv
<1> QED BY <1>1, Invariance, PTL

-----------------------------------------------------------------------------
(* Open windows                                                             *)

\* A window that is open now is open for a caller whose reading is older, too.
LEMMA OpenForOlderReadings ==
  ASSUME NEW f \in [count : Nat, left : -MaxLag .. Window], NEW lag \in 0 .. MaxLag, Open(f, 0)
  PROVE  Open(f, lag)
  BY LimitsPositive DEF Open

\* One step keeps a failure: not fewer of them, and not shorter than by one tick.
Keeps(old, new) == new.count >= old.count /\ new.left >= old.left - 1

\* increment adds to an open window of any key and ends none.
LEMMA ChargeKeepsOpen ==
  ASSUME NEW keys, NEW table \in Failures(keys), NEW key \in keys, NEW lag \in 0 .. MaxLag,
         NEW k \in keys, Open(table[k], 0)
  PROVE  Keeps(table[k], Charge(table, key, lag)[k])
<1>1. table[k] \in [count : Nat, left : -MaxLag .. Window]
  BY DEF Failures
<1>2. CASE k = key
  <2>1. Open(table[key], lag)
    BY <1>1, <1>2, OpenForOlderReadings
  <2>2. Charge(table, key, lag)[k] = [table[k] EXCEPT !.count = @ + 1]
    BY <1>2, <2>1 DEF Charge, Failures
  <2> QED BY <1>1, <2>2, LimitsPositive DEF Keeps
<1>3. CASE k # key
  <2>1. Charge(table, key, lag)[k] = table[k]
    BY <1>3, ChargeAddsOne
  <2> QED BY <1>1, <2>1, LimitsPositive DEF Keeps
<1> QED BY <1>2, <1>3

\* settleExpiredAttempts drops closed windows only, whatever the clock of its caller.
LEMMA SettledKeepsOpen ==
  ASSUME TypeOK, NEW scope \in Scopes, NEW lag \in 0 .. MaxLag, NEW dropped,
         NEW k \in Keys[scope], Open(failures[scope][k], 0)
  PROVE  Keeps(failures[scope][k], Settled(scope, lag, dropped)[k])
<1> DEFINE due == Cardinality(Of(Expired(lag), scope, k))
<1>1. failures[scope][k] \in [count : Nat, left : -MaxLag .. Window]
  BY DEF TypeOK, Scopes, Keys, Failures
<1>2. due \in Nat
  <2>1. Expired(lag) \in SUBSET Leases
    BY DEF Expired, Live
  <2> QED BY <2>1, OfFinite
<1>3. Open(failures[scope][k], lag)
  BY <1>1, OpenForOlderReadings
<1>4. Settled(scope, lag, dropped)[k] = [failures[scope][k] EXCEPT !.count = @ + due]
  BY <1>3 DEF Settled
<1> HIDE DEF due
<1> QED BY <1>1, <1>2, <1>4, LimitsPositive DEF Keeps

\* A request that only moves on keeps every window.
LEMMA SameKeeps ==
  ASSUME TypeOK, failures' = failures, NEW scope \in Scopes, NEW k \in Keys[scope]
  PROVE  Keeps(failures[scope][k], failures'[scope][k])
<1>1. failures[scope][k] \in [count : Nat, left : -MaxLag .. Window]
  BY DEF TypeOK, Scopes, Keys, Failures
<1> QED BY <1>1, LimitsPositive DEF Keeps

Kept(scope, k) == Open(failures[scope][k], 0) => Keeps(failures[scope][k], failures'[scope][k])

LEMMA BeginLoginKeeps ==
  ASSUME TypeOK, NEW r \in Requests, BeginLogin(r), NEW scope \in Scopes, NEW k \in Keys[scope]
  PROVE  Kept(scope, k)
<1>1. request[r].lag \in 0 .. MaxLag
  BY DEF TypeOK, LoginRequests
<1>2. PICK da, ds : failures' = [account |-> Settled("account", request[r].lag, da),
                                 source |-> Settled("source", request[r].lag, ds)]
  BY DEF BeginLogin
<1>3. PICK dropped : failures'[scope] = Settled(scope, request[r].lag, dropped)
  BY <1>2 DEF Scopes
<1> QED BY <1>1, <1>3, SettledKeepsOpen DEF Kept

\* finishLogin charges, or forgives the account a right answer given in time.
LEMMA FinishLoginKeeps ==
  ASSUME TypeOK, NEW r \in Requests, FinishLogin(r), NEW scope \in Scopes, NEW k \in Keys[scope]
  PROVE  Kept(scope, k) \/ (scope = "account" /\ Forgives(r, k))
<1> DEFINE lease == attempts[request[r].lease]
           lag == request[r].lag
<1>1. request[r].lease \in Leases /\ lag \in 0 .. MaxLag
  BY DEF TypeOK, FinishLogin, HoldsItsPart, LoginRequests
<1>2. failures.account \in Failures(Accounts) /\ failures.source \in Failures(Sources)
  BY DEF TypeOK
<1>3. CASE failures' = failures
  BY <1>3, SameKeeps DEF Kept
<1>4. CASE /\ lease # None
           /\ failures' = [account |-> Charge(failures.account, lease.account, lag),
                           source  |-> Charge(failures.source, lease.source, lag)]
  <2>1. lease.account \in Accounts /\ lease.source \in Sources
    BY <1>1, <1>4 DEF TypeOK, Attempts
  <2> HIDE DEF lease, lag
  <2>2. CASE scope = "account"
    <3>1. /\ k \in Accounts /\ failures[scope] = failures.account
          /\ failures'[scope] = Charge(failures.account, lease.account, lag)
      BY <1>4, <2>2 DEF Keys
    <3> QED BY <1>1, <1>2, <2>1, <3>1, ChargeKeepsOpen DEF Kept
  <2>3. CASE scope = "source"
    <3>1. /\ k \in Sources /\ failures[scope] = failures.source
          /\ failures'[scope] = Charge(failures.source, lease.source, lag)
      BY <1>4, <2>3 DEF Keys
    <3> QED BY <1>1, <1>2, <2>1, <3>1, ChargeKeepsOpen DEF Kept
  <2> QED BY <2>2, <2>3 DEF Scopes
<1>5. CASE /\ lease # None /\ ~(lease.left + lag <= 0) /\ request[r].outcome = "right"
           /\ failures' = [failures EXCEPT !.account[lease.account] = NoFailure]
  <2>1. lease \in Attempts
    BY <1>1, <1>5 DEF TypeOK
  <2>2. CASE scope = "account" /\ k = lease.account
    <3>1. lease.left + lag > 0
      BY <1>1, <1>5, <2>1, LimitsPositive DEF Attempts
    <3> QED BY <1>5, <2>2, <3>1 DEF Forgives, FinishLogin
  <2>3. CASE ~(scope = "account" /\ k = lease.account)
    <3>1. failures'[scope][k] = failures[scope][k]
      <4> HIDE DEF lease
      <4> QED BY <1>2, <1>5, <2>3 DEF TypeOK, Scopes, Keys, Failures
    <3>2. failures[scope][k] \in [count : Nat, left : -MaxLag .. Window]
      BY DEF TypeOK, Scopes, Keys, Failures
    <3> QED BY <3>1, <3>2, LimitsPositive DEF Kept, Keeps
  <2> QED BY <2>2, <2>3
<1> QED BY <1>3, <1>4, <1>5 DEF FinishLogin

LEMMA TickKeeps ==
  ASSUME TypeOK, Tick, NEW scope \in Scopes, NEW k \in Keys[scope]
  PROVE  Kept(scope, k)
<1>1. failures[scope][k] \in [count : Nat, left : -MaxLag .. Window]
  BY DEF TypeOK, Scopes, Keys, Failures
<1>2. failures'[scope][k] = Older(failures[scope][k])
  BY DEF Tick, Scopes, Keys
<1> QED BY <1>1, <1>2, LimitsPositive DEF Older, Kept, Keeps

\* No stale clock, settlement or other request shortens an open window or lowers
\* its count: only a right answer in time lifts the window of its account, and
\* only the death of the only process forgets them all.
THEOREM WindowsAlwaysStand == Spec => WindowsStand
<1> DEFINE Step == \/ ~Shared /\ Forgotten
                   \/ /\ \A s \in Sources : Stands("source", s)
                      /\ \A a \in Accounts :
                           Stands("account", a) \/ \E r \in Requests : Forgives(r, a) /\ FinishLogin(r)
<1>1. TypeOK /\ [Next]_vars => [Step]_vars
  <2> SUFFICES ASSUME TypeOK, Next, ~(~Shared /\ Forgotten)
               PROVE  Step
    OBVIOUS
  <2>1. ASSUME NEW scope \in Scopes, NEW k \in Keys[scope]
        PROVE  \/ Kept(scope, k)
               \/ (scope = "account" /\ \E r \in Requests : Forgives(r, k) /\ FinishLogin(r))
    <3>1. CASE Tick
      BY <3>1, TickKeeps
    <3>2. ASSUME NEW r \in Requests, BeginLogin(r) PROVE Kept(scope, k)
      BY <3>2, BeginLoginKeeps
    <3>3. ASSUME NEW r \in Requests, FinishLogin(r)
          PROVE  Kept(scope, k) \/ (scope = "account" /\ Forgives(r, k))
      BY <3>3, FinishLoginKeeps
    <3>4. CASE failures' = failures
      BY <3>4, SameKeeps DEF Kept
    <3>5. ASSUME NEW r \in Requests, NEW a, NEW s, Arrive(r, a, s) PROVE failures' = failures
      BY <3>5 DEF Arrive
    <3>6. ASSUME NEW r \in Requests, NEW o, Verify(r, o) PROVE failures' = failures
      BY <3>6 DEF Verify
    <3>7. ASSUME NEW r \in Requests, Die(r) PROVE failures' = failures
      BY <3>7, OneProcessReadsFreshTime DEF Die
    <3> QED BY <3>1, <3>2, <3>3, <3>4, <3>5, <3>6, <3>7 DEF Next
  <2>2. \A s \in Sources : Stands("source", s)
    BY <2>1 DEF Scopes, Keys, Kept, Keeps, Stands
  <2>3. \A a \in Accounts :
          \/ Stands("account", a)
          \/ \E r \in Requests : Forgives(r, a) /\ FinishLogin(r)
    BY <2>1 DEF Scopes, Keys, Kept, Keeps, Stands
  <2> QED BY <2>2, <2>3
<1> QED BY <1>1, TypeCorrect, PTL DEF Spec, WindowsStand

\* With PostgreSQL increment always leaves a failure in an open window.
LEMMA ChargeOpens ==
  ASSUME Shared, NEW keys, NEW table \in Failures(keys), NEW key \in keys, NEW lag \in 0 .. MaxLag
  PROVE  Open(Charge(table, key, lag)[key], lag)
<1>1. table[key] \in [count : Nat, left : -MaxLag .. Window]
  BY DEF Failures
<1>2. CASE Open(table[key], lag)
  <2>1. Charge(table, key, lag)[key] = [table[key] EXCEPT !.count = @ + 1]
    BY <1>2 DEF Charge, Failures
  <2> QED BY <1>1, <1>2, <2>1 DEF Open
<1>3. CASE ~Open(table[key], lag)
  <2>1. Charge(table, key, lag)[key] = [count |-> 1, left |-> Window - lag]
    BY <1>3 DEF Charge, Room, Failures
  <2> QED BY <2>1, LimitsPositive DEF Open
<1> QED BY <1>2, <1>3

\* With PostgreSQL a wrong answer whose lease is still there is a failure of its
\* account and of its source.  (In one process a full table loses it: the
\* hypothesis is needed.)
THEOREM WrongAnswersAreCharged ==
  ASSUME Shared
  PROVE  Spec => WrongAnswerIsCharged
<1> DEFINE Charged(r) ==
             LET lease == attempts[request[r].lease]
             IN  /\ Open(failures'.account[lease.account], request[r].lag)
                 /\ Open(failures'.source[lease.source], request[r].lag)
           Wrong(r) == /\ request[r].phase = "finish" /\ request[r].outcome = "wrong"
                       /\ attempts[request[r].lease] # None
                       /\ FinishLogin(r)
<1>1. ASSUME TypeOK, NEW r \in Requests, Wrong(r) PROVE Charged(r)
  <2>1. PICK lease, lag : lease = attempts[request[r].lease] /\ lag = request[r].lag
    OBVIOUS
  <2>2. lease \in Attempts /\ lag \in 0 .. MaxLag
    BY <1>1, <2>1 DEF TypeOK, HoldsItsPart, LoginRequests
  <2>3. failures.account \in Failures(Accounts) /\ failures.source \in Failures(Sources)
    BY <1>1 DEF TypeOK
  <2>4. /\ failures'.account = Charge(failures.account, lease.account, lag)
        /\ failures'.source = Charge(failures.source, lease.source, lag)
    BY <1>1, <2>1 DEF FinishLogin
  <2>5. lease.account \in Accounts /\ lease.source \in Sources
    BY <2>2 DEF Attempts
  <2>6. /\ Open(failures'.account[lease.account], lag)
        /\ Open(failures'.source[lease.source], lag)
    BY <2>2, <2>3, <2>4, <2>5, ChargeOpens
  <2> QED BY <2>1, <2>6
<1>2. TypeOK /\ [Next]_vars => [\A r \in Requests : Wrong(r) => Charged(r)]_vars
  BY <1>1
<1> QED BY <1>2, TypeCorrect, PTL DEF Spec, WrongAnswerIsCharged

-----------------------------------------------------------------------------
(* The keys that are tracked                                                *)
KeysTracked(scope) == Tracked(failures[scope], Live, scope)

\* The accounts or sources that tables and leases name are finitely many.
LEMMA TrackedIsFinite ==
  ASSUME TypeOK, NEW scope \in Scopes, NEW table, DOMAIN table = Keys[scope], NEW live \in SUBSET Live
  PROVE  /\ Tracked(table, live, scope) \in SUBSET Keys[scope]
         /\ IsFiniteSet(Tracked(table, live, scope)) /\ Cardinality(Tracked(table, live, scope)) \in Nat
<1>1. \A l \in live : attempts[l][scope] \in Keys[scope]
  <2>1. \A l \in live : attempts[l] \in Attempts
    BY DEF Live, TypeOK
  <2> QED BY <2>1 DEF Scopes, Keys, Attempts
<1>2. Tracked(table, live, scope) \in SUBSET Keys[scope]
  BY <1>1 DEF Tracked, Entries
<1>3. IsFiniteSet(Keys[scope])
  BY SetsAreFinite DEF Scopes, Keys
<1> QED BY <1>2, <1>3, FS_Subset, FS_CardinalityType

\* Tracking no other key keeps the bound.
LEMMA NoOtherKey ==
  ASSUME TypeOK, TrackedBound, NEW scope \in Scopes, NEW keys \in SUBSET KeysTracked(scope)
  PROVE  IsFiniteSet(keys) /\ Cardinality(keys) <= MaxTracked
<1>1. DOMAIN failures[scope] = Keys[scope] /\ Live \in SUBSET Live
  BY DEF TypeOK, Scopes, Keys, Failures
<1>2. IsFiniteSet(KeysTracked(scope)) /\ Cardinality(KeysTracked(scope)) \in Nat
  BY <1>1, TrackedIsFinite DEF KeysTracked
<1>3. Cardinality(KeysTracked(scope)) <= MaxTracked
  BY DEF TrackedBound, KeysTracked
<1>4. IsFiniteSet(keys) /\ Cardinality(keys) <= Cardinality(KeysTracked(scope)) /\ Cardinality(keys) \in Nat
  BY <1>2, FS_Subset, FS_CardinalityType
<1> QED BY <1>2, <1>3, <1>4, LimitsPositive

\* settleExpiredAttempts leaves the keys of entries and of leases that it found.
LEMMA SettledKeys ==
  ASSUME TypeOK, NEW scope \in Scopes, NEW lag, NEW dropped
  PROVE  Tracked(Settled(scope, lag, dropped), Live \ Expired(lag), scope) \in SUBSET KeysTracked(scope)
<1>1. DOMAIN failures[scope] = Keys[scope]
  BY DEF TypeOK, Scopes, Keys, Failures
<1>2. ASSUME NEW k \in Entries(Settled(scope, lag, dropped))
      PROVE  k \in KeysTracked(scope)
  <2>1. k \in Keys[scope] /\ Settled(scope, lag, dropped)[k].count > 0
    BY <1>2 DEF Entries, Settled
  <2>2. CASE Open(failures[scope][k], lag)
    <3>1. k \in Entries(failures[scope])
      BY <1>1, <2>1, <2>2 DEF Entries, Open
    <3> QED BY <3>1 DEF KeysTracked, Tracked
  <2>3. CASE Cardinality(Of(Expired(lag), scope, k)) > 0
    <3>1. Of(Expired(lag), scope, k) # {}
      BY <2>3, FS_EmptySet
    <3>2. PICK l \in Live : attempts[l][scope] = k
      BY <3>1 DEF Of, Expired
    <3> QED BY <3>2 DEF KeysTracked, Tracked
  <2>4. CASE ~Open(failures[scope][k], lag) /\ ~(Cardinality(Of(Expired(lag), scope, k)) > 0)
    <3>1. Settled(scope, lag, dropped)[k] = NoFailure
      BY <2>1, <2>4 DEF Settled
    <3>2. NoFailure.count = 0
      BY DEF NoFailure
    <3> QED BY <2>1, <3>1, <3>2
  <2> QED BY <2>2, <2>3, <2>4
<1>3. {attempts[l][scope] : l \in Live \ Expired(lag)} \in SUBSET KeysTracked(scope)
  BY DEF KeysTracked, Tracked
<1> QED BY <1>2, <1>3 DEF Tracked

LEMMA BeginLoginTracks ==
  ASSUME IInv, TrackedBound, NEW r \in Requests, BeginLogin(r), NEW scope \in Scopes
  PROVE  Cardinality(KeysTracked(scope)') <= MaxTracked
<1> DEFINE lag == request[r].lag
           live == Live \ Expired(lag)
           before == Tracked(failures'[scope], live, scope)
<1>1. PICK da, ds : failures' = [account |-> Settled("account", lag, da), source |-> Settled("source", lag, ds)]
  BY DEF BeginLogin
<1>2. PICK dropped : failures'[scope] = Settled(scope, lag, dropped)
  BY <1>1 DEF Scopes
<1>3. /\ before \in SUBSET KeysTracked(scope)
      /\ IsFiniteSet(before) /\ Cardinality(before) <= MaxTracked /\ Cardinality(before) \in Nat
  <2>1. before \in SUBSET KeysTracked(scope)
    BY <1>2, SettledKeys DEF IInv
  <2> HIDE DEF before
  <2> QED BY <2>1, NoOtherKey, FS_CardinalityType DEF IInv
<1>4. live \in SUBSET Leases /\ live \in SUBSET Live
  BY DEF Live
<1>5. CASE attempts' = [l \in Leases |-> IF l \in live THEN attempts[l] ELSE None]
  <2>1. Live' = live /\ \A l \in live : attempts'[l] = attempts[l]
    <3> HIDE DEF live
    <3>1. \A l \in live : attempts'[l] = attempts[l] /\ attempts[l] # None
      BY <1>4, <1>5 DEF Live
    <3> QED BY <1>4, <1>5, <3>1 DEF Live
  <2>2. KeysTracked(scope)' = before
    <3> HIDE DEF live
    <3> QED BY <2>1 DEF KeysTracked, Tracked, before
  <2> QED BY <1>3, <2>2
<1>6. ASSUME NEW id \in Leases, NEW new,
             attempts' = [x \in Leases |-> IF x = id THEN new ELSE IF x \in live THEN attempts[x] ELSE None],
             new[scope] \in before \/ Cardinality(before) < MaxTracked
      PROVE  Cardinality(KeysTracked(scope)') <= MaxTracked
  <2>1. KeysTracked(scope)' \in SUBSET (before \cup {new[scope]})
    <3> HIDE DEF live
    <3>1. Live' \in SUBSET (live \cup {id})
      BY <1>4, <1>6 DEF Live
    <3>2. attempts'[id] = new /\ \A l \in live \ {id} : attempts'[l] = attempts[l]
      BY <1>4, <1>6
    <3>3. {attempts'[l][scope] : l \in Live'} \in SUBSET ({attempts[l][scope] : l \in live} \cup {new[scope]})
      BY <3>1, <3>2
    <3> QED BY <3>3 DEF KeysTracked, Tracked, before
  <2> HIDE DEF before, live
  <2>2. CASE new[scope] \in before
    <3>1. KeysTracked(scope)' \in SUBSET before
      BY <2>1, <2>2
    <3>2. Cardinality(KeysTracked(scope)') <= Cardinality(before) /\ Cardinality(KeysTracked(scope)') \in Nat
      BY <1>3, <3>1, FS_Subset, FS_CardinalityType
    <3> QED BY <1>3, <3>2, LimitsPositive
  <2>3. CASE new[scope] \notin before /\ Cardinality(before) < MaxTracked
    <3>1. IsFiniteSet(before \cup {new[scope]}) /\ Cardinality(before \cup {new[scope]}) = Cardinality(before) + 1
      BY <1>3, <2>3, FS_AddElement
    <3>2. /\ Cardinality(KeysTracked(scope)') <= Cardinality(before \cup {new[scope]})
          /\ Cardinality(KeysTracked(scope)') \in Nat
      BY <2>1, <3>1, FS_Subset, FS_CardinalityType
    <3> QED BY <1>3, <2>3, <3>1, <3>2, LimitsPositive
  <2> QED BY <1>6, <2>2, <2>3
<1>7. CASE /\ ~Refused(failures'.account, live, "account", request[r].account, AccountLimit)
           /\ ~Refused(failures'.source, live, "source", request[r].source, SourceLimit)
           /\ \E l \in Leases \ (Live \cup {request[o].lease : o \in Requests}) :
                attempts' = [x \in Leases |->
                     IF x = l THEN [account |-> request[r].account, source |-> request[r].source, left |-> Window - lag]
                     ELSE IF x \in live THEN attempts[x] ELSE None]
  <2> DEFINE new == [account |-> request[r].account, source |-> request[r].source, left |-> Window - lag]
  <2>1. PICK id \in Leases : attempts' = [x \in Leases |-> IF x = id THEN new ELSE IF x \in live THEN attempts[x] ELSE None]
    BY <1>7
  <2>2. new[scope] \in before \/ ~(Cardinality(before) >= MaxTracked)
    BY <1>7 DEF Refused, Scopes
  <2>3. Cardinality(before) < MaxTracked \/ new[scope] \in before
    <3> HIDE DEF before, new
    <3> QED BY <1>3, <2>2, LimitsPositive
  <2> HIDE DEF before, new, live
  <2> QED BY <1>6, <2>1, <2>3
<1> QED BY <1>5, <1>7 DEF BeginLogin

LEMMA FinishLoginTracks ==
  ASSUME IInv, TrackedBound, NEW r \in Requests, FinishLogin(r), NEW scope \in Scopes
  PROVE  Cardinality(KeysTracked(scope)') <= MaxTracked
<1> DEFINE id == request[r].lease
           lease == attempts[id]
           lag == request[r].lag
<1>1. id \in Leases
  BY DEF IInv, TypeOK, FinishLogin, HoldsItsPart
<1>2. CASE UNCHANGED <<failures, attempts>>
  <2>1. KeysTracked(scope)' = KeysTracked(scope)
    BY <1>2 DEF KeysTracked, Tracked, Entries, Live
  <2> QED BY <2>1, NoOtherKey DEF IInv
<1>3. CASE /\ lease # None
           /\ attempts' = [attempts EXCEPT ![id] = None]
           /\ \/ failures' = [account |-> Charge(failures.account, lease.account, lag),
                              source  |-> Charge(failures.source, lease.source, lag)]
              \/ failures' = [failures EXCEPT !.account[lease.account] = NoFailure]
              \/ failures' = failures
  <2>1. lease \in Attempts /\ id \in Live /\ lease[scope] \in KeysTracked(scope)
    <3>1. lease \in Attempts /\ id \in Live
      BY <1>1, <1>3 DEF IInv, TypeOK, Live
    <3> QED BY <3>1 DEF KeysTracked, Tracked
  <2>2. {attempts'[l][scope] : l \in Live'} \in SUBSET KeysTracked(scope)
    <3>1. Live' \in SUBSET Live /\ \A l \in Live' : attempts'[l] = attempts[l]
      BY <1>1, <1>3 DEF IInv, TypeOK, Live
    <3> QED BY <3>1 DEF KeysTracked, Tracked
  <2>3. /\ DOMAIN failures'[scope] = DOMAIN failures[scope]
        /\ \A k \in DOMAIN failures[scope] : k # lease[scope] =>
             failures'[scope][k] = failures[scope][k] \/ failures'[scope][k] = NoFailure
    <3>1. /\ failures.account \in Failures(Accounts) /\ failures.source \in Failures(Sources)
          /\ failures \in [account : Failures(Accounts), source : Failures(Sources)]
          /\ lease.account \in Accounts /\ lease.source \in Sources
      BY <2>1 DEF IInv, TypeOK, Attempts
    <3> HIDE DEF lease, lag
    <3>2. CASE failures' = [account |-> Charge(failures.account, lease.account, lag),
                            source  |-> Charge(failures.source, lease.source, lag)]
      <4>1. ASSUME NEW keys, NEW table \in Failures(keys), NEW key \in keys
            PROVE  /\ DOMAIN Charge(table, key, lag) = DOMAIN table
                   /\ \A k \in DOMAIN table : k # key => Charge(table, key, lag)[k] = table[k]
        BY DEF Charge, Failures
      <4> QED BY <3>1, <3>2, <4>1 DEF Scopes
    <3>3. CASE failures' = [failures EXCEPT !.account[lease.account] = NoFailure]
      <4>1. /\ failures'.account = [failures.account EXCEPT ![lease.account] = NoFailure]
            /\ failures'.source = failures.source
        BY <3>1, <3>3
      <4> QED BY <3>1, <4>1 DEF Scopes, Failures
    <3>4. CASE failures' = failures
      BY <3>4
    <3> QED BY <1>3, <3>2, <3>3, <3>4 DEF lease, lag
  <2>4. Entries(failures'[scope]) \in SUBSET KeysTracked(scope)
    <3>1. ASSUME NEW k \in Entries(failures'[scope]) PROVE k \in KeysTracked(scope)
      <4>1. k \in DOMAIN failures[scope] /\ failures'[scope][k].count > 0
        BY <2>3 DEF Entries
      <4>2. CASE k = lease[scope]
        BY <2>1, <4>2
      <4>3. CASE k # lease[scope]
        <5>1. failures'[scope][k] # NoFailure
          BY <4>1 DEF NoFailure
        <5>2. k \in Entries(failures[scope])
          BY <2>3, <4>1, <4>3, <5>1 DEF Entries
        <5> QED BY <5>2 DEF KeysTracked, Tracked
      <4> QED BY <4>2, <4>3
    <3> QED BY <3>1
  <2>5. KeysTracked(scope)' \in SUBSET KeysTracked(scope)
    BY <2>2, <2>4 DEF KeysTracked, Tracked
  <2> QED BY <2>5, NoOtherKey DEF IInv
<1> QED BY <1>2, <1>3 DEF FinishLogin

\* The other steps track nothing new.
LEMMA OthersTrack ==
  ASSUME IInv, TrackedBound, NEW scope \in Scopes,
         Tick \/ Forgotten \/ UNCHANGED <<failures, attempts>>
  PROVE  Cardinality(KeysTracked(scope)') <= MaxTracked
<1>1. CASE UNCHANGED <<failures, attempts>>
  <2>1. KeysTracked(scope)' = KeysTracked(scope)
    BY <1>1 DEF KeysTracked, Tracked, Entries, Live
  <2> QED BY <2>1, NoOtherKey DEF IInv
<1>2. CASE Forgotten
  <2>1. KeysTracked(scope)' = {}
    BY <1>2 DEF Forgotten, KeysTracked, Tracked, Entries, Live, Scopes, NoFailure
  <2>2. Cardinality({}) = 0
    BY FS_EmptySet
  <2> QED BY <2>1, <2>2, LimitsPositive
<1>3. CASE Tick
  <2>1. /\ DOMAIN failures'[scope] = DOMAIN failures[scope]
        /\ \A k \in DOMAIN failures[scope] : failures'[scope][k].count = failures[scope][k].count
    <3>1. /\ DOMAIN failures.account = Accounts /\ DOMAIN failures.source = Sources
          /\ \A k \in Accounts : failures.account[k] \in [count : Nat, left : -MaxLag .. Window]
          /\ \A k \in Sources : failures.source[k] \in [count : Nat, left : -MaxLag .. Window]
      BY DEF IInv, TypeOK, Failures
    <3>2. \A x \in [count : Nat, left : -MaxLag .. Window] : Older(x).count = x.count
      BY DEF Older
    <3>3. /\ failures'.account = [k \in Accounts |-> Older(failures.account[k])]
          /\ failures'.source = [k \in Sources |-> Older(failures.source[k])]
      BY <1>3 DEF Tick
    <3>4. scope \in {"account", "source"}
      BY DEF Scopes
    <3> QED BY <3>1, <3>2, <3>3, <3>4
  <2>2. Live' = Live /\ \A l \in Live : attempts'[l][scope] = attempts[l][scope]
    <3>1. \A x \in Attempts : Older(x) # None /\ Older(x).account = x.account /\ Older(x).source = x.source
      <4>1. \A x \in Attempts : Older(x) \in Attempts
        BY LimitsPositive DEF Attempts, Older
      <4> QED BY <4>1, NoneIsNothingElse DEF Older, Attempts
    <3> QED BY <1>3, <3>1 DEF IInv, TypeOK, Tick, Live, Scopes
  <2>3. KeysTracked(scope)' = KeysTracked(scope)
    BY <2>1, <2>2 DEF KeysTracked, Tracked, Entries
  <2> QED BY <2>3, NoOtherKey DEF IInv
<1> QED BY <1>1, <1>2, <1>3

LEMMA TrackedStep ==
  ASSUME IInv, TrackedBound, [Next]_vars
  PROVE  TrackedBound'
<1>1. SUFFICES ASSUME NEW scope \in Scopes PROVE Cardinality(KeysTracked(scope)') <= MaxTracked
  BY DEF TrackedBound, KeysTracked
<1>2. CASE \E r \in Requests : BeginLogin(r) \/ FinishLogin(r)
  BY <1>2, BeginLoginTracks, FinishLoginTracks
<1>3. CASE Tick \/ Forgotten \/ UNCHANGED <<failures, attempts>>
  BY <1>3, OthersTrack
<1>4. CASE \E r \in Requests : (\E a \in Accounts, s \in Sources : Arrive(r, a, s))
                               \/ \E o \in {"right", "wrong", "none"} : Verify(r, o)
  BY <1>4, <1>3 DEF Arrive, Verify
<1>5. CASE \E r \in Requests : Die(r)
  BY <1>5, <1>3 DEF Die
<1> QED BY <1>2, <1>3, <1>4, <1>5 DEF Next, vars

\* At first no key is tracked.
LEMMA TrackedInit ==
  ASSUME Init
  PROVE  TrackedBound
<1>1. \A scope \in Scopes : KeysTracked(scope) = {}
  BY DEF Init, KeysTracked, Tracked, Entries, Live, Scopes, NoFailure
<1>2. Cardinality({}) = 0
  BY FS_EmptySet
<1> QED BY <1>1, <1>2, LimitsPositive DEF TrackedBound, KeysTracked

(* The tables never name more accounts or sources than MAX_TRACKED_LOGIN_KEYS, *)
(* for both adapters (beginLogin's check, increment, settleExpiredAttempts).  *)
THEOREM KeysStayBounded == Spec => []TrackedBound
<1>1. Init => IInv /\ TrackedBound
  BY InvariantInit, TrackedInit
<1>2. IInv /\ TrackedBound /\ [Next]_vars => (IInv /\ TrackedBound)'
  BY InvariantStep, TrackedStep
<1> QED BY <1>1, <1>2, PTL DEF Spec

-----------------------------------------------------------------------------
(* A guess is a failure or a lease                                          *)
\* The leases of an account that are out and have more than some ticks left.
Above(table, a, m) ==
  {l \in Leases : table[l] # None /\ table[l].account = a /\ table[l].left > m}

\* What the guesses at one account, its failures and its leases know of each other.
\* Those of the open window, the first of which is older than the window, are in its
\* count or still out; those before it were charged to one window at most, which had
\* room for one guess less, since its own first one is older still.
Fits(G, f, table, a) ==
  /\ G \in [Ages -> Int]
  /\ \A age \in Ages : G[age] >= Cardinality(Out(table, a, age))
  /\ Prefix(G, Window) <= AccountLimit - 1 + (IF f.count > 0 /\ f.left > 0 THEN f.count ELSE 0)
                            + Cardinality(Above(table, a, 0))
  /\ f.count > 0 /\ f.left > 0 =>
       Prefix(G, Window - f.left) <= f.count - 1 + Cardinality(Above(table, a, f.left))
  /\ f.count > 0 /\ f.left <= 0 => Prefix(G, Window) <= AccountLimit - 1

FailureEntries == [count : Nat, left : 0 .. Window]
LeaseTables == [Leases -> [account : Accounts, source : Sources, left : 0 .. Window] \cup {None}]

\* None is no lease.
LEMMA NoneIsNoLease ==
  ASSUME ~Shared
  PROVE  None \notin [account : Accounts, source : Sources, left : 0 .. Window]
<1>1. [account : Accounts, source : Sources, left : 0 .. Window] \subseteq Attempts
  BY LimitsPositive, OneProcessReadsFreshTime DEF Attempts
<1> QED BY <1>1, NoneIsNothingElse

\* Leases are finitely many.
LEMMA LeasesCount ==
  ASSUME NEW S \in SUBSET Leases
  PROVE  IsFiniteSet(S) /\ Cardinality(S) \in Nat
BY SetsAreFinite, FS_Subset, FS_CardinalityType

LEMMA OutAndAbove ==
  ASSUME NEW table, NEW a, NEW m
  PROVE  /\ IsFiniteSet(Above(table, a, m)) /\ Cardinality(Above(table, a, m)) \in Nat
         /\ IsFiniteSet(Out(table, a, m)) /\ Cardinality(Out(table, a, m)) \in Nat
<1>1. Above(table, a, m) \in SUBSET Leases /\ Out(table, a, m) \in SUBSET Leases
  BY DEF Above, Out
<1> QED BY <1>1, LeasesCount

\* Values of the guesses, and of sums over them.
LEMMA GuessSums ==
  ASSUME NEW G \in [Ages -> Int], NEW n \in 0 .. Window
  PROVE  n \in Nat /\ (\A i \in 0 .. n - 1 : i \in Ages /\ G[i] \in Int) /\ Prefix(G, n) \in Int
<1>1. n \in Nat /\ \A i \in 0 .. n - 1 : i \in Ages
  BY LimitsPositive DEF Ages
<1> QED BY <1>1, PrefixIsNumber

\* One more guess, or one less, in the sums that reach to it.
LEMMA OneGuessChanges ==
  ASSUME NEW G \in [Ages -> Int], NEW H \in [Ages -> Int], NEW k \in Ages, NEW n \in 0 .. Window,
         \A i \in Ages : i # k => H[i] = G[i]
  PROVE  Prefix(G, n) \in Int /\ Prefix(H, n) = Prefix(G, n) + (IF k < n THEN H[k] - G[k] ELSE 0)
<1>1. /\ n \in Nat /\ k \in Nat /\ Prefix(G, n) \in Int /\ H[k] \in Int
      /\ \A i \in 0 .. n - 1 : i \in Ages /\ G[i] \in Int
  BY LimitsPositive, GuessSums DEF Ages
<1>2. CASE k < n
  <2>1. k \in 0 .. n - 1
    BY <1>1, <1>2
  <2>2. \A i \in 0 .. n - 1 : G[i] \in Int /\ (i # k => H[i] = G[i])
    BY <1>1
  <2>3. Prefix(H, n) = Prefix(G, n) + (H[k] - G[k])
    BY <1>1, <2>1, <2>2, PrefixChange
  <2> QED BY <1>1, <1>2, <2>3
<1>3. CASE ~(k < n)
  <2>1. \A i \in 0 .. n - 1 : G[i] \in Int /\ H[i] = G[i]
    BY <1>1, <1>3
  <2>2. Prefix(H, n) = Prefix(G, n)
    BY <1>1, <2>1, PrefixSame
  <2> QED BY <1>1, <1>3, <2>2
<1> QED BY <1>2, <1>3

\* Leases that are over, and those of other accounts, do not matter.
LEMMA SameLeases ==
  ASSUME NEW G, NEW f \in FailureEntries, NEW table, NEW a, Fits(G, f, table, a), NEW other,
         \A m \in Nat : Above(other, a, m) = Above(table, a, m),
         \A age \in Ages : Out(other, a, age) = Out(table, a, age)
  PROVE  Fits(G, f, other, a)
BY DEF Fits, FailureEntries

\* A tick: every guess is a tick older.
LEMMA TickFits ==
  ASSUME ~Shared, NEW G, NEW f \in FailureEntries, NEW table \in LeaseTables, NEW a, Fits(G, f, table, a),
         f.count + Cardinality(Above(table, a, 0)) <= AccountLimit,
         NEW later, later = [l \in Leases |-> IF table[l] = None THEN None ELSE Older(table[l])]
  PROVE  Fits([g \in Ages |-> IF g = 0 THEN 0 ELSE G[g - 1]], Older(f), later, a)
<1> DEFINE H == [g \in Ages |-> IF g = 0 THEN 0 ELSE G[g - 1]]
           e == Older(f)
           Lease == [account : Accounts, source : Sources, left : 0 .. Window]
<1>0. MaxLag = 0 /\ Window \in Nat \ {0} /\ AccountLimit \in Nat \ {0}
  BY LimitsPositive, OneProcessReadsFreshTime
<1>1. /\ f.count \in Nat /\ f.left \in 0 .. Window
      /\ e.count = f.count /\ e.left = IF f.left > 0 THEN f.left - 1 ELSE f.left
  BY <1>0 DEF FailureEntries, Older
<1>2. \A l \in Leases : /\ later[l] = None <=> table[l] = None
                        /\ table[l] # None =>
                             /\ later[l].account = table[l].account /\ table[l].left \in 0 .. Window
                             /\ later[l].left = IF table[l].left > 0 THEN table[l].left - 1 ELSE table[l].left
  <2> TAKE l \in Leases
  <2>1. CASE table[l] = None
    BY <2>1
  <2>2. CASE table[l] # None
    <3>1. table[l] \in Lease /\ later[l] = Older(table[l])
      BY <2>2 DEF LeaseTables
    <3>2. /\ Older(table[l]) \in Lease /\ Older(table[l]).account = table[l].account
          /\ Older(table[l]).left = IF table[l].left > 0 THEN table[l].left - 1 ELSE table[l].left
      BY <1>0, <3>1 DEF Older
    <3>3. None \notin Lease
      BY NoneIsNoLease
    <3> HIDE DEF Lease
    <3>4. table[l].left \in 0 .. Window
      BY <3>1 DEF Lease
    <3> QED BY <2>2, <3>1, <3>2, <3>3, <3>4
  <2> QED BY <2>1, <2>2
<1>3. \A m \in Nat : Above(later, a, m) = Above(table, a, m + 1)
  BY <1>2 DEF Above
<1>4. Out(later, a, 0) = {} /\ \A age \in Ages \ {0} : Out(later, a, age) = Out(table, a, age - 1)
  BY <1>0, <1>2 DEF Out, Ages
<1>5. Cardinality(Above(table, a, 0)) = Cardinality(Above(table, a, 1)) + Cardinality(Out(table, a, Window - 1))
  <2> DEFINE A == Above(table, a, 1)
             B == Out(table, a, Window - 1)
  <2>1. Above(table, a, 0) = A \cup B /\ A \cap B = {}
    BY <1>0, <1>2 DEF Above, Out
  <2>2. IsFiniteSet(A) /\ IsFiniteSet(B) /\ Cardinality(A) \in Nat /\ Cardinality(B) \in Nat
    BY OutAndAbove
  <2>3. Cardinality(A \cup B) = Cardinality(A) + Cardinality(B) - Cardinality(A \cap B)
    BY <2>2, FS_Union
  <2>4. Cardinality(A \cap B) = 0
    BY <2>1, FS_EmptySet
  <2> HIDE DEF A, B
  <2>5. Cardinality(A \cup B) = Cardinality(A) + Cardinality(B)
    BY <2>2, <2>3, <2>4
  <2> QED BY <2>1, <2>5 DEF A, B
<1>6. /\ G \in [Ages -> Int] /\ H \in [Ages -> Int] /\ H[0] = 0
      /\ \A n \in 0 .. Window - 1 : \A i \in 1 .. n : H[i] = G[i - 1]
  <2>1. G \in [Ages -> Int]
    BY DEF Fits
  <2>2. \A g \in Ages \ {0} : g - 1 \in Ages /\ G[g - 1] \in Int
    BY <2>1, <1>0 DEF Ages
  <2>3. 0 \in Ages /\ \A n \in 0 .. Window - 1 : \A i \in 1 .. n : i \in Ages \ {0}
    BY <1>0 DEF Ages
  <2> QED BY <2>1, <2>2, <2>3
<1>7. \A n \in 0 .. Window - 1 : Prefix(H, n + 1) = Prefix(G, n)
  <2> TAKE n \in 0 .. Window - 1
  <2>1. n \in Nat /\ \A i \in 0 .. n - 1 : G[i] \in Int
    BY <1>0, <1>6, GuessSums
  <2>2. H[0] = 0 /\ \A i \in 1 .. n : H[i] = G[i - 1]
    BY <1>6
  <2> HIDE DEF H
  <2> QED BY <2>1, <2>2, PrefixShift
<1>8. /\ Prefix(H, Window) = Prefix(G, Window - 1)
      /\ Prefix(G, Window) = Prefix(G, Window - 1) + G[Window - 1]
      /\ Prefix(G, Window) \in Int /\ Prefix(G, Window - 1) \in Int /\ Prefix(H, Window) \in Int
      /\ G[Window - 1] \in Int
  <2>1. Window - 1 \in 0 .. Window - 1 /\ (Window - 1) + 1 = Window /\ Window - 1 \in Nat
    BY <1>0
  <2>2. Prefix(H, Window) = Prefix(G, Window - 1)
    BY <1>7, <2>1
  <2>3. \A i \in 0 .. Window - 1 : G[i] \in Int
    BY <1>6 DEF Ages
  <2>4. Prefix(G, Window - 1) \in Int /\ Prefix(G, (Window - 1) + 1) = Prefix(G, Window - 1) + G[Window - 1]
    BY <2>1, <2>3, PrefixStep
  <2>5. G[Window - 1] \in Int
    BY <2>1, <2>3
  <2> QED BY <2>1, <2>2, <2>4, <2>5
<1>9. \A age \in Ages : H[age] >= Cardinality(Out(later, a, age))
  <2> TAKE age \in Ages
  <2>1. CASE age = 0
    <3>1. Cardinality({}) = 0
      BY FS_EmptySet
    <3>2. H[0] = 0 /\ Out(later, a, 0) = {}
      BY <1>4, <1>6
    <3> HIDE DEF H
    <3>3. Cardinality(Out(later, a, 0)) = 0
      BY <3>1, <3>2
    <3> QED BY <2>1, <3>2, <3>3
  <2>2. CASE age # 0
    <3>1. age - 1 \in Ages /\ H[age] = G[age - 1]
      BY <1>0, <2>2 DEF Ages
    <3>2. G[age - 1] >= Cardinality(Out(table, a, age - 1))
      BY <3>1 DEF Fits
    <3> HIDE DEF H
    <3> QED BY <1>4, <2>2, <3>1, <3>2
  <2> QED BY <2>1, <2>2
<1>10. Cardinality(Above(later, a, 0)) = Cardinality(Above(table, a, 1))
  BY <1>3
<1>11. G[Window - 1] >= Cardinality(Out(table, a, Window - 1)) /\ Cardinality(Out(table, a, Window - 1)) \in Nat
  <2>1. Window - 1 \in Ages
    BY <1>0 DEF Ages
  <2> QED BY <2>1, OutAndAbove DEF Fits
<1>12. /\ Cardinality(Above(table, a, 0)) \in Nat /\ Cardinality(Above(table, a, 1)) \in Nat
  BY OutAndAbove
<1>13. f.count > 0 /\ f.left = 1 => Prefix(H, Window) <= f.count - 1 + Cardinality(Above(table, a, 1))
  BY <1>8 DEF Fits
<1>14. Prefix(H, Window) <= AccountLimit - 1 + (IF e.count > 0 /\ e.left > 0 THEN e.count ELSE 0)
                              + Cardinality(Above(later, a, 0))
  <2>1. Prefix(G, Window) <= AccountLimit - 1 + (IF f.count > 0 /\ f.left > 0 THEN f.count ELSE 0)
                                + Cardinality(Above(table, a, 0))
    BY DEF Fits
  <2> HIDE DEF H, e
  <2>2. CASE f.count > 0 /\ f.left = 1
    <3>1. ~(e.left > 0)
      BY <1>1, <2>2
    <3> QED BY <1>0, <1>1, <1>5, <1>8, <1>10, <1>11, <1>12, <1>13, <2>2, <3>1
  <2>3. CASE ~(f.count > 0 /\ f.left = 1)
    <3>1. (f.count > 0 /\ f.left > 0) <=> (e.count > 0 /\ e.left > 0)
      BY <1>1, <2>3
    <3> QED BY <1>0, <1>1, <1>5, <1>8, <1>10, <1>11, <1>12, <2>1, <3>1
  <2> QED BY <2>2, <2>3
<1>15. e.count > 0 /\ e.left > 0 =>
         Prefix(H, Window - e.left) <= e.count - 1 + Cardinality(Above(later, a, e.left))
  <2> HAVE e.count > 0 /\ e.left > 0
  <2>1. f.count > 0 /\ f.left > 0 /\ e.left = f.left - 1 /\ e.left \in Nat /\ e.left + 1 = f.left
    BY <1>1
  <2>2. Window - f.left \in 0 .. Window - 1 /\ (Window - f.left) + 1 = Window - e.left
    BY <1>0, <1>1, <2>1
  <2>3. Prefix(H, Window - e.left) = Prefix(G, Window - f.left)
    BY <1>7, <2>2
  <2>4. Above(later, a, e.left) = Above(table, a, f.left)
    BY <1>3, <2>1
  <2>5. Prefix(G, Window - f.left) <= f.count - 1 + Cardinality(Above(table, a, f.left))
    BY <2>1 DEF Fits
  <2> QED BY <1>1, <2>3, <2>4, <2>5
<1>16. e.count > 0 /\ e.left <= 0 => Prefix(H, Window) <= AccountLimit - 1
  <2> HAVE e.count > 0 /\ e.left <= 0
  <2> HIDE DEF H, e
  <2>1. CASE f.left = 1
    BY <1>0, <1>1, <1>5, <1>8, <1>11, <1>12, <1>13, <2>1
  <2>2. CASE f.left # 1
    <3>1. f.count > 0 /\ f.left <= 0
      BY <1>1, <2>2
    <3>2. Prefix(G, Window) <= AccountLimit - 1
      BY <3>1 DEF Fits
    <3> QED BY <1>0, <1>8, <1>11, <3>2
  <2> QED BY <2>1, <2>2
<1> QED
  <2> HIDE DEF H, e
  <2>1. Fits(H, e, later, a)
    BY <1>6, <1>9, <1>14, <1>15, <1>16 DEF Fits
  <2> QED BY <2>1 DEF H, e

\* An entry may get another failure, open a window of its own or, closed, be dropped.
LEMMA EntryFits ==
  ASSUME ~Shared, NEW G, NEW f \in FailureEntries, NEW table, NEW a, Fits(G, f, table, a),
         NEW new \in FailureEntries,
         \/ f.count > 0 /\ f.left > 0 /\ new.left = f.left /\ new.count >= f.count
         \/ ~(f.count > 0 /\ f.left > 0) /\ new.count > 0 /\ new.left = Window
         \/ ~(f.count > 0 /\ f.left > 0) /\ new.count = 0
  PROVE  Fits(G, new, table, a)
<1>0. /\ Window \in Nat \ {0} /\ AccountLimit \in Nat \ {0}
      /\ f.count \in Nat /\ f.left \in 0 .. Window /\ new.count \in Nat /\ new.left \in 0 .. Window
  BY LimitsPositive DEF FailureEntries
<1>1. G \in [Ages -> Int] /\ \A age \in Ages : G[age] >= Cardinality(Out(table, a, age))
  BY DEF Fits
<1>2. \A n \in 0 .. Window : Prefix(G, n) \in Int
  BY <1>1, GuessSums
<1>3. \A m \in Nat : Cardinality(Above(table, a, m)) \in Nat
  BY OutAndAbove
<1>4. Prefix(G, Window) <= AccountLimit - 1 + (IF new.count > 0 /\ new.left > 0 THEN new.count ELSE 0)
                             + Cardinality(Above(table, a, 0))
  <2>1. Prefix(G, Window) <= AccountLimit - 1 + (IF f.count > 0 /\ f.left > 0 THEN f.count ELSE 0)
                               + Cardinality(Above(table, a, 0))
    BY DEF Fits
  <2>2. Prefix(G, Window) \in Int /\ Cardinality(Above(table, a, 0)) \in Nat
    BY <1>0, <1>2, <1>3
  <2> QED BY <1>0, <2>1, <2>2
<1>5. new.count > 0 /\ new.left > 0 =>
        Prefix(G, Window - new.left) <= new.count - 1 + Cardinality(Above(table, a, new.left))
  <2>1. CASE f.count > 0 /\ f.left > 0 /\ new.left = f.left /\ new.count >= f.count
    <3>1. Prefix(G, Window - f.left) <= f.count - 1 + Cardinality(Above(table, a, f.left))
      BY <2>1 DEF Fits
    <3>2. Prefix(G, Window - f.left) \in Int /\ Cardinality(Above(table, a, f.left)) \in Nat
      BY <1>0, <1>2, <1>3
    <3> QED BY <1>0, <2>1, <3>1, <3>2
  <2>2. CASE new.count > 0 /\ new.left = Window
    <3>1. Window - new.left = 0 /\ Prefix(G, 0) = 0
      BY <1>0, <2>2, PrefixOfNone
    <3>2. Cardinality(Above(table, a, new.left)) \in Nat
      BY <1>0, <1>3
    <3>3. Prefix(G, Window - new.left) = 0
      BY <3>1
    <3> QED BY <1>0, <2>2, <3>2, <3>3
  <2> QED BY <2>1, <2>2
<1>6. ~(new.count > 0 /\ new.left <= 0)
  BY <1>0
<1> QED BY <1>1, <1>4, <1>5, <1>6 DEF Fits

\* A lease that leaves the table leaves the counts it was in.
Without(other, table, a, left) ==
  /\ \A m \in Nat :
       Cardinality(Above(other, a, m)) = Cardinality(Above(table, a, m)) - (IF left > m THEN 1 ELSE 0)
  /\ \A age \in Ages :
       Cardinality(Out(other, a, age)) = Cardinality(Out(table, a, age)) - (IF left = Window - age THEN 1 ELSE 0)

LEMMA LeaseLeaves ==
  ASSUME ~Shared, NEW table \in LeaseTables, NEW id \in Leases, table[id] # None,
         NEW a, a = table[id].account, NEW other, other = [table EXCEPT ![id] = None]
  PROVE  table[id].left \in 0 .. Window /\ Without(other, table, a, table[id].left)
<1>1. table[id].left \in 0 .. Window
  BY DEF LeaseTables
<1>2. other[id] = None /\ \A l \in Leases \ {id} : other[l] = table[l]
  BY DEF LeaseTables
<1>3. ASSUME NEW m \in Nat
      PROVE  Cardinality(Above(other, a, m))
               = Cardinality(Above(table, a, m)) - (IF table[id].left > m THEN 1 ELSE 0)
  <2> DEFINE A == Above(table, a, m)
  <2>1. IsFiniteSet(A) /\ Cardinality(A) \in Nat
    BY OutAndAbove
  <2>2. CASE table[id].left > m
    <3>1. id \in A /\ Above(other, a, m) = A \ {id}
      BY <1>2, <2>2 DEF Above
    <3>2. Cardinality(A \ {id}) = Cardinality(A) - 1
      BY <2>1, <3>1, FS_RemoveElement
    <3> QED BY <2>2, <3>1, <3>2
  <2>3. CASE ~(table[id].left > m)
    <3>1. Above(other, a, m) = A
      BY <1>2, <2>3 DEF Above
    <3> HIDE DEF A
    <3> QED BY <2>1, <2>3, <3>1 DEF A
  <2> QED BY <2>2, <2>3
<1>4. ASSUME NEW age \in Ages
      PROVE  Cardinality(Out(other, a, age))
               = Cardinality(Out(table, a, age)) - (IF table[id].left = Window - age THEN 1 ELSE 0)
  <2> DEFINE A == Out(table, a, age)
  <2>1. IsFiniteSet(A) /\ Cardinality(A) \in Nat
    BY OutAndAbove
  <2>2. CASE table[id].left = Window - age
    <3>1. id \in A /\ Out(other, a, age) = A \ {id}
      BY <1>2, <2>2 DEF Out
    <3>2. Cardinality(A \ {id}) = Cardinality(A) - 1
      BY <2>1, <3>1, FS_RemoveElement
    <3> QED BY <2>2, <3>1, <3>2
  <2>3. CASE table[id].left # Window - age
    <3>1. Out(other, a, age) = A
      BY <1>2, <2>3 DEF Out
    <3> HIDE DEF A
    <3> QED BY <2>1, <2>3, <3>1 DEF A
  <2> QED BY <2>2, <2>3
<1> QED BY <1>1, <1>3, <1>4 DEF Without

\* A lease that ends in a failure: the failure takes its place, unless the window of
\* the account is closed and stays so.
LEMMA FailureFits ==
  ASSUME ~Shared, NEW G, NEW f \in FailureEntries, NEW table \in LeaseTables, NEW id \in Leases, table[id] # None,
         NEW a, a = table[id].account, Fits(G, f, table, a),
         NEW other, other = [table EXCEPT ![id] = None], NEW new \in FailureEntries,
         \/ f.count > 0 /\ f.left > 0 /\ new.left = f.left /\ new.count = f.count + 1
         \/ ~(f.count > 0 /\ f.left > 0) /\ new.count = 1 /\ new.left = Window
         \/ f.count > 0 /\ f.left <= 0 /\ new = f
  PROVE  Fits(G, new, other, a)
<1>l. table[id].left \in 0 .. Window /\ Without(other, table, a, table[id].left)
  BY LeaseLeaves
<1> DEFINE A(m) == Cardinality(Above(table, a, m))
           B(m) == Cardinality(Above(other, a, m))
<1>0. /\ Window \in Nat \ {0} /\ AccountLimit \in Nat \ {0}
      /\ f.count \in Nat /\ f.left \in 0 .. Window /\ new.count \in Nat /\ new.left \in 0 .. Window
  BY LimitsPositive DEF FailureEntries
<1>1. G \in [Ages -> Int] /\ \A age \in Ages : G[age] >= Cardinality(Out(table, a, age))
  BY DEF Fits
<1>2. \A n \in 0 .. Window : Prefix(G, n) \in Int
  BY <1>1, GuessSums
<1>3. \A m \in Nat : A(m) \in Nat /\ B(m) \in Nat /\ B(m) >= A(m) - 1
  <2>1. \A m \in Nat : A(m) \in Nat /\ B(m) \in Nat
    BY OutAndAbove
  <2>2. \A m \in Nat : B(m) = A(m) - (IF table[id].left > m THEN 1 ELSE 0)
    BY <1>l DEF Without
  <2> HIDE DEF A, B
  <2> QED BY <2>1, <2>2
<1>4. \A age \in Ages : G[age] >= Cardinality(Out(other, a, age))
  <2> TAKE age \in Ages
  <2>1. /\ Cardinality(Out(other, a, age))
              = Cardinality(Out(table, a, age)) - (IF table[id].left = Window - age THEN 1 ELSE 0)
        /\ Cardinality(Out(table, a, age)) \in Nat
    BY <1>l, OutAndAbove DEF Without
  <2> QED BY <1>1, <2>1
<1>5. Prefix(G, Window) <= AccountLimit - 1 + (IF f.count > 0 /\ f.left > 0 THEN f.count ELSE 0) + A(0)
  BY DEF Fits
<1>6. f.count > 0 /\ f.left > 0 => Prefix(G, Window - f.left) <= f.count - 1 + A(f.left)
  BY DEF Fits
<1>7. f.count > 0 /\ f.left <= 0 => Prefix(G, Window) <= AccountLimit - 1
  BY DEF Fits
<1> HIDE DEF A, B
<1>8. Prefix(G, Window) \in Int /\ A(0) \in Nat /\ B(0) \in Nat /\ B(0) >= A(0) - 1
  BY <1>0, <1>2, <1>3
<1>9. Prefix(G, Window) <= AccountLimit - 1 + (IF new.count > 0 /\ new.left > 0 THEN new.count ELSE 0) + B(0)
  BY <1>0, <1>5, <1>7, <1>8
<1>10. new.count > 0 /\ new.left > 0 => Prefix(G, Window - new.left) <= new.count - 1 + B(new.left)
  <2>1. CASE f.count > 0 /\ f.left > 0 /\ new.left = f.left /\ new.count = f.count + 1
    <3>1. /\ Prefix(G, Window - f.left) \in Int
          /\ A(f.left) \in Nat /\ B(f.left) \in Nat /\ B(f.left) >= A(f.left) - 1
      BY <1>0, <1>2, <1>3
    <3> QED BY <1>0, <1>6, <2>1, <3>1
  <2>2. CASE new.count = 1 /\ new.left = Window
    <3>1. Window - new.left = 0 /\ Prefix(G, 0) = 0 /\ B(new.left) \in Nat
      BY <1>0, <1>3, <2>2, PrefixOfNone
    <3>2. Prefix(G, Window - new.left) = 0
      BY <3>1
    <3> QED BY <1>0, <2>2, <3>1, <3>2
  <2>3. CASE f.count > 0 /\ f.left <= 0 /\ new = f
    BY <1>0, <2>3
  <2> QED BY <2>1, <2>2, <2>3
<1>11. new.count > 0 /\ new.left <= 0 => Prefix(G, Window) <= AccountLimit - 1
  BY <1>0, <1>7
<1> QED BY <1>1, <1>4, <1>9, <1>10, <1>11 DEF Fits, B

\* A lease released without a verdict was no guess.
OneLess(H, G, left) ==
  H \in [Ages -> Int] /\ \A i \in Ages : H[i] = G[i] - (IF left = Window - i THEN 1 ELSE 0)

LEMMA ReleaseFits ==
  ASSUME ~Shared, NEW G, NEW f \in FailureEntries, NEW table \in LeaseTables, NEW id \in Leases, table[id] # None,
         NEW a, a = table[id].account, Fits(G, f, table, a), table[id].left > 0,
         NEW other, other = [table EXCEPT ![id] = None],
         NEW H, OneLess(H, G, table[id].left)
  PROVE  Fits(H, f, other, a)
<1>l. table[id].left \in 0 .. Window /\ Without(other, table, a, table[id].left)
  BY LeaseLeaves
<1> DEFINE A(m) == Cardinality(Above(table, a, m))
           B(m) == Cardinality(Above(other, a, m))
<1>0. /\ Window \in Nat \ {0} /\ AccountLimit \in Nat \ {0}
      /\ f.count \in Nat /\ f.left \in 0 .. Window
  BY LimitsPositive DEF FailureEntries
<1>1. G \in [Ages -> Int] /\ \A age \in Ages : G[age] >= Cardinality(Out(table, a, age))
  BY DEF Fits
<1>2. PICK k \in Ages : table[id].left = Window - k
  <2>1. table[id].left \in 1 .. Window
    BY <1>0, <1>l
  <2>2. Window - table[id].left \in Ages /\ table[id].left = Window - (Window - table[id].left)
    BY <1>0, <2>1 DEF Ages
  <2> QED BY <2>2
<1>3. /\ H \in [Ages -> Int] /\ H[k] = G[k] - 1 /\ G[k] \in Int
      /\ \A i \in Ages : i # k => H[i] = G[i]
  <2>1. \A i \in Ages : G[i] \in Int /\ (i = k <=> table[id].left = Window - i)
    BY <1>0, <1>1, <1>2 DEF Ages
  <2> QED BY <1>2, <2>1 DEF OneLess
<1>4. \A age \in Ages : H[age] >= Cardinality(Out(other, a, age))
  <2> TAKE age \in Ages
  <2>1. /\ Cardinality(Out(other, a, age))
              = Cardinality(Out(table, a, age)) - (IF table[id].left = Window - age THEN 1 ELSE 0)
        /\ Cardinality(Out(table, a, age)) \in Nat
    BY <1>l, OutAndAbove DEF Without
  <2>2. age = k <=> table[id].left = Window - age
    BY <1>0, <1>2 DEF Ages
  <2>3. G[age] \in Int /\ G[age] >= Cardinality(Out(table, a, age))
    BY <1>1
  <2> QED BY <1>3, <2>1, <2>2, <2>3
<1>5. \A n \in 0 .. Window : /\ Prefix(G, n) \in Int
                             /\ Prefix(H, n) = Prefix(G, n) - (IF table[id].left > Window - n THEN 1 ELSE 0)
  <2> TAKE n \in 0 .. Window
  <2>1. Prefix(G, n) \in Int /\ Prefix(H, n) = Prefix(G, n) + (IF k < n THEN H[k] - G[k] ELSE 0)
    BY <1>1, <1>2, <1>3, OneGuessChanges
  <2>2. k < n <=> table[id].left > Window - n
    BY <1>0, <1>2 DEF Ages
  <2>3. H[k] - G[k] = -1
    BY <1>3
  <2> QED BY <2>1, <2>2, <2>3
<1>6. \A m \in Nat : A(m) \in Nat /\ B(m) = A(m) - (IF table[id].left > m THEN 1 ELSE 0)
  BY <1>l, OutAndAbove DEF Without
<1>7. Prefix(G, Window) <= AccountLimit - 1 + (IF f.count > 0 /\ f.left > 0 THEN f.count ELSE 0) + A(0)
  BY DEF Fits
<1>8. f.count > 0 /\ f.left > 0 => Prefix(G, Window - f.left) <= f.count - 1 + A(f.left)
  BY DEF Fits
<1>9. f.count > 0 /\ f.left <= 0 => Prefix(G, Window) <= AccountLimit - 1
  BY DEF Fits
<1> HIDE DEF A, B
<1>10. Prefix(G, Window) \in Int /\ Prefix(H, Window) = Prefix(G, Window) - 1 /\ A(0) \in Nat /\ B(0) = A(0) - 1
  <2>1. Window \in 0 .. Window /\ table[id].left > Window - Window /\ table[id].left > 0 /\ 0 \in Nat
    BY <1>0, <1>2
  <2> QED BY <1>5, <1>6, <2>1
<1>11. Prefix(H, Window) <= AccountLimit - 1 + (IF f.count > 0 /\ f.left > 0 THEN f.count ELSE 0) + B(0)
  BY <1>0, <1>7, <1>10
<1>12. f.count > 0 /\ f.left > 0 => Prefix(H, Window - f.left) <= f.count - 1 + B(f.left)
  <2>1. Window - f.left \in 0 .. Window /\ Window - (Window - f.left) = f.left /\ f.left \in Nat
    BY <1>0
  <2>2. /\ Prefix(G, Window - f.left) \in Int
        /\ Prefix(H, Window - f.left) = Prefix(G, Window - f.left) - (IF table[id].left > f.left THEN 1 ELSE 0)
        /\ A(f.left) \in Nat /\ B(f.left) = A(f.left) - (IF table[id].left > f.left THEN 1 ELSE 0)
    BY <1>5, <1>6, <2>1
  <2> QED BY <1>0, <1>8, <2>2
<1>13. f.count > 0 /\ f.left <= 0 => Prefix(H, Window) <= AccountLimit - 1
  BY <1>0, <1>9, <1>10
<1> QED BY <1>3, <1>4, <1>11, <1>12, <1>13 DEF Fits, B

\* The leases of each age that are out add up to those that are out.
LEMMA CountsAddUp ==
  ASSUME ~Shared, NEW table \in LeaseTables, NEW a, NEW C, C = [age \in Ages |-> Cardinality(Out(table, a, age))],
         NEW k \in 0 .. Window
  PROVE  Prefix(C, k) = Cardinality(Above(table, a, Window - k))
<1> DEFINE K == {n \in Nat : n <= Window => Prefix(C, n) = Cardinality(Above(table, a, Window - n))}
<1>0. Window \in Nat \ {0} /\ \A l \in Leases : table[l] # None => table[l].left \in 0 .. Window
  BY LimitsPositive DEF LeaseTables
<1>1. \A i \in Ages : C[i] = Cardinality(Out(table, a, i)) /\ C[i] \in Int
  BY OutAndAbove
<1>2. 0 \in K
  <2>1. Above(table, a, Window - 0) = {}
    BY <1>0 DEF Above
  <2>2. Cardinality({}) = 0
    BY FS_EmptySet
  <2>3. Prefix(C, 0) = Cardinality(Above(table, a, Window - 0))
    BY <2>1, <2>2, PrefixOfNone
  <2> QED BY <2>3
<1>3. ASSUME NEW n \in Nat, n \in K PROVE n + 1 \in K
  <2>1. SUFFICES ASSUME n + 1 <= Window
                 PROVE  Prefix(C, n + 1) = Cardinality(Above(table, a, Window - (n + 1)))
    OBVIOUS
  <2> DEFINE A == Above(table, a, Window - n)
             B == Out(table, a, n)
  <2>2. A \cup B = Above(table, a, Window - (n + 1)) /\ A \cap B = {}
    BY <1>0, <2>1 DEF Above, Out
  <2>3. IsFiniteSet(A) /\ IsFiniteSet(B) /\ Cardinality(A) \in Nat /\ Cardinality(B) \in Nat
    BY OutAndAbove
  <2>4. Cardinality(A \cup B) = Cardinality(A) + Cardinality(B) - Cardinality(A \cap B)
    BY <2>3, FS_Union
  <2>5. Cardinality(A \cap B) = 0
    BY <2>2, FS_EmptySet
  <2>6. Prefix(C, n + 1) = Prefix(C, n) + C[n]
    <3>1. \A i \in 0 .. n : i \in Ages
      BY <1>0, <2>1 DEF Ages
    <3>2. \A i \in 0 .. n : C[i] \in Int
      BY <1>1, <3>1
    <3> QED BY <3>2, PrefixStep
  <2>7. Prefix(C, n) = Cardinality(A) /\ C[n] = Cardinality(B)
    <3>1. n \in Ages
      BY <1>0, <2>1 DEF Ages
    <3>2. n <= Window
      BY <1>0, <2>1
    <3> QED BY <1>1, <1>3, <3>1, <3>2
  <2> HIDE DEF A, B
  <2> QED BY <2>2, <2>3, <2>4, <2>5, <2>6, <2>7
<1>4. Nat \subseteq K
  <2> HIDE DEF K
  <2> QED BY <1>2, <1>3, NumbersByInduction
<1>5. k \in K
  BY <1>0, <1>4
<1> QED BY <1>0, <1>5

\* After a right answer the guesses under way are all there are.
LEMMA RightFits ==
  ASSUME ~Shared, NEW table \in LeaseTables, NEW a, NEW f, f.count = 0,
         NEW G, G = [age \in Ages |-> Cardinality(Out(table, a, age))]
  PROVE  Fits(G, f, table, a)
<1>1. Window \in Nat /\ AccountLimit \in Nat \ {0} /\ Window - Window = 0 /\ Window \in 0 .. Window
  BY LimitsPositive
<1>2. G \in [Ages -> Int] /\ \A age \in Ages : G[age] >= Cardinality(Out(table, a, age))
  BY OutAndAbove
<1>3. Prefix(G, Window) = Cardinality(Above(table, a, 0)) /\ Cardinality(Above(table, a, 0)) \in Nat
  <2>1. Prefix(G, Window) = Cardinality(Above(table, a, Window - Window))
    BY <1>1, CountsAddUp
  <2> QED BY <1>1, <2>1, OutAndAbove
<1>4. Prefix(G, Window) <= AccountLimit - 1 + 0 + Cardinality(Above(table, a, 0))
  BY <1>1, <1>3
<1> HIDE DEF Fits
<1>5. ~(f.count > 0)
  OBVIOUS
<1> QED BY <1>1, <1>2, <1>4, <1>5 DEF Fits

\* One lease more.
LEMMA OneMoreCounts ==
  ASSUME NEW S, IsFiniteSet(S), NEW x, x \notin S, NEW T, T = S \cup {x}
  PROVE  Cardinality(T) = Cardinality(S) + 1
<1>1. Cardinality(S \cup {x}) = Cardinality(S) + 1
  BY FS_AddElement
<1> QED BY <1>1

\* A new lease of an account, whose closed windows are dropped.
LEMMA GuessFits ==
  ASSUME ~Shared, NEW G, NEW f \in FailureEntries, NEW table \in LeaseTables, NEW id \in Leases, table[id] = None,
         NEW a, Fits(G, f, table, a), f.count > 0 => f.left > 0,
         NEW other \in LeaseTables, \A l \in Leases : l # id => other[l] = table[l],
         other[id] # None, other[id].account = a, other[id].left = Window,
         NEW H \in [Ages -> Int], H[0] = G[0] + 1, \A i \in Ages : i # 0 => H[i] = G[i]
  PROVE  Fits(H, f, other, a)
<1> DEFINE A(m) == Cardinality(Above(table, a, m))
           B(m) == Cardinality(Above(other, a, m))
<1>0. /\ Window \in Nat \ {0} /\ AccountLimit \in Nat \ {0} /\ 0 \in Ages
      /\ f.count \in Nat /\ f.left \in 0 .. Window
  BY LimitsPositive DEF FailureEntries, Ages
<1>1. G \in [Ages -> Int] /\ \A age \in Ages : G[age] >= Cardinality(Out(table, a, age))
  BY DEF Fits
<1>2. \A m \in Nat : A(m) \in Nat /\ B(m) = A(m) + (IF m < Window THEN 1 ELSE 0)
  <2> TAKE m \in Nat
  <2>1. IsFiniteSet(Above(table, a, m)) /\ A(m) \in Nat /\ id \notin Above(table, a, m)
    <3>1. id \notin Above(table, a, m)
      BY DEF Above
    <3> QED BY <3>1, OutAndAbove
  <2>2. CASE m < Window
    <3>1. Above(other, a, m) = Above(table, a, m) \cup {id}
      BY <1>0, <2>2 DEF Above
    <3>2. B(m) = A(m) + 1
      BY <2>1, <3>1, OneMoreCounts
    <3> QED BY <2>1, <2>2, <3>2
  <2>3. CASE ~(m < Window)
    <3>1. Above(other, a, m) = Above(table, a, m)
      BY <1>0, <2>3 DEF Above
    <3> QED BY <2>1, <2>3, <3>1
  <2> QED BY <2>2, <2>3
<1>3. \A age \in Ages : H[age] >= Cardinality(Out(other, a, age))
  <2> TAKE age \in Ages
  <2>1. IsFiniteSet(Out(table, a, age)) /\ Cardinality(Out(table, a, age)) \in Nat /\ id \notin Out(table, a, age)
    <3>1. id \notin Out(table, a, age)
      BY DEF Out
    <3> QED BY <3>1, OutAndAbove
  <2>2. G[age] \in Int /\ G[age] >= Cardinality(Out(table, a, age))
    BY <1>1
  <2>3. CASE age = 0
    <3>1. Out(other, a, age) = Out(table, a, age) \cup {id}
      BY <1>0, <2>3 DEF Out
    <3>2. Cardinality(Out(other, a, age)) = Cardinality(Out(table, a, age)) + 1
      BY <2>1, <3>1, OneMoreCounts
    <3> QED BY <2>1, <2>2, <2>3, <3>2
  <2>4. CASE age # 0
    <3>1. Out(other, a, age) = Out(table, a, age)
      BY <1>0, <2>4 DEF Out, Ages
    <3> QED BY <2>2, <2>4, <3>1
  <2> QED BY <2>3, <2>4
<1>4. \A n \in 0 .. Window : Prefix(G, n) \in Int /\ Prefix(H, n) = Prefix(G, n) + (IF 0 < n THEN 1 ELSE 0)
  <2> TAKE n \in 0 .. Window
  <2>1. Prefix(G, n) \in Int /\ Prefix(H, n) = Prefix(G, n) + (IF 0 < n THEN H[0] - G[0] ELSE 0)
    BY <1>0, <1>1, OneGuessChanges
  <2>2. H[0] - G[0] = 1
    BY <1>0, <1>1
  <2> QED BY <2>1, <2>2
<1>5. Prefix(G, Window) <= AccountLimit - 1 + (IF f.count > 0 /\ f.left > 0 THEN f.count ELSE 0) + A(0)
  BY DEF Fits
<1>6. f.count > 0 /\ f.left > 0 => Prefix(G, Window - f.left) <= f.count - 1 + A(f.left)
  BY DEF Fits
<1> HIDE DEF A, B
<1>7. Prefix(H, Window) <= AccountLimit - 1 + (IF f.count > 0 /\ f.left > 0 THEN f.count ELSE 0) + B(0)
  <2>1. Prefix(G, Window) \in Int /\ Prefix(H, Window) = Prefix(G, Window) + 1 /\ A(0) \in Nat /\ B(0) = A(0) + 1
    BY <1>0, <1>2, <1>4
  <2> QED BY <1>0, <1>5, <2>1
<1>8. f.count > 0 /\ f.left > 0 => Prefix(H, Window - f.left) <= f.count - 1 + B(f.left)
  <2>1. Window - f.left \in 0 .. Window /\ (0 < Window - f.left <=> f.left < Window)
    BY <1>0
  <2>2. /\ Prefix(G, Window - f.left) \in Int
        /\ Prefix(H, Window - f.left) = Prefix(G, Window - f.left) + (IF f.left < Window THEN 1 ELSE 0)
        /\ A(f.left) \in Nat /\ B(f.left) = A(f.left) + (IF f.left < Window THEN 1 ELSE 0)
    BY <1>0, <1>2, <1>4, <2>1
  <2> QED BY <1>0, <1>6, <2>2
<1>9. ~(f.count > 0 /\ f.left <= 0)
  BY <1>0
<1> QED BY <1>3, <1>7, <1>8, <1>9 DEF Fits, B

-----------------------------------------------------------------------------
GuessesFit == \A a \in Accounts : Fits(guesses[a], failures.account[a], attempts, a)
GInv == IInv /\ TrackedBound /\ guesses \in [Accounts -> [Ages -> Int]] /\ GuessesFit

\* One process reads fresh times, so that no time left is negative.
LEMMA OneProcessTypes ==
  ASSUME ~Shared, TypeOK
  PROVE  /\ MaxLag = 0 /\ attempts \in LeaseTables
         /\ \A a \in Accounts : failures.account[a] \in FailureEntries
         /\ \A r \in Requests : request[r].lag = 0
<1>1. MaxLag = 0 /\ -MaxLag .. Window = 0 .. Window
  BY OneProcessReadsFreshTime, LimitsPositive
<1>2. attempts \in LeaseTables
  <2>1. Attempts = [account : Accounts, source : Sources, left : 0 .. Window]
    BY <1>1 DEF Attempts
  <2> QED BY <2>1 DEF TypeOK, LeaseTables
<1>3. \A a \in Accounts : failures.account[a] \in FailureEntries
  BY <1>1 DEF TypeOK, Failures, FailureEntries
<1>4. \A r \in Requests : request[r].lag = 0
  BY <1>1 DEF TypeOK, LoginRequests
<1> QED BY <1>1, <1>2, <1>3, <1>4

\* The settlement of an account's failures, before the leases it drops are dropped.
LEMMA SettledFits ==
  ASSUME ~Shared, TypeOK, NEW a \in Accounts, NEW G, Fits(G, failures.account[a], attempts, a),
         NEW dropped, NEW new \in FailureEntries, new = Settled("account", 0, dropped)[a]
  PROVE  Fits(G, new, attempts, a) /\ (new.count > 0 => new.left > 0)
<1> DEFINE f == failures.account[a]
           due == Cardinality(Of(Expired(0), "account", a))
<1>1. f \in FailureEntries /\ MaxLag = 0 /\ Window \in Nat \ {0}
  BY OneProcessTypes, LimitsPositive
<1>2. due \in Nat
  <2>1. Expired(0) \in SUBSET Leases
    BY DEF Expired, Live
  <2> QED BY <2>1, OfFinite
<1>3. Open(f, 0) <=> f.count > 0 /\ f.left > 0
  BY <1>1 DEF Open, FailureEntries
<1>4. new = IF Open(f, 0) THEN [f EXCEPT !.count = @ + due]
            ELSE IF due > 0 /\ a \notin dropped THEN [count |-> due, left |-> Window - 0]
            ELSE NoFailure
  BY DEF Settled, Keys
<1> HIDE DEF f, due
<1>5. CASE Open(f, 0)
  <2>1. f.count > 0 /\ f.left > 0 /\ new.left = f.left /\ new.count >= f.count
    BY <1>1, <1>2, <1>3, <1>4, <1>5 DEF FailureEntries
  <2> QED BY <1>1, <2>1, EntryFits DEF f
<1>6. CASE ~Open(f, 0) /\ due > 0 /\ a \notin dropped
  <2>1. ~(f.count > 0 /\ f.left > 0) /\ new.count > 0 /\ new.left = Window /\ new.left > 0
    BY <1>1, <1>2, <1>3, <1>4, <1>6
  <2> QED BY <1>1, <2>1, EntryFits DEF f
<1>7. CASE ~Open(f, 0) /\ ~(due > 0 /\ a \notin dropped)
  <2>1. ~(f.count > 0 /\ f.left > 0) /\ new.count = 0
    BY <1>3, <1>4, <1>7 DEF NoFailure
  <2> QED BY <1>1, <2>1, EntryFits DEF f
<1> QED BY <1>5, <1>6, <1>7

\* beginLogin: settle, drop what is over, then refuse or give a lease.
LEMMA BeginLoginFits ==
  ASSUME ~Shared, GInv, IInv', NEW r \in Requests, BeginLogin(r), Guess(r)
  PROVE  guesses' \in [Accounts -> [Ages -> Int]] /\ GuessesFit'
<1> DEFINE q == request[r]
           live == Live \ Expired(0)
           rest == [l \in Leases |-> IF l \in live THEN attempts[l] ELSE None]
           new == [account |-> q.account, source |-> q.source, left |-> Window - 0]
<1>1. /\ TypeOK /\ TypeOK' /\ q.lag = 0 /\ MaxLag = 0 /\ q.account \in Accounts /\ q.source \in Sources
      /\ attempts \in LeaseTables /\ attempts' \in LeaseTables
      /\ \A a \in Accounts : failures.account[a] \in FailureEntries /\ failures'.account[a] \in FailureEntries
  <2>1. TypeOK /\ TypeOK'
    BY DEF GInv, IInv
  <2>2. TypeOK' => attempts' \in LeaseTables /\ \A a \in Accounts : failures'.account[a] \in FailureEntries
    <3>1. MaxLag = 0 /\ -MaxLag .. Window = 0 .. Window
      BY OneProcessReadsFreshTime, LimitsPositive
    <3>2. Attempts = [account : Accounts, source : Sources, left : 0 .. Window]
      BY <3>1 DEF Attempts
    <3> QED BY <3>1, <3>2 DEF TypeOK, Failures, FailureEntries, LeaseTables
  <2>3. q.account \in Accounts /\ q.source \in Sources
    BY <2>1 DEF TypeOK, BeginLogin, HoldsItsPart
  <2> QED BY <2>1, <2>2, <2>3, OneProcessTypes
<1>2. rest \in LeaseTables
  BY <1>1 DEF LeaseTables
<1>3. ASSUME NEW a \in Accounts
      PROVE  /\ Fits(guesses[a], failures'.account[a], rest, a)
             /\ failures'.account[a].count > 0 => failures'.account[a].left > 0
  <2>1. PICK da, ds : failures' = [account |-> Settled("account", q.lag, da), source |-> Settled("source", q.lag, ds)]
    BY DEF BeginLogin
  <2>2. failures'.account[a] = Settled("account", 0, da)[a] /\ failures'.account[a] \in FailureEntries
    BY <1>1, <2>1
  <2>3. /\ Fits(guesses[a], failures'.account[a], attempts, a)
        /\ failures'.account[a].count > 0 => failures'.account[a].left > 0
    BY <1>1, <2>2, SettledFits DEF GInv, GuessesFit
  <2>4. \A l \in Leases : attempts[l] # None => (l \in live <=> attempts[l].left > 0)
    BY <1>1 DEF LeaseTables, Live, Expired
  <2> HIDE DEF live
  <2>5. \A m \in Nat : Above(rest, a, m) = Above(attempts, a, m)
    <3>1. \A m \in Nat : \A l \in Leases : (attempts[l] # None /\ attempts[l].left > m) => l \in live
      BY <1>1, <2>4 DEF LeaseTables
    <3>2. \A l \in Leases : (rest[l] # None => rest[l] = attempts[l]) /\ (l \in live => rest[l] = attempts[l])
      OBVIOUS
    <3> HIDE DEF rest
    <3> QED BY <3>1, <3>2 DEF Above
  <2>6. \A age \in Ages : Out(rest, a, age) = Out(attempts, a, age)
    <3>1. \A age \in Ages : Window - age > 0
      BY LimitsPositive DEF Ages
    <3>2. \A age \in Ages : \A l \in Leases : (attempts[l] # None /\ attempts[l].left = Window - age) => l \in live
      BY <2>4, <3>1
    <3>3. \A l \in Leases : (rest[l] # None => rest[l] = attempts[l]) /\ (l \in live => rest[l] = attempts[l])
      OBVIOUS
    <3> HIDE DEF rest
    <3> QED BY <3>2, <3>3 DEF Out
  <2> HIDE DEF rest
  <2> QED BY <2>2, <2>3, <2>5, <2>6, SameLeases
<1>4. CASE attempts' = rest /\ request' = [request EXCEPT ![r] = Idle]
  <2>1. request'[r].phase = "idle"
    BY <1>1, <1>4 DEF TypeOK, Idle
  <2>2. guesses' = guesses
    BY <2>1 DEF Guess
  <2> HIDE DEF rest
  <2> QED BY <1>3, <1>4, <2>2 DEF GInv, GuessesFit
<1>5. ASSUME NEW id \in Leases, id \notin Live,
             attempts' = [x \in Leases |-> IF x = id THEN new ELSE IF x \in live THEN attempts[x] ELSE None],
             request'[r].phase = "verify"
      PROVE  guesses' \in [Accounts -> [Ages -> Int]] /\ GuessesFit'
  <2>1. /\ rest[id] = None /\ attempts'[id] = new /\ \A l \in Leases : l # id => attempts'[l] = rest[l]
    <3>1. id \notin live
      BY <1>5
    <3> HIDE DEF live, new
    <3> QED BY <1>5, <3>1
  <2>2. guesses \in [Accounts -> [Ages -> Int]] /\ 0 \in Ages
    BY LimitsPositive DEF GInv, Ages
  <2>3. guesses' = [guesses EXCEPT ![q.account][0] = @ + 1]
    BY <1>5 DEF Guess
  <2>4. /\ guesses' \in [Accounts -> [Ages -> Int]]
        /\ \A a \in Accounts : a # q.account => guesses'[a] = guesses[a]
        /\ guesses'[q.account][0] = guesses[q.account][0] + 1
        /\ \A i \in Ages : i # 0 => guesses'[q.account][i] = guesses[q.account][i]
    <3> DEFINE H == [guesses[q.account] EXCEPT ![0] = @ + 1]
    <3>1. guesses[q.account] \in [Ages -> Int] /\ guesses[q.account][0] \in Int
      BY <1>1, <2>2
    <3>2. /\ H \in [Ages -> Int] /\ H[0] = guesses[q.account][0] + 1
          /\ \A i \in Ages : i # 0 => H[i] = guesses[q.account][i]
      BY <2>2, <3>1
    <3>3. guesses' = [guesses EXCEPT ![q.account] = H]
      BY <2>3
    <3> HIDE DEF H, q
    <3>4. guesses'[q.account] = H /\ \A a \in Accounts : a # q.account => guesses'[a] = guesses[a]
      BY <1>1, <2>2, <3>3
    <3>5. guesses' \in [Accounts -> [Ages -> Int]]
      BY <1>1, <2>2, <3>2, <3>3
    <3> QED BY <3>2, <3>4, <3>5
  <2>5. ASSUME NEW a \in Accounts PROVE Fits(guesses'[a], failures'.account[a], attempts', a)
    <3>1. CASE a = q.account
      <4>1. /\ failures'.account[a] \in FailureEntries /\ guesses'[a] \in [Ages -> Int]
            /\ Fits(guesses[a], failures'.account[a], rest, a)
            /\ failures'.account[a].count > 0 => failures'.account[a].left > 0
        BY <1>1, <1>3, <2>4
      <4>2. attempts'[id] # None /\ attempts'[id].account = a /\ attempts'[id].left = Window
        <5>1. new \in [account : Accounts, source : Sources, left : 0 .. Window]
          BY <1>1, LimitsPositive
        <5>2. new # None
          BY <5>1, NoneIsNoLease
        <5> QED BY <2>1, <3>1, <5>2, LimitsPositive
      <4>3. guesses'[a][0] = guesses[a][0] + 1 /\ \A i \in Ages : i # 0 => guesses'[a][i] = guesses[a][i]
        BY <2>4, <3>1
      <4> HIDE DEF rest, q, new
      <4> QED BY <1>1, <1>2, <2>1, <4>1, <4>2, <4>3, GuessFits
    <3>2. CASE a # q.account
      <4>1. \A l \in Leases : l # id => attempts'[l] = rest[l]
        BY <2>1
      <4>2. rest[id] = None /\ attempts'[id].account # a
        BY <2>1, <3>2
      <4> HIDE DEF rest, q, new
      <4>3. \A m : Above(attempts', a, m) = Above(rest, a, m) /\ Out(attempts', a, m) = Out(rest, a, m)
        BY <4>1, <4>2 DEF Above, Out
      <4>4. guesses'[a] = guesses[a] /\ failures'.account[a] \in FailureEntries
        BY <1>1, <2>4, <3>2
      <4>5. Fits(guesses[a], failures'.account[a], rest, a)
        BY <1>3
      <4>6. Fits(guesses[a], failures'.account[a], attempts', a)
        BY <4>3, <4>4, <4>5, SameLeases
      <4> QED BY <4>4, <4>6
    <3> QED BY <3>1, <3>2
  <2> QED BY <2>4, <2>5 DEF GuessesFit
<1>6. \/ attempts' = rest /\ request' = [request EXCEPT ![r] = Idle]
      \/ \E id \in Leases : /\ id \notin Live
                            /\ attempts' = [x \in Leases |-> IF x = id THEN new ELSE IF x \in live THEN attempts[x] ELSE None]
                            /\ request'[r].phase = "verify"
  BY <1>1 DEF BeginLogin, TypeOK
<1> HIDE DEF rest, new, live
<1> QED BY <1>4, <1>5, <1>6

\* A failure finds no room only beside a closed entry of its own account, since
\* the account of a lease is among those that are tracked.
LEMMA NoRoomHasEntry ==
  ASSUME ~Shared, TypeOK, TrackedBound, NEW id \in Leases, attempts[id] # None,
         NEW a, a = attempts[id].account, ~Room(failures.account)
  PROVE  failures.account[a].count > 0
<1> DEFINE E == Entries(failures.account)
           T == KeysTracked("account")
<1>1. SUFFICES ASSUME ~(failures.account[a].count > 0) PROVE FALSE
  OBVIOUS
<1>2. a \in T /\ a \notin E /\ E \in SUBSET T
  <2>1. a \in T
    BY DEF KeysTracked, Tracked, Live
  <2>2. a \notin E
    BY <1>1 DEF Entries
  <2> QED BY <2>1, <2>2 DEF KeysTracked, Tracked
<1>3. IsFiniteSet(T) /\ Cardinality(T) <= MaxTracked
  <2>1. "account" \in Scopes
    BY DEF Scopes
  <2> HIDE DEF T
  <2>2. T \in SUBSET T
    OBVIOUS
  <2> QED BY <2>1, <2>2, NoOtherKey DEF T
<1> HIDE DEF E, T
<1>4. /\ IsFiniteSet(E) /\ IsFiniteSet(E \cup {a}) /\ Cardinality(E \cup {a}) = Cardinality(E) + 1
      /\ Cardinality(E) \in Nat
  <2>1. IsFiniteSet(E)
    BY <1>2, <1>3, FS_Subset
  <2> QED BY <1>2, <2>1, FS_AddElement, FS_CardinalityType
<1>5. Cardinality(E \cup {a}) <= Cardinality(T) /\ Cardinality(T) \in Nat
  <2>1. E \cup {a} \in SUBSET T
    BY <1>2
  <2> QED BY <1>3, <2>1, FS_Subset, FS_CardinalityType
<1>6. ~(Cardinality(E) < MaxTracked)
  BY DEF Room, E
<1> QED BY <1>3, <1>4, <1>5, <1>6, LimitsPositive

\* finishLogin ends a lease: in a failure, in a right answer, or in neither.
LEMMA FinishLoginFits ==
  ASSUME ~Shared, GInv, IInv', NEW r \in Requests, FinishLogin(r), Judge(r)
  PROVE  guesses' \in [Accounts -> [Ages -> Int]] /\ GuessesFit'
<1>1. PICK id, lease, outcome : id = request[r].lease /\ lease = attempts[id] /\ outcome = request[r].outcome
  OBVIOUS
<1>2. /\ TypeOK /\ TypeOK' /\ request[r].lag = 0 /\ id \in Leases /\ outcome \in {"right", "wrong", "none"}
      /\ attempts \in LeaseTables /\ guesses \in [Accounts -> [Ages -> Int]]
      /\ failures.account \in Failures(Accounts)
      /\ \A a \in Accounts : failures.account[a] \in FailureEntries
  <2>1. TypeOK /\ TypeOK'
    BY DEF GInv, IInv
  <2>2. id \in Leases /\ outcome \in {"right", "wrong", "none"}
    BY <1>1, <2>1 DEF TypeOK, FinishLogin, HoldsItsPart, LoginRequests
  <2>3. failures.account \in Failures(Accounts)
    BY <2>1 DEF TypeOK
  <2> QED BY <2>1, <2>2, <2>3, OneProcessTypes DEF GInv
<1>3. CASE lease = None
  <2>1. failures' = failures /\ attempts' = attempts /\ guesses' = guesses
    BY <1>1, <1>3 DEF FinishLogin, Judge
  <2> QED BY <2>1 DEF GInv, GuessesFit
<1>4. CASE lease # None
  <2>1. /\ attempts' = [attempts EXCEPT ![id] = None]
        /\ IF lease.left <= 0 \/ outcome = "wrong"
           THEN failures'.account = Charge(failures.account, lease.account, 0)
           ELSE IF outcome = "right" THEN failures'.account = [failures.account EXCEPT ![lease.account] = NoFailure]
           ELSE failures' = failures
    <3>1. lease.left \in Int
      BY <1>1, <1>2, <1>4 DEF LeaseTables
    <3>2. lease.left + 0 <= 0 <=> lease.left <= 0
      BY <3>1
    <3>3. failures = [account |-> failures.account, source |-> failures.source]
      BY <1>2 DEF TypeOK
    <3> QED BY <1>1, <1>2, <1>4, <3>2, <3>3 DEF FinishLogin
  <2>2. PICK a : a = lease.account
    OBVIOUS
  <2>3. lease.account \in Accounts /\ lease.left \in 0 .. Window
    BY <1>1, <1>2, <1>4 DEF LeaseTables
  <2>4. PICK f \in FailureEntries : f = failures.account[a]
    BY <1>2, <2>2, <2>3
  <2>5. ASSUME NEW new \in FailureEntries, NEW G \in [Ages -> Int], Fits(G, new, attempts', a),
               failures'.account = [failures.account EXCEPT ![a] = new],
               guesses' = [guesses EXCEPT ![a] = G]
        PROVE  guesses' \in [Accounts -> [Ages -> Int]] /\ GuessesFit'
    <3>1. guesses' \in [Accounts -> [Ages -> Int]]
      BY <1>2, <2>5
    <3>2. ASSUME NEW b \in Accounts PROVE Fits(guesses'[b], failures'.account[b], attempts', b)
      <4>1. CASE b = a
        <5>1. guesses'[b] = G /\ failures'.account[b] = new
          BY <1>2, <2>2, <2>3, <2>5, <4>1 DEF Failures
        <5> QED BY <2>5, <4>1, <5>1
      <4>2. CASE b # a
        <5>1. guesses'[b] = guesses[b] /\ failures'.account[b] = failures.account[b]
          BY <1>2, <2>5, <4>2 DEF Failures
        <5>2. \A m : Above(attempts', b, m) = Above(attempts, b, m) /\ Out(attempts', b, m) = Out(attempts, b, m)
          <6>1. attempts[id].account # b /\ attempts'[id] = None /\ \A l \in Leases \ {id} : attempts'[l] = attempts[l]
            BY <1>1, <1>2, <2>1, <2>2, <4>2 DEF LeaseTables
          <6> QED BY <6>1 DEF Above, Out
        <5>3. Fits(guesses[b], failures.account[b], attempts, b) /\ failures.account[b] \in FailureEntries
          BY <1>2 DEF GInv, GuessesFit
        <5>4. Fits(guesses[b], failures.account[b], attempts', b)
          BY <5>2, <5>3, SameLeases
        <5> QED BY <5>1, <5>4
      <4> QED BY <4>1, <4>2
    <3> QED BY <3>1, <3>2 DEF GuessesFit
  <2>6. PICK G \in [Ages -> Int] : G = guesses[a]
    BY <1>2, <2>2, <2>3
  <2>7. Fits(G, f, attempts, a) /\ a \in Accounts /\ guesses = [guesses EXCEPT ![a] = G]
    BY <1>2, <2>2, <2>3, <2>4, <2>6 DEF GInv, GuessesFit
  <2>8. CASE lease.left <= 0 \/ outcome = "wrong"
    <3>1. guesses' = [guesses EXCEPT ![a] = G]
      BY <1>1, <2>7, <2>8 DEF Judge
    <3>2. failures'.account = Charge(failures.account, a, 0)
      BY <2>1, <2>2, <2>8
    <3>3. Open(f, 0) <=> f.count > 0 /\ f.left > 0
      BY <2>4 DEF Open, FailureEntries
    <3>4. PICK new : /\ failures'.account = [failures.account EXCEPT ![a] = new]
                     /\ new = IF Open(f, 0) THEN [f EXCEPT !.count = @ + 1]
                              ELSE IF Room(failures.account) THEN [count |-> 1, left |-> Window - 0]
                              ELSE f
      <4>1. failures.account = [failures.account EXCEPT ![a] = f]
        BY <1>2, <2>4, <2>7 DEF Failures
      <4>2. [failures.account EXCEPT ![a].count = @ + 1] = [failures.account EXCEPT ![a] = [f EXCEPT !.count = @ + 1]]
        BY <2>4
      <4> QED BY <2>4, <3>2, <4>1, <4>2 DEF Charge
    <3>5. new \in FailureEntries
      BY <2>4, <3>4, LimitsPositive DEF FailureEntries
    <3>6. \/ f.count > 0 /\ f.left > 0 /\ new.left = f.left /\ new.count = f.count + 1
          \/ ~(f.count > 0 /\ f.left > 0) /\ new.count = 1 /\ new.left = Window
          \/ f.count > 0 /\ f.left <= 0 /\ new = f
      <4>1. CASE Open(f, 0)
        BY <2>4, <3>3, <3>4, <4>1 DEF FailureEntries
      <4>2. CASE ~Open(f, 0) /\ Room(failures.account)
        BY <3>3, <3>4, <4>2, LimitsPositive
      <4>3. CASE ~Open(f, 0) /\ ~Room(failures.account)
        <5>1. f.count > 0
          BY <1>1, <1>2, <1>4, <2>2, <2>4, <4>3, NoRoomHasEntry DEF GInv
        <5> QED BY <2>4, <3>3, <3>4, <4>3, <5>1 DEF FailureEntries
      <4> QED BY <4>1, <4>2, <4>3
    <3>7. Fits(G, new, attempts', a)
      BY <1>1, <1>2, <1>4, <2>1, <2>2, <2>7, <3>5, <3>6, FailureFits
    <3> QED BY <2>5, <3>1, <3>4, <3>5, <3>7
  <2>9. CASE ~(lease.left <= 0 \/ outcome = "wrong") /\ outcome = "right"
    <3>1. PICK H : H = [age \in Ages |-> Cardinality(Out(attempts', a, age))]
      OBVIOUS
    <3>2. H \in [Ages -> Int]
      BY <3>1, OutAndAbove
    <3>3. guesses' = [guesses EXCEPT ![a] = H]
      BY <1>1, <1>4, <2>2, <2>9, <3>1 DEF Judge
    <3>4. NoFailure.count = 0 /\ NoFailure \in FailureEntries
      BY OneProcessReadsFreshTime, LimitsPositive DEF NoFailure, FailureEntries
    <3>5. attempts' \in LeaseTables
      BY <1>2, <2>1 DEF LeaseTables
    <3>6. Fits(H, NoFailure, attempts', a)
      BY <3>1, <3>4, <3>5, RightFits
    <3>7. failures'.account = [failures.account EXCEPT ![a] = NoFailure]
      BY <2>1, <2>2, <2>9
    <3> QED BY <2>5, <3>2, <3>3, <3>4, <3>6, <3>7
  <2>10. CASE ~(lease.left <= 0 \/ outcome = "wrong") /\ outcome # "right"
    <3>1. PICK k : k = Window - lease.left
      OBVIOUS
    <3>2. k \in Ages /\ lease.left > 0
      BY <2>3, <2>10, <3>1, LimitsPositive DEF Ages
    <3>3. PICK H : H = [G EXCEPT ![k] = @ - 1]
      OBVIOUS
    <3>4. H \in [Ages -> Int] /\ H[k] = G[k] - 1 /\ \A i \in Ages : i # k => H[i] = G[i]
      BY <2>6, <3>2, <3>3
    <3>5. guesses' = [guesses EXCEPT ![a] = H]
      <4>1. guesses' = [guesses EXCEPT ![a][k] = @ - 1]
        BY <1>1, <1>4, <2>2, <2>10, <3>1 DEF Judge
      <4> QED BY <2>6, <3>3, <4>1
    <3>6. failures' = failures
      BY <2>1, <2>10
    <3>7. failures'.account = [failures.account EXCEPT ![a] = f]
      BY <1>2, <2>4, <2>7, <3>6 DEF Failures
    <3>8. Fits(H, f, attempts', a)
      <4>1. /\ attempts[id] # None /\ a = attempts[id].account /\ attempts[id].left > 0
            /\ attempts' = [attempts EXCEPT ![id] = None]
        BY <1>1, <1>4, <2>1, <2>2, <3>2
      <4>2. OneLess(H, G, attempts[id].left)
        <5>1. attempts[id].left = lease.left
          BY <1>1
        <5>2. \A i \in Ages : i = k <=> lease.left = Window - i
          BY <2>3, <3>1, <3>2, LimitsPositive DEF Ages
        <5> QED BY <2>6, <3>4, <5>1, <5>2 DEF OneLess
      <4> QED BY <1>2, <2>7, <4>1, <4>2, ReleaseFits
    <3> QED BY <2>4, <2>5, <3>4, <3>5, <3>7, <3>8
  <2> QED BY <2>8, <2>9, <2>10
<1> QED BY <1>3, <1>4

\* Time makes every guess older.
LEMMA TickKeepsFit ==
  ASSUME ~Shared, GInv, Tick,
         guesses' = [a \in Accounts |-> [g \in Ages |-> IF g = 0 THEN 0 ELSE guesses[a][g - 1]]]
  PROVE  guesses' \in [Accounts -> [Ages -> Int]] /\ GuessesFit'
<1>1. /\ TypeOK /\ attempts \in LeaseTables /\ guesses \in [Accounts -> [Ages -> Int]]
      /\ \A a \in Accounts : failures.account[a] \in FailureEntries
  BY OneProcessTypes DEF GInv, IInv
<1>2. guesses' \in [Accounts -> [Ages -> Int]]
  <2>1. \A g \in Ages : g # 0 => g - 1 \in Ages
    BY LimitsPositive DEF Ages
  <2> QED BY <1>1, <2>1
<1>3. ASSUME NEW a \in Accounts PROVE Fits(guesses'[a], failures'.account[a], attempts', a)
  <2>1. /\ guesses'[a] = [g \in Ages |-> IF g = 0 THEN 0 ELSE guesses[a][g - 1]]
        /\ failures'.account[a] = Older(failures.account[a])
        /\ attempts' = [l \in Leases |-> IF attempts[l] = None THEN None ELSE Older(attempts[l])]
    BY DEF Tick
  <2>2. failures.account[a].count + Cardinality(Above(attempts, a, 0)) <= AccountLimit
    <3>1. Load("account", a) <= AccountLimit
      BY DEF GInv, IInv, AdmissionBound
    <3>2. Above(attempts, a, 0) \in SUBSET Of(Live, "account", a)
      BY DEF Above, Of, Live
    <3>3. Live \in SUBSET Leases
      BY DEF Live
    <3>4. IsFiniteSet(Of(Live, "account", a)) /\ Cardinality(Of(Live, "account", a)) \in Nat
      BY <3>3, OfFinite
    <3>5. Cardinality(Above(attempts, a, 0)) <= Cardinality(Of(Live, "account", a))
      BY <3>2, <3>4, FS_Subset
    <3>6. failures.account[a].count \in Nat /\ Cardinality(Above(attempts, a, 0)) \in Nat
      BY <1>1, OutAndAbove DEF FailureEntries
    <3> QED BY <3>1, <3>4, <3>5, <3>6, LimitsPositive DEF Load
  <2>3. Fits(guesses[a], failures.account[a], attempts, a) /\ failures.account[a] \in FailureEntries
    BY <1>1 DEF GInv, GuessesFit
  <2>4. Fits([g \in Ages |-> IF g = 0 THEN 0 ELSE guesses[a][g - 1]], Older(failures.account[a]), attempts', a)
    BY <1>1, <2>1, <2>2, <2>3, TickFits
  <2> QED BY <2>1, <2>4
<1> QED BY <1>2, <1>3 DEF GuessesFit

\* No guess, no failure and no lease.
LEMMA NothingFits ==
  ASSUME NEW f, f.count = 0, NEW table, \A l \in Leases : table[l] = None, NEW a
  PROVE  Fits(NoGuess, f, table, a)
<1>1. \A m : Above(table, a, m) = {} /\ Out(table, a, m) = {}
  BY DEF Above, Out
<1>2. Cardinality({}) = 0
  BY FS_EmptySet
<1>3. NoGuess \in [Ages -> Int] /\ \A i \in Ages : NoGuess[i] = 0
  BY DEF NoGuess
<1>4. Window \in Nat /\ AccountLimit \in Nat \ {0} /\ IsFiniteSet(0 .. Window - 1) /\ Ages = 0 .. Window - 1
  BY LimitsPositive, FS_Interval DEF Ages
<1>5. Prefix(NoGuess, Window) = 0
  BY <1>3, <1>4, SumOfZeros DEF Prefix
<1>6. \A age \in Ages : NoGuess[age] >= Cardinality(Out(table, a, age))
  BY <1>1, <1>2, <1>3
<1>7. Prefix(NoGuess, Window) <= AccountLimit - 1 + 0 + Cardinality(Above(table, a, 0))
  <2>1. Cardinality(Above(table, a, 0)) = 0
    BY <1>1, <1>2
  <2> QED BY <1>4, <1>5, <2>1
<1>8. ~(f.count > 0)
  OBVIOUS
<1> QED BY <1>3, <1>6, <1>7, <1>8 DEF Fits

LEMMA GuessInit ==
  ASSUME GInit
  PROVE  GInv
<1>1. IInv
  BY InvariantInit DEF GInit
<1>2. TrackedBound
  BY TrackedInit DEF GInit
<1>3. guesses \in [Accounts -> [Ages -> Int]]
  BY DEF GInit, NoGuess
<1>4. GuessesFit
  <2>1. \A a \in Accounts : failures.account[a].count = 0 /\ guesses[a] = NoGuess
    BY DEF GInit, Init, NoFailure
  <2>2. \A l \in Leases : attempts[l] = None
    BY DEF GInit, Init
  <2> QED BY <2>1, <2>2, NothingFits DEF GuessesFit
<1> QED BY <1>1, <1>2, <1>3, <1>4 DEF GInv

LEMMA GuessStep ==
  ASSUME ~Shared, GInv, [GNext]_gvars
  PROVE  GInv'
<1>1. [Next]_vars
  BY DEF GNext, Next, gvars, vars
<1>2. IInv' /\ TrackedBound'
  BY <1>1, InvariantStep, TrackedStep DEF GInv
<1>3. guesses' \in [Accounts -> [Ages -> Int]] /\ GuessesFit'
  <2>1. CASE UNCHANGED <<failures, attempts, guesses>>
    BY <2>1 DEF GInv, GuessesFit
  <2>2. ASSUME NEW r \in Requests, BeginLogin(r), Guess(r)
        PROVE  guesses' \in [Accounts -> [Ages -> Int]] /\ GuessesFit'
    BY <1>2, <2>2, BeginLoginFits
  <2>3. ASSUME NEW r \in Requests, FinishLogin(r), Judge(r)
        PROVE  guesses' \in [Accounts -> [Ages -> Int]] /\ GuessesFit'
    BY <1>2, <2>3, FinishLoginFits
  <2>4. ASSUME NEW r \in Requests, Die(r), guesses' = [a \in Accounts |-> NoGuess]
        PROVE  guesses' \in [Accounts -> [Ages -> Int]] /\ GuessesFit'
    <3>1. guesses' \in [Accounts -> [Ages -> Int]] /\ \A a \in Accounts : guesses'[a] = NoGuess
      BY <2>4 DEF NoGuess
    <3>2. \A a \in Accounts : failures'.account[a].count = 0
      BY <2>4 DEF Die, Forgotten, NoFailure
    <3>3. \A l \in Leases : attempts'[l] = None
      BY <2>4 DEF Die, Forgotten
    <3> QED BY <3>1, <3>2, <3>3, NothingFits DEF GuessesFit
  <2>5. CASE Tick /\ guesses' = [a \in Accounts |-> [g \in Ages |-> IF g = 0 THEN 0 ELSE guesses[a][g - 1]]]
    BY <2>5, TickKeepsFit
  <2>6. CASE \E r \in Requests : \/ \E a \in Accounts, s \in Sources : Arrive(r, a, s) /\ UNCHANGED guesses
                               \/ \E o \in {"right", "wrong", "none"} : Verify(r, o) /\ UNCHANGED guesses
    BY <2>6, <2>1 DEF Arrive, Verify
  <2> QED BY <2>1, <2>2, <2>3, <2>4, <2>5, <2>6 DEF GNext, gvars
<1> QED BY <1>2, <1>3 DEF GInv

\* The failures and the leases of an account bound what was guessed at it.
LEMMA FitsBound ==
  ASSUME ~Shared, GInv
  PROVE  GuessesAreBounded
<1>1. ASSUME NEW a \in Accounts PROVE SumFunctionOnSet(guesses[a], Ages) <= 2 * AccountLimit - 1
  <2> DEFINE f == failures.account[a]
             G == guesses[a]
  <2>1. Ages = 0 .. Window - 1 /\ Prefix(G, Window) = SumFunctionOnSet(G, Ages)
    BY DEF Ages, Prefix
  <2>2. Prefix(G, Window) <= AccountLimit - 1 + (IF f.count > 0 /\ f.left > 0 THEN f.count ELSE 0)
                               + Cardinality(Above(attempts, a, 0))
    BY DEF GInv, GuessesFit, Fits
  <2>3. f.count + Cardinality(Above(attempts, a, 0)) <= AccountLimit /\ f.count \in Nat
        /\ Cardinality(Above(attempts, a, 0)) \in Nat
    <3>1. Load("account", a) <= AccountLimit
      BY DEF GInv, IInv, AdmissionBound
    <3>2. Above(attempts, a, 0) \in SUBSET Of(Live, "account", a)
      BY DEF Above, Of, Live
    <3>3. Live \in SUBSET Leases
      BY DEF Live
    <3>4. IsFiniteSet(Of(Live, "account", a)) /\ Cardinality(Of(Live, "account", a)) \in Nat
      BY <3>3, OfFinite
    <3>5. Cardinality(Above(attempts, a, 0)) <= Cardinality(Of(Live, "account", a))
      BY <3>2, <3>4, FS_Subset
    <3>6. failures.account[a].count \in Nat /\ Cardinality(Above(attempts, a, 0)) \in Nat
      BY OneProcessTypes, OutAndAbove DEF FailureEntries, GInv, IInv
    <3> QED BY <3>1, <3>4, <3>5, <3>6, LimitsPositive DEF Load
  <2>4. Prefix(G, Window) \in Int
    <3>1. G \in [Ages -> Int] /\ Window \in 0 .. Window
      BY LimitsPositive DEF GInv
    <3> QED BY <3>1, GuessSums
  <2> HIDE DEF f, G
  <2>5. Prefix(G, Window) <= 2 * AccountLimit - 1
    BY <2>2, <2>3, <2>4, LimitsPositive
  <2> QED BY <2>1, <2>5 DEF G
<1> QED BY <1>1 DEF GuessesAreBounded, GuessBound, GInv

\* No stretch of Window ticks sees 2 * AccountLimit guesses at an account, over the end
\* of one failure window and the start of the next, and no more keys are tracked than
\* the table has room for.
THEOREM GuessesStayBounded ==
  ASSUME OneProcess
  PROVE  GSpec => []GuessesAreBounded
<1>1. GInit => GInv
  BY GuessInit
<1>2. GInv /\ [GNext]_gvars => GInv'
  BY GuessStep DEF OneProcess
<1>3. GInv => GuessesAreBounded
  BY FitsBound DEF OneProcess
<1> QED BY <1>1, <1>2, <1>3, PTL DEF GSpec
=============================================================================
