------------------------------ MODULE LtiLaunch ------------------------------
(***************************************************************************)
(* LTI launches of the lab: a login or a record's own launch registers a   *)
(* state with a nonce, the platform signs a token, and a POST consumes the *)
(* state and verifies the token against what was registered; service       *)
(* tokens authorise scores (routes-lti.ts, packages/lti, and the two       *)
(* adapters of packages/runtime-state).                                    *)
(*                                                                         *)
(* Shared = TRUE is the PostgreSQL adapter: the clock of a call is read    *)
(* before its transaction, at most MaxLag ticks, and states and the        *)
(* configured secret survive a restart.  A state and the nonce registered  *)
(* with it are random UUIDs made together: the state stands for both.      *)
(* `registered`, `taken`, `accepted` and `scored` are history.             *)
(***************************************************************************)
EXTENDS Integers, Sequences, FiniteSets

CONSTANTS States,      \* OIDC states, numbered in the order in which they are drawn
          Posts,       \* POSTs of launches and scores that run at once
          Issuers,     \* platform issuers that a login may name
          Clients,     \* client ids that a login may name
          Expected,    \* [issuer, client]: the registration of the tool
          Algorithm,   \* "RS256" with lab keys, otherwise "HS256"
          Ttl,         \* DEFAULT_LTI_TTL_MS, in ticks
          MaxPending,  \* DEFAULT_MAX_PENDING_LTI
          TokenLife,   \* life of a token, and
          Tolerance,   \* tolerance of its verification, in ticks
          MaxLag, MaxTime, MaxRestarts, MaxTokens,
          Shared

NoNonce == 0

LtiBounds ==
  /\ States \subseteq Nat \ {NoNonce}
  /\ Ttl \in Nat \ {0} /\ MaxPending \in Nat \ {0} /\ MaxLag \in Nat
  /\ TokenLife \in Nat /\ Tolerance \in Nat
  /\ Shared \in BOOLEAN /\ (~Shared => MaxLag = 0)

VARIABLES now,
          flow,        \* per state: where its registration is
          pending,     \* the registered launches, by state
          tokens,      \* every token that was signed
          restarts,    \* generation of a secret that is made at the start
          post,        \* per POST: where its handler is
          registered,  \* states in the order of their registration
          taken,       \* states that were consumed, or lost by a restart
          accepted,    \* launches that were answered with 200
          scored       \* tokens that scores were accepted with

vars == <<now, flow, pending, tokens, restarts, post, registered, taken, accepted, scored>>

Idle == [pc |-> "idle"]

\* A random state is none of those drawn before.
Drawn(s) == flow[s] # Idle
Fresh(s) == ~Drawn(s) /\ \A t \in States : t < s => Drawn(t)

Init ==
  /\ now = 0
  /\ flow = [s \in States |-> Idle]
  /\ pending = [s \in {} |-> Idle]
  /\ tokens = {}
  /\ restarts = 0
  /\ post = [p \in Posts |-> Idle]
  /\ registered = <<>>
  /\ taken = {}
  /\ accepted = <<>>
  /\ scored = {}

-----------------------------------------------------------------------------
(* Registration.                                                           *)

\* processOidcLoginInitiation: what the platform names is the registration.
OidcLogin(s, issuer, client) ==
  /\ Fresh(s)
  /\ issuer = Expected.issuer /\ client = Expected.client
  /\ flow' = [flow EXCEPT ![s] =
       [pc |-> "register", issuer |-> issuer, client |-> client, at |-> now]]
  /\ UNCHANGED <<now, pending, tokens, restarts, post, registered, taken, accepted, scored>>

Sign(use, nonce, issuer, audience, alg) ==
  [use |-> use, nonce |-> nonce, issuer |-> issuer, audience |-> audience,
   alg |-> alg, made |-> restarts, exp |-> now + TokenLife]

\* A record's own launch: the API signs the token itself, for the issuer and
\* the client of the lab, and registers its state before it answers.
RecordLaunch(s) ==
  /\ Fresh(s)
  /\ Cardinality(tokens) < MaxTokens
  /\ tokens' = tokens \union {Sign("launch", s, "lab", "practice-relay-tool", Algorithm)}
  /\ flow' = [flow EXCEPT ![s] =
       [pc |-> "register", issuer |-> "lab", client |-> "practice-relay-tool",
        at |-> now]]
  /\ UNCHANGED <<now, pending, restarts, post, registered, taken, accepted, scored>>

Unexpired(at) == {s \in DOMAIN pending : pending[s].expiresAt > at}

\* Mutant: the newest launches make room.
Evictions_Newest(kept) ==
  IF Cardinality(kept) < MaxPending THEN {{}}
  ELSE {out \in SUBSET kept :
          /\ Cardinality(out) = Cardinality(kept) - MaxPending + 1
          /\ \A a \in out, b \in kept \ out : pending[a].at >= pending[b].at}

\* The oldest of too many: ties are broken by insertion or by state.
Evictions(kept) ==
  IF Cardinality(kept) < MaxPending THEN {{}}
  ELSE {out \in SUBSET kept :
          /\ Cardinality(out) = Cardinality(kept) - MaxPending + 1
          /\ \A a \in out, b \in kept \ out : pending[a].at <= pending[b].at}

registerLtiLaunch(s) ==
  /\ flow[s].pc = "register"
  /\ \E out \in Evictions(Unexpired(flow[s].at)) :
       pending' = [t \in (Unexpired(flow[s].at) \ out) \union {s} |->
                     IF t = s THEN [issuer |-> flow[s].issuer,
                                    client |-> flow[s].client, at |-> flow[s].at,
                                    expiresAt |-> flow[s].at + Ttl]
                     ELSE pending[t]]
  /\ flow' = [flow EXCEPT ![s] = [pc |-> "registered", at |-> flow[s].at]]
  /\ registered' = Append(registered, s)
  /\ UNCHANGED <<now, tokens, restarts, post, taken, accepted, scored>>

-----------------------------------------------------------------------------
(* Tokens of the platform and of the token endpoint.                       *)

\* issueMockPlatformLaunch, with the nonce of the login's answer; the mock
\* platform signs with the shared secret only.
PlatformSigns(s) ==
  /\ flow[s].pc = "registered"
  /\ Cardinality(tokens) < MaxTokens
  /\ tokens' = tokens \union {Sign("launch", s, "lab", "practice-relay-tool", "HS256")}
  /\ UNCHANGED <<now, flow, pending, restarts, post, registered, taken, accepted, scored>>

\* POST /lti/oauth/token with the client's credentials and the score scope.
ServiceToken ==
  /\ Cardinality(tokens) < MaxTokens
  /\ tokens' = tokens \union
       {Sign("ags_service", NoNonce, "lab", "practice-relay-ags", "HS256")}
  /\ UNCHANGED <<now, flow, pending, restarts, post, registered, taken, accepted, scored>>

verifyLtiJwt(token, launch, nonce) ==
  /\ token.alg = Algorithm
  /\ Shared \/ token.made = restarts
  /\ token.issuer = launch.issuer
  /\ token.audience = launch.client
  /\ now - Tolerance < token.exp
  /\ token.nonce = nonce
  /\ token.use = "launch"

verifyAgsServiceToken(token) ==
  /\ token.alg = "HS256"
  /\ Shared \/ token.made = restarts
  /\ token.use = "ags_service"
  /\ token.audience = "practice-relay-ags"
  /\ now < token.exp

-----------------------------------------------------------------------------
(* POST /lti/launch, which a client may send with any token and any state  *)
(* it has, and again.                                                      *)

PostLaunch(p, token, s) ==
  /\ post[p] = Idle
  /\ Drawn(s)
  /\ post' = [post EXCEPT ![p] =
       [pc |-> "consume", token |-> token, state |-> s, at |-> now]]
  /\ UNCHANGED <<now, flow, pending, tokens, restarts, registered, taken, accepted, scored>>

\* Mutant: the state is read and stays.
Taken_Stays(s) == pending

\* What is left when a state was consumed.
Taken(s) == [t \in DOMAIN pending \ {s} |-> pending[t]]

\* One DELETE ... RETURNING: an expired state is gone as well.
consumeLtiLaunch(p) ==
  /\ post[p].pc = "consume"
  /\ LET s == post[p].state
         found == s \in DOMAIN pending /\ pending[s].expiresAt > post[p].at
     IN /\ pending' = Taken(s)
        /\ post' = [post EXCEPT ![p] =
             IF found THEN [pc |-> "verify", token |-> post[p].token,
                            state |-> s, launch |-> pending[s]]
             ELSE Idle]
        /\ taken' = taken \union (DOMAIN pending \cap {s})
  /\ UNCHANGED <<now, flow, tokens, restarts, registered, accepted, scored>>

\* The state is used up whatever the token turns out to be.
VerifyLaunch(p) ==
  /\ post[p].pc = "verify"
  /\ accepted' = IF verifyLtiJwt(post[p].token, post[p].launch, post[p].state)
                 THEN Append(accepted, [state |-> post[p].state,
                                        token |-> post[p].token])
                 ELSE accepted
  /\ post' = [post EXCEPT ![p] = Idle]
  /\ UNCHANGED <<now, flow, pending, tokens, restarts, registered, taken, scored>>

\* POST /lti/ags/scores: the token is verified before the body and after it.
PostScore(p, token) ==
  /\ post[p] = Idle
  /\ verifyAgsServiceToken(token)
  /\ post' = [post EXCEPT ![p] = [pc |-> "score", token |-> token]]
  /\ UNCHANGED <<now, flow, pending, tokens, restarts, registered, taken, accepted, scored>>

processAgsScore(p) ==
  /\ post[p].pc = "score"
  /\ scored' = IF verifyAgsServiceToken(post[p].token)
               THEN scored \union {post[p].token} ELSE scored
  /\ post' = [post EXCEPT ![p] = Idle]
  /\ UNCHANGED <<now, flow, pending, tokens, restarts, registered, taken, accepted>>

-----------------------------------------------------------------------------
\* Time passes, but no transaction waits longer than MaxLag for its lock.
Tick ==
  /\ now < MaxTime
  /\ \A s \in States : flow[s].pc = "register" => now - flow[s].at < MaxLag
  /\ \A p \in Posts : post[p].pc = "consume" => now - post[p].at < MaxLag
  /\ now' = now + 1
  /\ UNCHANGED <<flow, pending, tokens, restarts, post, registered, taken, accepted, scored>>

\* The process dies with its requests; without PostgreSQL its states die too,
\* and with them the secret that was made for it.
Restart ==
  /\ restarts < MaxRestarts
  /\ flow' = [s \in States |-> IF flow[s].pc = "register" THEN [pc |-> "lost"] ELSE flow[s]]
  /\ post' = [p \in Posts |-> Idle]
  /\ pending' = IF Shared THEN pending ELSE [s \in {} |-> Idle]
  /\ taken' = IF Shared THEN taken ELSE taken \union DOMAIN pending
  /\ restarts' = restarts + 1
  /\ UNCHANGED <<now, tokens, registered, accepted, scored>>

Next ==
  \/ \E s \in States :
       \/ \E issuer \in Issuers, client \in Clients : OidcLogin(s, issuer, client)
       \/ RecordLaunch(s) \/ registerLtiLaunch(s) \/ PlatformSigns(s)
  \/ ServiceToken
  \/ \E p \in Posts :
       \/ \E token \in tokens :
            PostScore(p, token) \/ \E s \in States : PostLaunch(p, token, s)
       \/ consumeLtiLaunch(p) \/ VerifyLaunch(p) \/ processAgsScore(p)
  \/ Tick \/ Restart

Spec == Init /\ [][Next]_vars
-----------------------------------------------------------------------------
(* A state admits one launch at most, however often and with whatever      *)
(* tokens it is posted: with a launch token of its own nonce, signed after *)
(* the state was made, and within its five minutes (handleLaunch consumes  *)
(* the state before it looks at the token).                                *)
LaunchOnce ==
  /\ \A i, j \in DOMAIN accepted :
       accepted[i].state = accepted[j].state => i = j
  /\ \A i \in DOMAIN accepted :
       /\ accepted[i].token.nonce = accepted[i].state
       /\ accepted[i].token.use = "launch"
       /\ \E k \in DOMAIN registered : registered[k] = accepted[i].state
  /\ \A token \in scored : token.use = "ags_service"

(* A launch that nobody posts waits its five minutes, unless MaxPending     *)
(* others made room for themselves: a full table gives up its oldest entry *)
(* and no other (registerLtiLaunch).                                       *)
LaunchesWait ==
  \A i \in DOMAIN registered :
    LET s == registered[i]
        Others == {k \in DOMAIN registered \ {i} :
                     k > i \/ flow[registered[k]].at >= flow[s].at}
    IN s \notin taken /\ now < flow[s].at + Ttl =>
         s \in DOMAIN pending \/ Cardinality(Others) >= MaxPending

TypeOK ==
  /\ DOMAIN pending \subseteq States
  /\ Cardinality(DOMAIN pending) <= MaxPending
  /\ \A s \in DOMAIN pending : pending[s].expiresAt = pending[s].at + Ttl
  /\ \A t \in tokens : t.use = "launch" => t.nonce \in States

(* Single use, and no early end: a launch is answered once for its own      *)
(* token, and waits until then.                                            *)
LaunchesAreSound == TypeOK /\ LaunchOnce /\ LaunchesWait
=============================================================================
