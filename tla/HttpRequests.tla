----------------------------- MODULE HttpRequests -----------------------------
(***************************************************************************)
(* The way of a request through the API: the ingress rules, the registry   *)
(* of routes, the guard of its route, its bounded body, the operation, one *)
(* answer, the drained rest of the body and the metrics.  Several requests *)
(* are under way in one process; the client may go at any await.           *)
(***************************************************************************)
EXTENDS Integers, Sequences, FiniteSets, FiniteSetsExt, Functions

CONSTANTS Requests,
          Asks,        \* [host, origin, route, method, caller, declared, chunks, form]
          MaxBytes,    \* MAX_JSON_BODY_BYTES
          Durations,   \* milliseconds a request may take
          Buckets      \* LATENCY_BUCKETS_MS

VARIABLES request,     \* [Requests -> one request]
          counts,      \* how often each [method, path, status] was answered
          latency,     \* [count, sum, inf, buckets]
          up           \* FALSE when an error escaped a request and ended the process

vars == <<request, counts, latency, up>>

-----------------------------------------------------------------------------
(* The registry.  A route stands for the templates that share its methods, *)
(* guard and body.                                                         *)

Route(methods, guard, reads, label) ==
  [methods |-> methods, conceals |-> FALSE, guard |-> guard, reads |-> reads, label |-> label]
Routes ==
  [health   |-> Route({"GET"}, "nobody", {}, "/health"),
   metrics  |-> Route({"GET"}, "admin", {}, "/metrics"),
   backups  |-> Route({"GET"}, "admin", {}, "/other"),
   restore  |-> Route({"POST"}, "admin", {"POST"}, "/ops/restore"),
   login    |-> Route({"POST"}, "nobody", {"POST"}, "/auth/login"),
   me       |-> Route({"GET"}, "actor", {}, "/me"),
   users    |-> Route({"GET"}, "staff", {}, "/auth/users"),
   records  |-> Route({"GET", "POST"}, "actor", {"POST"}, "/work-records"),
   record   |-> Route({"GET", "PATCH"}, "record", {"PATCH"}, "/work-records/:id"),
   command  |-> Route({"POST"}, "record", {"POST"}, "/work-records/:id/*"),
   upload   |-> [Route({"POST"}, "record", {}, "/work-records/:id/*") EXCEPT !.conceals = TRUE],
   media    |-> Route({"GET"}, "record", {}, "/media/*")]
RouteNames == DOMAIN Routes \cup {"unknown"}
HttpAssumption ==
  /\ MaxBytes \in Nat /\ Durations \subseteq Nat /\ IsFiniteSet(Requests)
  /\ Asks \subseteq [host : STRING, origin : STRING, route : RouteNames, method : STRING, caller : STRING,
                    declared : Nat, chunks : Seq(Nat), form : STRING]
  /\ Buckets \in Seq(Nat) /\ \A k \in 1 .. Len(Buckets) - 1 : Buckets[k] < Buckets[k + 1]

PathLabel(route) == IF route = "unknown" THEN "/other" ELSE Routes[route].label
MethodLabel(method) == IF method = "BREW" THEN "OTHER" ELSE method

\* What a guard says of a caller: 0 to go on.  A record is asked for, and may be absent.
Session(caller) == caller # "anonymous"
Outcomes(guard, caller) ==
  CASE guard = "nobody" -> {0}
    [] ~Session(caller) -> {401}
    [] guard = "admin"  -> {IF caller = "admin" THEN 0 ELSE 403}
    [] guard = "staff"  -> {IF caller \in {"admin", "faculty"} THEN 0 ELSE 403}
    [] guard = "record" -> {400, 404, IF caller = "member" THEN 0 ELSE 403}
    [] OTHER            -> {0}

-----------------------------------------------------------------------------
(* The answer.                                                             *)

Fresh(ask) == [ask |-> ask, at |-> "new", got |-> 0, body |-> "unread", client |-> TRUE,
               status |-> 0, heads |-> <<>>, guarded |-> FALSE, done |-> 0, took |-> 0]
At(r, at) == up /\ request[r].at = at

\* How often a key was counted.
Answered(key) == IF key \in DOMAIN counts THEN counts[key] ELSE 0

\* Mutant: every bucket that the time fits is counted, as if they were rendered one by one.
Count_AllBuckets(r, q) ==
  \E ms \in Durations :
    LET key == [method |-> MethodLabel(q.ask.method), path |-> PathLabel(q.ask.route), status |-> q.status]
    IN /\ counts' = [k \in DOMAIN counts \cup {key} |-> Answered(k) + IF k = key THEN 1 ELSE 0]
       /\ latency' = [count |-> latency.count + 1, sum |-> latency.sum + ms, inf |-> latency.inf + 1,
            buckets |-> [k \in DOMAIN Buckets |-> latency.buckets[k] + IF ms <= Buckets[k] THEN 1 ELSE 0]]
       /\ request' = [request EXCEPT ![r] = [q EXCEPT !.took = ms]]

Count(r, q) ==
  \E ms \in Durations :
    LET key == [method |-> MethodLabel(q.ask.method), path |-> PathLabel(q.ask.route), status |-> q.status]
    IN /\ counts' = [k \in DOMAIN counts \cup {key} |-> Answered(k) + IF k = key THEN 1 ELSE 0]
       /\ latency' = [count |-> latency.count + 1, sum |-> latency.sum + ms, inf |-> latency.inf + 1,
            buckets |-> LET hit == {k \in DOMAIN Buckets : ms <= Buckets[k]}
                        IN [k \in DOMAIN Buckets |->
                              latency.buckets[k] + IF hit # {} /\ k = Min(hit) THEN 1 ELSE 0]]
       /\ request' = [request EXCEPT ![r] = [q EXCEPT !.took = ms]]

\* A bucket as it is rendered.
Rendered(k) == SumFunctionOnSet(latency.buckets, 1 .. k)

\* Mutant: the rest of a body is left where it is.
Drained_Never(body) == body

\* What is left of a body when the request ends.
Drained(body) == IF body \in {"destroyed", "ended"} THEN body ELSE "resumed"

\* The status is remembered before the head is written; a second head throws.
Send(q, status) == [q EXCEPT !.status = status, !.heads = Append(@, status)]
End(r, q) ==
  /\ Count(r, [q EXCEPT !.at = "over", !.body = Drained(@)])
  /\ up' = (Len(q.heads) <= 1)
Answer(r, q, status) == End(r, Send(q, status))

Go(r, q) == request' = [request EXCEPT ![r] = q] /\ UNCHANGED <<counts, latency, up>>

-----------------------------------------------------------------------------
(* A request, up to each await.                                            *)

\* Guards that know the answer without awaiting run at once.
Guard(r, q) ==
  LET route == Routes[q.ask.route]
  IN IF route.guard = "record" /\ Session(q.ask.caller)
     THEN Go(r, [q EXCEPT !.at = "record"])
     ELSE \E o \in Outcomes(route.guard, q.ask.caller) :
            IF o # 0 THEN Answer(r, q, o)
            ELSE Go(r, [q EXCEPT !.guarded = TRUE, !.at = IF q.ask.method \in route.reads THEN "body" ELSE "operate"])

Dispatch(r, q) ==
  LET ask == q.ask
  IN CASE ask.method = "OPTIONS" -> Answer(r, q, 204)
       [] ask.method # "OPTIONS" /\ ask.route = "unknown" -> Answer(r, q, 404)
       [] OTHER ->
            IF ask.method \in Routes[ask.route].methods THEN Guard(r, q)
            ELSE Answer(r, q, IF Routes[ask.route].conceals THEN 404 ELSE 405)

\* Mutant: a trusted host vouches for the origin.
Ingress_HostOnly(ask) == IF ask.host = "untrusted" THEN 421 ELSE 0

\* A request without a host, or without an origin, is no browser's.
Ingress(ask) ==
  IF ask.host = "untrusted" THEN 421 ELSE IF ask.origin = "untrusted" THEN 403 ELSE 0

Arrive(r) ==
  /\ At(r, "new")
  /\ \E ask \in Asks :
       LET refused == Ingress(ask)
       IN IF refused # 0 THEN Answer(r, Fresh(ask), refused) ELSE Dispatch(r, Fresh(ask))

\* The record of the path, as the store answers.
ReadRecord(r) ==
  /\ At(r, "record")
  /\ LET q == request[r]
     IN \E o \in Outcomes("record", q.ask.caller) \cup {500} :
          IF o # 0 THEN Answer(r, q, o)
          ELSE Go(r, [q EXCEPT !.guarded = TRUE,
                               !.at = IF q.ask.method \in Routes[q.ask.route].reads THEN "body" ELSE "operate"])

\* Mutant: only the declared length of a body is compared with the limit.
TooMuch_Undeclared(total) == FALSE

TooMuch(total) == total > MaxBytes

\* A body that declares more than the limit is answered unread.
Declared(r) ==
  /\ At(r, "body") /\ request[r].body = "unread"
  /\ LET q == request[r]
     IN IF q.ask.declared > MaxBytes THEN Answer(r, [q EXCEPT !.body = "resumed"], 413)
        ELSE Go(r, [q EXCEPT !.body = "reading"])

\* A chunk; one that goes over the limit ends the reading, which destroys the request stream.
Chunk(r) ==
  /\ At(r, "body") /\ request[r].body = "reading" /\ request[r].ask.chunks # <<>>
  /\ LET q == request[r]
         total == q.got + Head(q.ask.chunks)
         next == [q EXCEPT !.ask.chunks = Tail(@)]
     IN IF TooMuch(total) THEN Answer(r, [next EXCEPT !.body = "destroyed"], 413)
        ELSE Go(r, [next EXCEPT !.got = total])

\* The end of the body: no bytes are an empty object; what is no object is refused.
BodyEnds(r) ==
  /\ At(r, "body") /\ request[r].body = "reading" /\ request[r].ask.chunks = <<>>
  /\ LET q == [request[r] EXCEPT !.body = "ended"]
     IN IF q.got > 0 /\ q.ask.form # "object" THEN Answer(r, q, 400)
        ELSE Go(r, [q EXCEPT !.at = "operate"])

\* The client goes while its body is awaited: the reading throws, nobody hears the answer.
BodyBreaks(r) ==
  /\ At(r, "body") /\ request[r].body = "reading"
  /\ Answer(r, [request[r] EXCEPT !.body = "destroyed", !.client = FALSE], 500)

\* The client goes while an operation is awaited, which nothing interrupts.
ClientGoes(r) ==
  /\ At(r, "operate") /\ request[r].client
  /\ Go(r, [request[r] EXCEPT !.client = FALSE])

\* The operation: done, refused by a coded error, or failed; its body may lack what it needs.
Operate(r) ==
  /\ At(r, "operate")
  /\ LET q == [request[r] EXCEPT !.done = @ + 1]
         refusals == IF q.ask.method \in Routes[q.ask.route].reads THEN {400, 403, 409} ELSE {}
     IN \E status \in {200, 500} \cup refusals : Answer(r, q, status)

\* A login whose derivation finds no room is told so, and then its attempt is given back; if that
\* fails, the error is answered too.
BusyThen(q, returned) == IF returned THEN Send(q, 429) ELSE Send(Send(q, 429), 500)
Busy(r) ==
  /\ At(r, "operate") /\ request[r].ask.route = "login"
  /\ \E returned \in BOOLEAN : End(r, BusyThen([request[r] EXCEPT !.done = @ + 1], returned))

Init ==
  /\ request = [r \in Requests |-> Fresh([route |-> "unknown", chunks |-> <<>>])]
  /\ counts = <<>> /\ up = TRUE
  /\ latency = [count |-> 0, sum |-> 0, inf |-> 0, buckets |-> [k \in DOMAIN Buckets |-> 0]]

Next == \E r \in Requests :
  \/ Arrive(r) \/ ReadRecord(r) \/ Declared(r) \/ Chunk(r) \/ BodyEnds(r) \/ BodyBreaks(r)
  \/ ClientGoes(r) \/ Operate(r) \/ Busy(r)

Spec == Init /\ [][Next]_vars

-----------------------------------------------------------------------------
Over == {r \in Requests : request[r].at = "over"}

\* What the metrics show is what happened: each request that ended is counted once under its
\* labels and status, and the cumulative buckets count the requests that took no longer.
MetricsAgree ==
  LET Key(r) == [method |-> MethodLabel(request[r].ask.method), path |-> PathLabel(request[r].ask.route),
                 status |-> request[r].status]
  IN /\ \A key \in DOMAIN counts : counts[key] = Cardinality({r \in Over : Key(r) = key})
     /\ SumFunctionOnSet(counts, DOMAIN counts) = Cardinality(Over)
     /\ latency.count = Cardinality(Over) /\ latency.inf = latency.count
     /\ latency.sum = SumFunctionOnSet([r \in Over |-> request[r].took], Over)
     /\ \A k \in DOMAIN Buckets :
          Rendered(k) = Cardinality({r \in Over : request[r].took <= Buckets[k]})

\* A request that ended was answered once, with the status that is counted.  Only a login that was
\* told of the full queue and could not give its attempt back is answered twice, which ends the process.
AnsweredOnce ==
  \A r \in Over :
    \/ request[r].heads = <<request[r].status>>
    \/ request[r].heads = <<429, 500>> /\ request[r].ask.route = "login" /\ ~up

\* Nothing is read or done for a request that ingress, registry or guard refuse.
RefusedUntouched ==
  \A r \in Requests :
    LET q == request[r]
    IN q.done > 0 \/ q.got > 0 =>
         /\ q.ask.host # "untrusted" /\ q.ask.origin # "untrusted" /\ q.done <= 1
         /\ q.ask.method \in Routes[q.ask.route].methods
         /\ 0 \in Outcomes(Routes[q.ask.route].guard, q.ask.caller)

\* No more of a body is kept than the limit, and none of it is left to block the connection.
BodiesAreBounded ==
  \A r \in Requests :
    /\ request[r].got <= MaxBytes
    /\ request[r].at = "over" => request[r].body \in {"ended", "resumed", "destroyed"}

RequestsAreSound == MetricsAgree /\ AnsweredOnce /\ RefusedUntouched /\ BodiesAreBounded
=============================================================================
