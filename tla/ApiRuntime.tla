----------------------------- MODULE ApiRuntime -----------------------------
(***************************************************************************)
(* The life of one API process (apps/relay-api: runtime-lifecycle.ts, the   *)
(* direct run of index.ts, storage-metrics.ts): startup with its checks and *)
(* a first recovery pass, the timers of recovery and of the storage gauges, *)
(* requests, and the shutdown that closes what they use, in order.          *)
(*                                                                          *)
(* A pass, a refresh and a request read stores in steps of their own; the   *)
(* end of the connections does not end the handlers they called.            *)
(***************************************************************************)
EXTENDS Integers, Sequences

CONSTANTS Requests, MaxPasses, MaxRefreshes

VARIABLES phase,     \* "checking", "initializing", "recovering", "serving", then the shutdown
          open,      \* the stores that are open
          timers,    \* the interval timers that are set
          pass,      \* recovery passes that run; passes that were started
          refresh,   \* storage refresh: [running, started]
          gauges,    \* how the last refresh went: "none", "fresh" or "failed"
          handler,   \* per request: "idle", "running", "done"
          ready      \* what readiness said last

vars == <<phase, open, timers, pass, refresh, gauges, handler, ready>>

Stores == {"media", "coordination", "records", "database"}
(* closeRuntime closes them in this order *)
Closing == <<"media", "coordination", "records", "database">>

Init ==
  /\ phase = "checking" /\ open = Stores /\ timers = {}
  /\ pass = [running |-> 0, started |-> 0]
  /\ refresh = [running |-> FALSE, started |-> 0]
  /\ gauges = "none" /\ ready = "unasked"
  /\ handler = [r \in Requests |-> "idle"]

(* initializeRuntime: a failed check ends the process before it listens *)
CheckDependencies ==
  /\ phase = "checking"
  /\ phase' \in {"initializing", "exited"}
  /\ UNCHANGED <<open, timers, pass, refresh, gauges, handler, ready>>

FirstRecovery ==
  /\ phase = "initializing"
  /\ phase' = "recovering"
  /\ pass' = [running |-> 1, started |-> 1]
  /\ UNCHANGED <<open, timers, refresh, gauges, handler, ready>>

FirstRecoveryEnds ==
  /\ phase = "recovering" /\ pass.running = 1
  /\ pass' = [pass EXCEPT !.running = 0]
  /\ \/ phase' = "serving" /\ timers' = {"cleanup", "metrics"}
     \/ phase' = "exited" /\ UNCHANGED timers
  /\ UNCHANGED <<open, refresh, gauges, handler, ready>>

(* Mutant: the timer does not look for a pass that still runs *)
MayRecover_Anyway == TRUE
(* The timer leaves a pass that still runs alone *)
MayRecover == pass.running = 0

CleanupTimer ==
  /\ "cleanup" \in timers /\ MayRecover /\ pass.started < MaxPasses
  /\ pass' = [running |-> pass.running + 1, started |-> pass.started + 1]
  /\ UNCHANGED <<phase, open, timers, refresh, gauges, handler, ready>>

(* A pass ends, or fails and is tried again at the next tick of the timer *)
PassEnds ==
  /\ phase \notin {"checking", "initializing", "recovering", "exited"} /\ pass.running > 0
  /\ pass' = [pass EXCEPT !.running = @ - 1]
  /\ UNCHANGED <<phase, open, timers, refresh, gauges, handler, ready>>

MetricsTimer ==
  /\ "metrics" \in timers /\ ~refresh.running /\ refresh.started < MaxRefreshes
  /\ refresh' = [running |-> TRUE, started |-> refresh.started + 1]
  /\ UNCHANGED <<phase, open, timers, pass, gauges, handler, ready>>

(* The gauges keep their values when a store fails, or was closed meanwhile *)
RefreshEnds ==
  /\ refresh.running
  /\ refresh' = [refresh EXCEPT !.running = FALSE]
  /\ gauges' \in IF {"media", "database"} \subseteq open THEN {"fresh", "failed"} ELSE {"failed"}
  /\ UNCHANGED <<phase, open, timers, pass, handler, ready>>

Arrives(r) ==
  /\ phase = "serving" /\ handler[r] = "idle"
  /\ handler' = [handler EXCEPT ![r] = "running"]
  /\ UNCHANGED <<phase, open, timers, pass, refresh, gauges, ready>>

Ends(r) ==
  /\ handler[r] = "running"
  /\ handler' = [handler EXCEPT ![r] = "done"]
  /\ UNCHANGED <<phase, open, timers, pass, refresh, gauges, ready>>

checkReadiness(r) ==
  /\ handler[r] = "running"
  /\ ready' \in IF {"media", "database"} \subseteq open THEN {"ready", "not ready"} ELSE {"not ready"}
  /\ handler' = [handler EXCEPT ![r] = "done"]
  /\ UNCHANGED <<phase, open, timers, pass, refresh, gauges>>

(* SIGTERM: no more connections; the refresh timer stops when the server has closed *)
Shutdown ==
  /\ phase = "serving"
  /\ phase' = "stopping"
  /\ UNCHANGED <<open, timers, pass, refresh, gauges, handler, ready>>

(* Mutant: closing does not wait for the pass *)
PassAwaited_Never == TRUE
(* closeRuntime awaits a pending pass before it closes anything *)
PassAwaited == pass.running = 0

closeRuntime ==
  /\ phase = "stopping"
  /\ timers' = {}
  /\ phase' = "awaiting"
  /\ UNCHANGED <<open, pass, refresh, gauges, handler, ready>>

CloseNext ==
  /\ phase = "awaiting" /\ PassAwaited /\ open # {}
  /\ \E i \in DOMAIN Closing :
       /\ Closing[i] \in open /\ \A j \in 1..(i - 1) : Closing[j] \notin open
       /\ open' = open \ {Closing[i]}
  /\ UNCHANGED <<phase, timers, pass, refresh, gauges, handler, ready>>

Next ==
  \/ CheckDependencies \/ FirstRecovery \/ FirstRecoveryEnds
  \/ CleanupTimer \/ PassEnds \/ MetricsTimer \/ RefreshEnds
  \/ \E r \in Requests : Arrives(r) \/ Ends(r) \/ checkReadiness(r)
  \/ Shutdown \/ closeRuntime \/ CloseNext

Spec == Init /\ [][Next]_vars

(* Recovery runs one pass at a time, and from the first to the last of    *)
(* them nothing it reads is closed: not by a shutdown that comes while a   *)
(* pass is on, nor by a timer that fires into the shutdown.                *)
RecoveryIsAlone == pass.running <= 1 /\ (pass.running > 0 => open = Stores)
=============================================================================
