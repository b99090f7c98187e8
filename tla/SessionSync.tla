----------------------------- MODULE SessionSync -----------------------------
(***************************************************************************)
(* The Motif document that several tabs of the workbench share             *)
(* (apps/movement-workbench session-sync): each tab publishes snapshots    *)
(* under a revision of its own count, and takes a snapshot of another tab  *)
(* when its revision is greater, or equal from a greater origin.  The tabs *)
(* have a BroadcastChannel each, whose messages come later and here in any *)
(* order, or share one in-process channel, which calls all of them at once *)
(* and which the first tab that closes closes for every one.               *)
(*                                                                         *)
(* A document is the number of the edit that made it.  Origins are         *)
(* numbers, in the order of their names.                                   *)
(***************************************************************************)
EXTENDS Integers, FiniteSets

CONSTANTS Origins,    \* a tab has an origin of its own, a positive number
          MaxRev,     \* MAX_SAFE_INTEGER
          MaxEdits,   \* bound on the snapshots that are published
          Restored    \* revisions that setRev is called with

SyncBounds ==
  /\ Origins \subseteq Nat \ {0} /\ MaxRev \in Nat /\ MaxEdits \in Nat
  /\ Restored \subseteq 0 .. MaxRev

VARIABLES channel,    \* "broadcast" or "memory"
          pc,         \* per origin: "new", "open" or "closed"
          listening,  \* the tabs that messages reach
          held,       \* per origin: the snapshot [rev, origin, doc] it shows
          wire,       \* messages on their way: [to, snapshot]
          edits,      \* how many snapshots were published
          since,      \* per origin: edits that were made before it opened
          rewound     \* a tab had its revision set after it could publish or hear

vars == <<channel, pc, listening, held, wire, edits, since, rewound>>

NoOrigin == 0   \* revOrigin ""

Open == {t \in Origins : pc[t] = "open"}

Init ==
  /\ channel \in {"broadcast", "memory"}
  /\ pc = [t \in Origins |-> "new"] /\ listening = {}
  /\ held = [t \in Origins |-> [rev |-> 0, origin |-> NoOrigin, doc |-> 0]]
  /\ wire = {}
  /\ edits = 0 /\ since = [t \in Origins |-> 0]
  /\ rewound = FALSE

OpenTab(t) ==
  /\ pc[t] = "new"
  /\ pc' = [pc EXCEPT ![t] = "open"]
  /\ listening' = listening \union {t}
  /\ since' = [since EXCEPT ![t] = edits]
  /\ UNCHANGED <<channel, held, wire, edits, rewound>>

setRev(t, rev) ==
  /\ t \in Open
  /\ held' = [held EXCEPT ![t].rev = rev, ![t].origin = NoOrigin]
  /\ rewound' = (rewound \/ edits > since[t])
  /\ UNCHANGED <<channel, pc, listening, wire, edits, since>>

\* Mutant: of two snapshots with one revision each tab keeps its first.
Advances_Strictly(snapshot, t) == snapshot.rev > held[t].rev

Advances(snapshot, t) ==
  \/ snapshot.rev > held[t].rev
  \/ snapshot.rev = held[t].rev /\ snapshot.origin > held[t].origin

acceptRemoteMessage(snapshot, t) == snapshot.origin # t /\ Advances(snapshot, t)

publish(t) ==
  /\ t \in Open
  /\ held[t].rev < MaxRev /\ edits < MaxEdits
  /\ LET snapshot == [rev |-> held[t].rev + 1, origin |-> t, doc |-> edits + 1]
         Takes(u) == channel = "memory" /\ u \in listening /\ acceptRemoteMessage(snapshot, u)
     IN /\ held' = [u \in Origins |-> IF u = t \/ Takes(u) THEN snapshot ELSE held[u]]
        /\ wire' = IF channel = "memory" THEN wire
                   ELSE wire \union {[to |-> u, snapshot |-> snapshot] : u \in listening \ {t}}
  /\ edits' = edits + 1
  /\ UNCHANGED <<channel, pc, listening, since, rewound>>

handleMessage(m) ==
  /\ wire' = wire \ {m}
  /\ held' = IF acceptRemoteMessage(m.snapshot, m.to)
             THEN [held EXCEPT ![m.to] = m.snapshot] ELSE held
  /\ UNCHANGED <<channel, pc, listening, edits, since, rewound>>

\* The in-process channel forgets everybody who listens.
close(t) ==
  /\ t \in Open
  /\ pc' = [pc EXCEPT ![t] = "closed"]
  /\ listening' = IF channel = "memory" THEN {} ELSE listening \ {t}
  /\ wire' = {m \in wire : m.to # t}
  /\ UNCHANGED <<channel, held, edits, since, rewound>>

Next ==
  \/ \E t \in Origins :
       OpenTab(t) \/ publish(t) \/ close(t) \/ \E rev \in Restored : setRev(t, rev)
  \/ \E m \in wire : handleMessage(m)

Spec == Init /\ [][Next]_vars
-----------------------------------------------------------------------------
(* Tabs that saw the same snapshots show the same document, whatever order *)
(* the messages came in: two tabs that were there from the first edit,     *)
(* that still listen and to which no message is on its way agree as soon   *)
(* as one was published, and a snapshot names one document wherever it is  *)
(* held (the greatest revision and origin wins).  This is not promised of  *)
(* a tab that another one has closed the in-process channel for, which is  *)
(* open and hears nothing, nor after a tab at work had its revision set,   *)
(* which may give one revision of its origin to two documents (setRev,     *)
(* which nothing in the repository calls).                                 *)
TabsConverge ==
  ~rewound =>
    /\ \A t, u \in listening :
         /\ since[t] = 0 /\ since[u] = 0 /\ edits > 0
         /\ held[t].origin # NoOrigin /\ held[u].origin # NoOrigin
         /\ \A m \in wire : m.to \notin {t, u}
         => held[t] = held[u]
    /\ \A t, u \in Origins :
         /\ held[t].rev = held[u].rev /\ held[t].origin = held[u].origin
         /\ held[t].origin # NoOrigin
         => held[t].doc = held[u].doc
=============================================================================
