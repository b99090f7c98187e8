------------------------------- MODULE LabKeys -------------------------------
(***************************************************************************)
(* The RSA key pair of the LTI lab in a directory that several processes   *)
(* share (resolveLabRsaKeys): a process loads the pair, or, when there is  *)
(* none, generates one under a lock file and publishes it by linking two   *)
(* finished temporaries to their names.  Any file call may fail, and a     *)
(* process may die between any two.                                        *)
(*                                                                         *)
(* A pair is a number; a link is exclusive, and a file is removed only by  *)
(* the process that made it.                                               *)
(***************************************************************************)
EXTENDS Integers, FiniteSets

CONSTANTS Processes,
          Generate,   \* PRACTICE_RELAY_LTI_GENERATE_RSA
          MaxPairs,   \* bound on generated pairs
          None

KeysAssumption == MaxPairs \in Nat /\ None \notin 0 .. MaxPairs /\ None \notin Processes

VARIABLES private, public,   \* the pair that each name holds a half of, or None
          lock,              \* the process whose lock file is there, or None
          temporaries,       \* the halves that a temporary holds
          proc,              \* where each process is, with the pair it made
          keys,              \* the pair each process signs and verifies with
          made,              \* how many pairs were generated
          damaged            \* a process died, or a file could not be removed

dir == <<private, public, lock, temporaries>>
vars == <<private, public, lock, temporaries, proc, keys, made, damaged>>

Off == [pc |-> "off", pair |-> None, committed |-> FALSE]
Halves == {"private", "public"}

Init ==
  /\ private = None /\ public = None /\ lock = None
  /\ temporaries = {}
  /\ proc = [p \in Processes |-> Off]
  /\ keys = [p \in Processes |-> None]
  /\ made = 0
  /\ damaged = FALSE

At(p, pc) == proc[p].pc = pc
Goto(p, pc) == proc' = [proc EXCEPT ![p].pc = pc]

-----------------------------------------------------------------------------
\* inspectPair: "empty", "complete", or the error of half a pair.
Inspected ==
  IF private = None /\ public = None THEN "empty"
  ELSE IF private = None \/ public = None THEN "partial" ELSE "complete"

Start(p) ==
  /\ At(p, "off")
  /\ keys[p] = None
  /\ Goto(p, CASE Inspected = "complete" -> "load"
               [] Inspected = "partial"  -> "off"
               [] OTHER -> IF Generate THEN "lock" ELSE "off")
  /\ UNCHANGED <<dir, keys, made, damaged>>

\* loadPair refuses a private key with a second link, its temporary.
Loads == private = public /\ private # None /\ <<"private", private>> \notin temporaries

LoadPair(p) ==
  /\ At(p, "load")
  /\ keys' = [keys EXCEPT ![p] = IF Loads THEN private ELSE None]
  /\ Goto(p, "off")
  /\ UNCHANGED <<dir, made, damaged>>

\* A lock file that is there, whoever left it, ends the start (BUSY).
AcquireLock(p) ==
  /\ At(p, "lock")
  /\ lock' = IF lock = None THEN p ELSE lock
  /\ Goto(p, IF lock = None THEN "inspect" ELSE "off")
  /\ UNCHANGED <<private, public, temporaries, keys, made, damaged>>

\* The pair is looked for again under the lock; a new one is generated.
InspectLocked(p) ==
  /\ At(p, "inspect")
  /\ CASE Inspected = "complete" ->
            /\ keys' = [keys EXCEPT ![p] = IF Loads THEN private ELSE None]
            /\ Goto(p, "release")
            /\ UNCHANGED made
       [] Inspected = "partial" ->
            Goto(p, "release") /\ UNCHANGED <<keys, made>>
       [] OTHER ->
            /\ made < MaxPairs
            /\ made' = made + 1
            /\ proc' = [proc EXCEPT ![p] =
                 [pc |-> "write", pair |-> made + 1, committed |-> FALSE]]
            /\ UNCHANGED keys
  /\ UNCHANGED <<dir, damaged>>

-----------------------------------------------------------------------------
(* publishPair                                                             *)

WriteTemporary(p, half) ==
  /\ At(p, "write")
  /\ <<half, proc[p].pair>> \notin temporaries
  /\ half = "public" => <<"private", proc[p].pair>> \in temporaries
  /\ temporaries' = temporaries \union {<<half, proc[p].pair>>}
  /\ IF half = "public" THEN Goto(p, "linkPrivate") ELSE UNCHANGED proc
  /\ UNCHANGED <<private, public, lock, keys, made, damaged>>

\* Mutant: the pair counts as committed with its first name.
LinkPrivate_Commits(p) ==
  /\ At(p, "linkPrivate")
  /\ private = None
  /\ private' = proc[p].pair
  /\ proc' = [proc EXCEPT ![p].pc = "linkPublic", ![p].committed = TRUE]
  /\ UNCHANGED <<public, lock, temporaries, keys, made, damaged>>

LinkPrivate(p) ==
  /\ At(p, "linkPrivate")
  /\ private = None
  /\ private' = proc[p].pair
  /\ Goto(p, "linkPublic")
  /\ UNCHANGED <<public, lock, temporaries, keys, made, damaged>>

\* With the second name the pair is committed.
LinkPublic(p) ==
  /\ At(p, "linkPublic")
  /\ public = None
  /\ public' = proc[p].pair
  /\ proc' = [proc EXCEPT ![p].pc = "clean", ![p].committed = TRUE]
  /\ UNCHANGED <<private, lock, temporaries, keys, made, damaged>>

Mine(p) == {<<half, proc[p].pair>> : half \in Halves}

\* A removal is tried twice; what stays is damage.
CleanTemporaries(p) ==
  /\ At(p, "clean")
  /\ \E stay \in SUBSET (Mine(p) \intersect temporaries) :
       /\ temporaries' = (temporaries \ Mine(p)) \union stay
       /\ damaged' = (damaged \/ stay # {})
       /\ IF stay = {}
          THEN /\ keys' = [keys EXCEPT ![p] = proc[p].pair]
               /\ Goto(p, "release")
          ELSE /\ UNCHANGED keys
               /\ Goto(p, "undo")
  /\ UNCHANGED <<private, public, lock, made>>

\* A call of the publication throws, or a name is taken.
PublishFails(p) ==
  /\ proc[p].pc \in {"write", "linkPrivate", "linkPublic", "clean"}
  /\ Goto(p, "undo")
  /\ UNCHANGED <<dir, keys, made, damaged>>

\* Mutant: a committed pair is taken back as well.
TakesBack_Always(p) == TRUE

\* The names are taken back unless the pair is committed.
TakesBack(p) == ~proc[p].committed

Undo(p) ==
  /\ At(p, "undo")
  /\ \E stay \in SUBSET (Mine(p) \intersect temporaries),
        kept \in SUBSET Halves :
       LET Removed(name, half) ==
             IF TakesBack(p) /\ name = proc[p].pair /\ half \notin kept
             THEN None ELSE name
       IN /\ kept = {} \/ TakesBack(p)
          /\ private' = Removed(private, "private")
          /\ public' = Removed(public, "public")
          /\ temporaries' = (temporaries \ Mine(p)) \union stay
          /\ damaged' = (damaged \/ stay # {} \/ kept # {})
  /\ Goto(p, "release")
  /\ UNCHANGED <<lock, keys, made>>

\* A lock that cannot be removed fails the start.
ReleaseLock(p) ==
  /\ At(p, "release")
  /\ \E fails \in BOOLEAN :
       /\ lock' = IF fails THEN lock ELSE None
       /\ keys' = IF fails THEN [keys EXCEPT ![p] = None] ELSE keys
       /\ damaged' = (damaged \/ fails)
  /\ proc' = [proc EXCEPT ![p] = Off]
  /\ UNCHANGED <<private, public, temporaries, made>>

-----------------------------------------------------------------------------
\* A process dies; what it had begun stays in the directory.
Crash(p) ==
  /\ proc[p] # Off \/ keys[p] # None
  /\ proc' = [proc EXCEPT ![p] = Off]
  /\ keys' = [keys EXCEPT ![p] = None]
  /\ damaged' = (damaged \/ proc[p].pc \notin {"off", "load", "lock"})
  /\ UNCHANGED <<dir, made>>

Next ==
  \E p \in Processes :
    \/ Start(p) \/ LoadPair(p) \/ AcquireLock(p) \/ InspectLocked(p)
    \/ \E half \in Halves : WriteTemporary(p, half)
    \/ LinkPrivate(p) \/ LinkPublic(p) \/ CleanTemporaries(p)
    \/ PublishFails(p) \/ Undo(p) \/ ReleaseLock(p) \/ Crash(p)

Spec == Init /\ [][Next]_vars
-----------------------------------------------------------------------------
TypeOK ==
  /\ {private, public} \subseteq 1 .. MaxPairs \union {None}
  /\ lock \in Processes \union {None}
  /\ temporaries \subseteq Halves \X (1 .. MaxPairs)
  /\ \A p \in Processes : proc[p].pair \in 1 .. made \union {None}

(* Processes that share the directory verify each other's tokens: whoever  *)
(* has keys has those of the directory, through failures and crashes of    *)
(* the others in the middle of a publication.                              *)
KeysAgree ==
  \A p \in Processes :
    keys[p] # None /\ At(p, "off") => private = keys[p] /\ public = keys[p]

(* A start that fails, but does not die, leaves the directory as it found  *)
(* it, or with the whole pair: no later start meets half a pair, a private *)
(* key with two links, or a lock that nobody holds (publishPair's handler, *)
(* releaseLock).                                                           *)
FailuresLeaveNoTrace ==
  ~damaged /\ (\A p \in Processes : At(p, "off")) =>
    /\ Inspected # "partial"
    /\ temporaries = {}
    /\ lock = None

(* The directory holds one pair that all agree on, or nothing: through     *)
(* starts at once, failures at each file operation and deaths.             *)
PairIsSound == TypeOK /\ KeysAgree /\ FailuresLeaveNoTrace
=============================================================================
