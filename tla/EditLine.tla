------------------------------- MODULE EditLine -------------------------------
(***************************************************************************)
(* What an undo history promises: the documents of an editing session lie  *)
(* on a line, one of them is shown, at most Limit of them before it.  An   *)
(* edit drops what lies after it, undo and redo move along the line, and   *)
(* opening another document begins a new line.                             *)
(***************************************************************************)
EXTENDS Integers, Sequences

CONSTANT Limit

VARIABLES line,   \* documents, in the order they were made
          at      \* the place of the one that is shown

Init == Len(line) = 1 /\ at = 1

\* The new document lies after the one shown; the oldest gives way at the limit.
Edit ==
  \E forgotten \in 0 .. 1 :
    /\ forgotten = 1 <=> at = Limit + 1
    /\ at' = at + 1 - forgotten /\ Len(line') = at'
    /\ SubSeq(line', 1, at' - 1) = SubSeq(line, 1 + forgotten, at)

Undo == at > 1 /\ at' = at - 1 /\ line' = line
Redo == at < Len(line) /\ at' = at + 1 /\ line' = line
Restart == Len(line') = 1 /\ at' = 1

Next == Edit \/ Undo \/ Redo \/ Restart

Spec == Init /\ [][Next]_<<line, at>>
=============================================================================
