----------------------------- MODULE LoginGuesses -----------------------------
(***************************************************************************)
(* How many passwords can be tried against one account: LoginAdmission in  *)
(* one process, with a history variable.  The windows of the code are      *)
(* fixed, not sliding, and a lease is charged when it ends and not when it *)
(* is given, so what the limit bounds over any stretch of time is not      *)
(* plain from the code.                                                    *)
(***************************************************************************)
EXTENDS LoginAdmission, Functions

OneProcess == ~Shared

VARIABLE guesses   \* history: account -> age in ticks -> leases given that long ago
gvars == <<failures, attempts, request, guesses>>

Ages == 0 .. Window - 1
NoGuess == [age \in Ages |-> 0]

\* A lease that is given is a guess.
Guess(r) ==
  guesses' = IF request'[r].phase = "verify" THEN [guesses EXCEPT ![request[r].account][0] = @ + 1]
             ELSE guesses

\* The leases of an account that were given some ticks ago and are still out.
Out(table, a, age) ==
  {l \in Leases : table[l] # None /\ table[l].account = a /\ table[l].left = Window - age}

\* A right answer in time makes the guesses before it its owner's, but for those still
\* under way; a lease released without a verdict was no guess.
Judge(r) ==
  LET lease == attempts[request[r].lease]
      outcome == request[r].outcome
  IN  guesses' = IF lease = None \/ lease.left <= 0 \/ outcome = "wrong" THEN guesses
                 ELSE IF outcome = "right"
                 THEN [guesses EXCEPT ![lease.account] =
                         [age \in Ages |-> Cardinality(Out(attempts', lease.account, age))]]
                 ELSE [guesses EXCEPT ![lease.account][Window - lease.left] = @ - 1]

GInit == Init /\ guesses = [a \in Accounts |-> NoGuess]
GNext ==
  \/ \E r \in Requests :
       \/ \E a \in Accounts, s \in Sources : Arrive(r, a, s) /\ UNCHANGED guesses
       \/ BeginLogin(r) /\ Guess(r)
       \/ \E o \in {"right", "wrong", "none"} : Verify(r, o) /\ UNCHANGED guesses
       \/ FinishLogin(r) /\ Judge(r)
       \/ Die(r) /\ guesses' = [a \in Accounts |-> NoGuess]
  \/ Tick /\ guesses' = [a \in Accounts |-> [g \in Ages |-> IF g = 0 THEN 0 ELSE guesses[a][g - 1]]]
GSpec == GInit /\ [][GNext]_gvars

\* Within any Window ticks an account gives out fewer leases than twice its limit,
\* counted since its last right answer, over the end of one failure window and the
\* start of the next and however long each verification takes.
GuessBound ==
  \A a \in Accounts : SumFunctionOnSet(guesses[a], Ages) <= 2 * AccountLimit - 1

\* What callers can do to one process: neither guess more than that, nor have it
\* track more keys than MAX_TRACKED_LOGIN_KEYS.
GuessesAreBounded == GuessBound /\ TrackedBound
=============================================================================
