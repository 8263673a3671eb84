---------------------------- MODULE LoginLimiter ----------------------------
(***************************************************************************)
(* POST /api/login (app/web_auth.py) and the limiter of wrong passwords    *)
(* (app/auth.py).                                                          *)
(*                                                                         *)
(* The handler awaits nothing, so a login is one step; time goes on        *)
(* between logins.                                                         *)
(***************************************************************************)
EXTENDS Integers, Sequences, FiniteSets, SequencesExt

CONSTANTS Addresses,
          MaxFailures,
          Window,
          MaxNow       \* bound on the time

\* What is assumed of the constants.
LimiterAssumption == MaxFailures \in Nat \ {0} /\ Window \in Nat \ {0} /\ MaxNow \in Nat

VARIABLES now,
          failures,    \* LoginLimiter._failures; a key without entry has <<>>
          keys,        \* its keys
          wrong,       \* history variable: when a wrong password of each address
                       \* was compared, since its last login
          forgotten,   \* history variable: the same, between its last two logins
          called       \* history variable: when the handler ran last

limiterVars == <<now, failures, keys, wrong, forgotten, called>>

LimiterTypeOK ==
    /\ now \in 0..MaxNow /\ called \in 0..now
    /\ keys \subseteq Addresses
    /\ \A k \in Addresses : \A i \in DOMAIN failures[k] : failures[k][i] \in 0..MaxNow

Init ==
    /\ now = 0 /\ called = 0
    /\ failures = [k \in Addresses |-> <<>>]
    /\ keys = {}
    /\ wrong = [k \in Addresses |-> <<>>]
    /\ forgotten = [k \in Addresses |-> <<>>]

\* Mutant of Stale: a key goes with its first failure.
StaleByFirst(k) == failures[k] # <<>> /\ Head(failures[k]) <= now - Window

Stale(k) == failures[k] # <<>> /\ Last(failures[k]) <= now - Window

\* The failures at the front of the queue of k that have left the window.
Old(k) == {i \in DOMAIN failures[k] : \A j \in 1..i : failures[k][j] <= now - Window}

\* What _recent leaves of the failures of k.
Recent(k) ==
    IF Stale(k) THEN <<>>
    ELSE SubSeq(failures[k], Cardinality(Old(k)) + 1, Len(failures[k]))

Blocked(k) == Len(Recent(k)) >= MaxFailures

\* Every call goes through the keys and drops the stale ones.
Keep(k, list) ==
    /\ keys' = {j \in keys : ~Stale(j)} \cup {k}
    /\ failures' = [j \in Addresses |-> IF j = k THEN list ELSE IF Stale(j) THEN <<>> ELSE failures[j]]

Refuse(k) ==
    /\ Blocked(k)
    /\ Keep(k, Recent(k))
    /\ called' = now
    /\ UNCHANGED <<now, wrong, forgotten>>

WrongPassword(k) ==
    /\ ~Blocked(k)
    /\ Keep(k, Append(Recent(k), now))
    /\ wrong' = [wrong EXCEPT ![k] = Append(@, now)]
    /\ called' = now
    /\ UNCHANGED <<now, forgotten>>

\* The admin's password or the team's: reset takes the failures of the address.
Login(k) ==
    /\ ~Blocked(k)
    /\ keys' = {j \in keys : ~Stale(j)} \ {k}
    /\ failures' = [j \in Addresses |-> IF j = k \/ Stale(j) THEN <<>> ELSE failures[j]]
    /\ wrong' = [wrong EXCEPT ![k] = <<>>]
    /\ forgotten' = [forgotten EXCEPT ![k] = wrong[k]]
    /\ called' = now
    /\ UNCHANGED now

Tick ==
    /\ now < MaxNow
    /\ now' = now + 1
    /\ UNCHANGED <<failures, keys, wrong, forgotten, called>>

Next ==
    \/ \E k \in Addresses : Refuse(k) \/ WrongPassword(k) \/ Login(k)
    \/ Tick

Spec == Init /\ [][Next]_limiterVars

-----------------------------------------------------------------------------
(* Properties *)

\* Of guesses, MaxFailures + 1 in a row take longer than the window.
Bounded(guesses) ==
    \A i \in DOMAIN guesses :
        i + MaxFailures \in DOMAIN guesses => guesses[i + MaxFailures] - guesses[i] >= Window

\* From one login of an address to its next, no window holds more than
\* MaxFailures wrong passwords of it, wherever the window lies.
GuessesAreBounded == \A k \in Addresses : Bounded(wrong[k])

\* "At most max_failures wrong passwords per key within window seconds"
\* (auth.py:65), whoever logs in meanwhile.  Violated: reset forgets them.
EveryWindowIsBounded == \A k \in Addresses : Bounded(forgotten[k] \o wrong[k])

\* "A flood cannot grow the dict forever" (auth.py:80): a key is kept for its
\* failures only, and after a login of anybody only for recent ones.
KeysAreDropped ==
    \A k \in keys : failures[k] # <<>> /\ Last(failures[k]) > called - Window

\* The limiter stops guessing, but for its logins, and does not grow.
LimiterHolds == LimiterTypeOK /\ GuessesAreBounded /\ KeysAreDropped

=============================================================================
