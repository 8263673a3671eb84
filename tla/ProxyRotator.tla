---------------------------- MODULE ProxyRotator ----------------------------
(***************************************************************************)
(* One ProxyRotator and the parser threads that send through it            *)
(* (bank_api_parser/proxy.py; the Alfa parser uses a thread pool).         *)
(*                                                                         *)
(* A proxy is its position in the rotator's list: the list never changes   *)
(* and the table it comes from keeps urls unique (migration 005).          *)
(* candidates and report_failure hold the rotator's lock and read the      *)
(* clock inside it, so each is one action; a request through a proxy takes *)
(* any time, and a thread goes on with the list it was given.              *)
(***************************************************************************)
EXTENDS Integers, FiniteSets

CONSTANTS N,            \* number of proxies
          Workers,      \* threads that send requests
          Cooldown,     \* COOLDOWN, in ticks of the clock
          MaxAttempts,  \* MAX_ATTEMPTS
          MaxTime       \* bound: ticks of the clock

ASSUME RotatorAssumption ==
    /\ N \in Nat \ {0}             \* make_adapter leaves an empty rotator out
    /\ Cooldown \in Nat \ {0}
    /\ MaxAttempts \in Nat \ {0}
    /\ MaxTime \in Nat

Proxies == 0..(N - 1)

VARIABLES next,      \* _next
          failedAt,  \* _failed_at; -Cooldown for a proxy that is not in it
          clock,
          req,       \* req[w]: the request thread w is sending
          waited,    \* history variable: requests since the last one that
                     \* began its round at p
          lastFail   \* history variable: when w last failed to send through p

vars == <<next, failedAt, clock, req, waited, lastFail>>

\* left: the candidates not yet tried; asked: when candidates() was called;
\* tried: the candidates that failed, a history variable.
Request ==
    [sending: BOOLEAN, start: Proxies, left: SUBSET Proxies, asked: Nat, tried: SUBSET Proxies]

Idle == [sending |-> FALSE, start |-> 0, left |-> {}, asked |-> 0, tried |-> {}]

Never == -Cooldown

Times == Nat \cup {Never}

TypeOK ==
    /\ next \in Proxies
    /\ failedAt \in [Proxies -> Times]
    /\ clock \in Nat
    /\ req \in [Workers -> Request]
    /\ waited \in [Proxies -> Nat]
    /\ lastFail \in [Workers -> [Proxies -> Times]]

Init ==
    /\ next = 0
    /\ failedAt = [p \in Proxies |-> Never]
    /\ clock = 0
    /\ req = [w \in Workers |-> Idle]
    /\ waited = [p \in Proxies |-> N - 1 - p]   \* as after a full turn
    /\ lastFail = [w \in Workers |-> [p \in Proxies |-> Never]]

-----------------------------------------------------------------------------
(* candidates *)

\* How far p is from the position a round starts at.
Distance(start, p) == (p + N - start) % N

Alive(p) == clock - failedAt[p] >= Cooldown

\* Mutant of FirstAlive: one attempt less.
FirstAliveButOne(start) ==
    {p \in Proxies : /\ Alive(p)
                     /\ Cardinality({q \in Proxies : Alive(q) /\ Distance(start, q) < Distance(start, p)})
                           < MaxAttempts - 1}

\* alive[: max_attempts], in the order that starts at start.
FirstAlive(start) ==
    {p \in Proxies : /\ Alive(p)
                     /\ Cardinality({q \in Proxies : Alive(q) /\ Distance(start, q) < Distance(start, p)})
                           < MaxAttempts}

\* Mutant of Following: the next round starts at the same proxy again.
FollowingStuck(start) == start

Following(start) == (start + 1) % N

\* send calls candidates().
Ask(w) ==
    /\ ~req[w].sending
    /\ req' = [req EXCEPT ![w] = [sending |-> TRUE, start |-> next,
                                  left |-> FirstAlive(next), asked |-> clock,
                                  tried |-> {}]]
    /\ next' = Following(next)
    /\ waited' = [p \in Proxies |-> IF p = next THEN 0 ELSE waited[p] + 1]
    /\ UNCHANGED <<failedAt, clock, lastFail>>

-----------------------------------------------------------------------------
(* send *)

Current(w) ==
    CHOOSE p \in req[w].left :
        \A q \in req[w].left : Distance(req[w].start, p) <= Distance(req[w].start, q)

\* Mutant of Reported: a failure that is on record is not recorded again.
ReportedOnce(p) == IF failedAt[p] = Never THEN [failedAt EXCEPT ![p] = clock] ELSE failedAt

Reported(p) == [failedAt EXCEPT ![p] = clock]

\* The proxy does not connect or does not answer: report_failure, try the next.
TryNext(w) ==
    /\ req[w].sending /\ req[w].left # {}
    /\ failedAt' = Reported(Current(w))
    /\ lastFail' = [lastFail EXCEPT ![w][Current(w)] = clock]
    /\ req' = [req EXCEPT ![w].left = @ \ {Current(w)}, ![w].tried = @ \cup {Current(w)}]
    /\ UNCHANGED <<next, clock, waited>>

\* An answer arrives, or an error that is not the proxy's; through a proxy or,
\* when no candidate is left, directly.
End(w) ==
    /\ req[w].sending
    /\ req' = [req EXCEPT ![w] = Idle]
    /\ UNCHANGED <<next, failedAt, clock, waited, lastFail>>

Tick ==
    /\ clock < MaxTime
    /\ clock' = clock + 1
    /\ UNCHANGED <<next, failedAt, req, waited, lastFail>>

Next ==
    \/ \E w \in Workers : Ask(w) \/ TryNext(w) \/ End(w)
    \/ Tick

Spec == Init /\ [][Next]_vars

-----------------------------------------------------------------------------
(* Properties *)

GoesDirect(w) == req[w].sending /\ req[w].left = {}

\* Every proxy was cooling down when w made its request, or has failed since.
NoneWorks(w) == \A p \in Proxies : failedAt[p] > req[w].asked - Cooldown

\* "When no proxy works, the request goes out directly" (proxy.py:6, README.md:16)
\* and only then.  The code does not have this: with more than MAX_ATTEMPTS
\* proxies a request goes out directly although one that was not tried works.
DirectIsLastResort ==
    \A w \in Workers : GoesDirect(w) => NoneWorks(w)

\* "proxies tried per request before going direct" (proxy.py:24): whatever other
\* threads report and however many proxies are cooling down, a request that goes
\* out directly has failed through MAX_ATTEMPTS of them itself or none was left.
DirectComesLast ==
    \A w \in Workers :
        GoesDirect(w) => Cardinality(req[w].tried) >= MaxAttempts \/ NoneWorks(w)

\* Threads go on with lists in which a proxy may have failed for somebody else
\* in the meantime.  Still no thread runs into the same dead proxy twice within
\* one cooldown.
NoHammering ==
    [][\A w \in Workers : TryNext(w) => clock - lastFail[w][Current(w)] >= Cooldown]_vars

\* "Every request goes through the next proxy in turn" (README.md:16): whatever
\* the threads, of any N requests in a row each proxy begins the round of one.
EvenRotation ==
    \A p \in Proxies : waited[p] < N

=============================================================================
