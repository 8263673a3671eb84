------------------------- MODULE ProxyRotatorProofs -------------------------
(***************************************************************************)
(* The rotator's promises for any number of proxies and threads, any       *)
(* cooldown and any interleaving.                                          *)
(***************************************************************************)
EXTENDS ProxyRotator, FiniteSetTheorems, WellFoundedInduction, TLAPS

LEMMA ProxiesFinite == IsFiniteSet(Proxies) /\ Cardinality(Proxies) = N
<1>1. /\ IsFiniteSet(0..(N - 1))
      /\ Cardinality(0..(N - 1)) = IF 0 > N - 1 THEN 0 ELSE (N - 1) - 0 + 1
  BY RotatorAssumption, FS_Interval
<1>2. QED
  BY <1>1, RotatorAssumption DEF Proxies

\* The proxy after the last one is the first.
LEMMA FollowingIs ==
    ASSUME NEW p \in Proxies
    PROVE  Following(p) = IF p = N - 1 THEN 0 ELSE p + 1
<1>1. CASE p = N - 1
  BY <1>1, RotatorAssumption DEF Following, Proxies
<1>2. CASE p # N - 1
  BY <1>2, RotatorAssumption DEF Following, Proxies
<1>3. QED
  BY <1>1, <1>2

LEMMA DistanceNat ==
    ASSUME NEW s \in Proxies, NEW p \in Proxies
    PROVE  Distance(s, p) \in Nat
BY RotatorAssumption DEF Distance, Proxies

LEMMA SmallestOfNat ==
    ASSUME NEW D \in SUBSET Nat, D # {}
    PROVE  \E d \in D : \A e \in D : d <= e
<1>1. PICK d \in D : \A e \in D : <<e, d>> \notin OpToRel(<, Nat)
  BY WFMin, NatLessThanWellFounded, Zenon
<1>2. \A e \in D : ~(e < d)
  BY <1>1, Zenon DEF OpToRel
<1> HIDE <1>1
<1>3. \A e \in D : d <= e
  BY <1>2, SMT
<1>4. QED
  BY <1>3, Zenon

\* The proxy a thread tries next is one of its candidates.
LEMMA CurrentIsLeft ==
    ASSUME NEW w \in Workers, req \in [Workers -> Request], req[w].left # {}
    PROVE  Current(w) \in req[w].left /\ Current(w) \in Proxies
<1> DEFINE start == req[w].start
           left == req[w].left
           D == {Distance(start, p) : p \in left}
<1>1. start \in Proxies /\ left \subseteq Proxies
  BY DEF Request
<1>2. D \in SUBSET Nat /\ D # {}
  BY <1>1, DistanceNat
<1>3. PICK d \in D : \A e \in D : d <= e
  BY <1>2, SmallestOfNat
<1>4. PICK p \in left : d = Distance(start, p)
  BY <1>3
<1>5. \A q \in left : Distance(start, p) <= Distance(start, q)
  BY <1>3, <1>4
<1>6. QED
  BY <1>1, <1>5 DEF Current

LEMMA FirstAliveFinite ==
    ASSUME NEW start
    PROVE  FirstAlive(start) \subseteq Proxies /\ IsFiniteSet(FirstAlive(start))
BY ProxiesFinite, FS_Subset DEF FirstAlive

\* A proxy that is not cooling down is left out only for MAX_ATTEMPTS others.
LEMMA EnoughAlive ==
    ASSUME NEW start \in Proxies, NEW p \in Proxies, Alive(p), p \notin FirstAlive(start)
    PROVE  Cardinality(FirstAlive(start)) >= MaxAttempts
<1> DEFINE F == FirstAlive(start)
           Out == {q \in Proxies : Alive(q) /\ q \notin F}
           D == {Distance(start, q) : q \in Out}
           Before(q) == {u \in Proxies : Alive(u) /\ Distance(start, u) < Distance(start, q)}
<1>1. p \in Out
  OBVIOUS
<1>2. D \in SUBSET Nat /\ D # {}
  <2>1. \A q \in Out : Distance(start, q) \in Nat
    BY DistanceNat
  <2>2. QED
    BY <1>1, <2>1
<1>3. PICK d \in D : \A e \in D : d <= e
  <2> HIDE DEF D
  <2>1. QED
    BY <1>2, SmallestOfNat
<1>4. PICK c \in Out : d = Distance(start, c)
  BY <1>3
<1>5. \A q \in Out : Distance(start, c) <= Distance(start, q)
  BY <1>3, <1>4
<1>6. Before(c) \subseteq F
  <2> SUFFICES ASSUME NEW u \in Proxies, Alive(u), Distance(start, u) < Distance(start, c), u \notin F
               PROVE  FALSE
    OBVIOUS
  <2>1. u \in Out
    OBVIOUS
  <2>2. Distance(start, c) <= Distance(start, u)
    BY <1>5, <2>1
  <2>3. Distance(start, c) \in Nat /\ Distance(start, u) \in Nat
    BY <1>4, DistanceNat
  <2>4. QED
    BY <2>2, <2>3
<1>7. /\ Cardinality(Before(c)) <= Cardinality(F)
      /\ Cardinality(Before(c)) \in Nat /\ Cardinality(F) \in Nat
  <2>1. IsFiniteSet(F) /\ IsFiniteSet(Before(c))
    BY <1>6, FirstAliveFinite, FS_Subset
  <2> HIDE DEF F, Before
  <2>2. QED
    BY <1>6, <2>1, FS_Subset, FS_CardinalityType
<1>8. ~(Cardinality(Before(c)) < MaxAttempts)
  BY <1>4 DEF FirstAlive
<1>9. QED
  <2> HIDE DEF Before
  <2>1. QED
    BY <1>7, <1>8, RotatorAssumption

-----------------------------------------------------------------------------
(* The inductive invariant *)

\* Counted from the proxy that is next.
TurnInv == \A p \in Proxies : waited[p] = IF p < next THEN next - 1 - p ELSE N + next - 1 - p

ClockInv ==
    /\ \A p \in Proxies : failedAt[p] <= clock
    /\ \A w \in Workers : req[w].asked <= clock

\* A thread's own failures are on record, and none concerns a proxy that is
\* still on its list.
ListInv ==
    \A w \in Workers : \A p \in Proxies :
        /\ lastFail[w][p] <= failedAt[p]
        /\ req[w].sending /\ p \in req[w].left => req[w].asked - lastFail[w][p] >= Cooldown

RotatorInv == TypeOK /\ TurnInv /\ ClockInv /\ ListInv

LEMMA RotatorInit == Init => RotatorInv
BY RotatorAssumption
DEF Init, RotatorInv, TypeOK, TurnInv, ClockInv, ListInv, Idle, Request, Never, Times, Proxies

LEMMA RotatorStep == RotatorInv /\ [Next]_vars => RotatorInv'
<1> SUFFICES ASSUME RotatorInv, [Next]_vars PROVE RotatorInv'
  OBVIOUS
<1>0. /\ N \in Nat \ {0} /\ Cooldown \in Nat \ {0} /\ Proxies \subseteq Nat
      /\ 0 \in Proxies /\ \A p \in Proxies : p < N /\ p \in Nat
  BY RotatorAssumption DEF Proxies
<1>1. ASSUME NEW w \in Workers, Ask(w)
      PROVE  RotatorInv'
  <2> DEFINE r == [sending |-> TRUE, start |-> next, left |-> FirstAlive(next), asked |-> clock, tried |-> {}]
  <2>1. r \in Request
    BY DEF RotatorInv, TypeOK, Request, FirstAlive
  <2>2. req' = [req EXCEPT ![w] = r] /\ UNCHANGED <<failedAt, clock, lastFail>>
    BY <1>1 DEF Ask
  <2>3. next \in Proxies /\ next' = IF next = N - 1 THEN 0 ELSE next + 1
    BY <1>1, FollowingIs DEF Ask, RotatorInv, TypeOK
  <2>4. next' \in Proxies
    BY <1>0, <2>3 DEF Proxies
  <2>5. /\ waited \in [Proxies -> Nat]
        /\ waited' = [p \in Proxies |-> IF p = next THEN 0 ELSE waited[p] + 1]
    BY <1>1 DEF Ask, RotatorInv, TypeOK
  <2>6. TurnInv'
    BY <1>0, <2>3, <2>5 DEF RotatorInv, TurnInv
  <2>7. TypeOK'
    BY <2>1, <2>2, <2>4, <2>5 DEF RotatorInv, TypeOK
  <2>8. r.asked = clock /\ r.left = FirstAlive(next) /\ r.sending
    OBVIOUS
  <2>9. ClockInv'
    BY <2>2, <2>8 DEF RotatorInv, ClockInv, TypeOK
  <2>10. \A p \in FirstAlive(next) : clock - lastFail[w][p] >= Cooldown
    <3> SUFFICES ASSUME NEW p \in FirstAlive(next)
                 PROVE  clock - lastFail[w][p] >= Cooldown
      OBVIOUS
    <3>1. p \in Proxies /\ clock - failedAt[p] >= Cooldown
      BY DEF FirstAlive, Alive
    <3>2. lastFail[w][p] <= failedAt[p]
      BY <3>1 DEF RotatorInv, ListInv
    <3>3. failedAt[p] \in Int /\ lastFail[w][p] \in Int /\ clock \in Int
      BY <1>0, <3>1 DEF RotatorInv, TypeOK, Times, Never
    <3>4. QED
      BY <1>0, <3>1, <3>2, <3>3
  <2> HIDE DEF r
  <2>11. ListInv'
    BY <2>2, <2>8, <2>10 DEF RotatorInv, ListInv, TypeOK
  <2>12. QED
    BY <2>6, <2>7, <2>9, <2>11 DEF RotatorInv
<1>2. ASSUME NEW w \in Workers, TryNext(w)
      PROVE  RotatorInv'
  <2>1. PICK c \in Proxies : c = Current(w) /\ c \in req[w].left
    BY <1>2, CurrentIsLeft DEF TryNext, RotatorInv, TypeOK
  <2>2. /\ req[w].sending
        /\ failedAt' = [failedAt EXCEPT ![c] = clock]
        /\ lastFail' = [lastFail EXCEPT ![w][c] = clock]
        /\ req' = [req EXCEPT ![w].left = @ \ {c}, ![w].tried = @ \cup {c}]
        /\ UNCHANGED <<next, clock, waited>>
    BY <1>2, <2>1 DEF TryNext, Reported
  <2>3. TypeOK'
    <3> DEFINE r == [req[w] EXCEPT !.left = @ \ {c}, !.tried = @ \cup {c}]
    <3>1. r \in Request /\ req' = [req EXCEPT ![w] = r]
      BY <2>1, <2>2 DEF RotatorInv, TypeOK, Request
    <3>2. req' \in [Workers -> Request]
      BY <3>1 DEF RotatorInv, TypeOK
    <3>3. QED
      BY <2>1, <2>2, <3>2 DEF RotatorInv, TypeOK, Times
  <2>4. TurnInv' /\ ClockInv'
    BY <2>2 DEF RotatorInv, TypeOK, TurnInv, ClockInv
  <2>5. ListInv'
    <3> SUFFICES ASSUME NEW v \in Workers, NEW p \in Proxies
                 PROVE  /\ lastFail'[v][p] <= failedAt'[p]
                        /\ req'[v].sending /\ p \in req'[v].left =>
                              req'[v].asked - lastFail'[v][p] >= Cooldown
      BY DEF ListInv
    <3>1. /\ failedAt'[p] = IF p = c THEN clock ELSE failedAt[p]
          /\ lastFail'[v][p] = IF v = w /\ p = c THEN clock ELSE lastFail[v][p]
          /\ req'[v].sending = req[v].sending /\ req'[v].asked = req[v].asked
          /\ req'[v].left = IF v = w THEN req[v].left \ {c} ELSE req[v].left
      BY <2>1, <2>2 DEF RotatorInv, TypeOK, Request
    <3>2. /\ lastFail[v][p] <= failedAt[p] /\ failedAt[p] <= clock
          /\ req[v].sending /\ p \in req[v].left => req[v].asked - lastFail[v][p] >= Cooldown
      BY DEF RotatorInv, ListInv, ClockInv
    <3>3. failedAt[p] \in Int /\ lastFail[v][p] \in Int /\ clock \in Int
      BY <1>0 DEF RotatorInv, TypeOK, Times, Never
    <3>4. lastFail'[v][p] <= failedAt'[p]
      BY <3>1, <3>2, <3>3
    <3>5. QED
      BY <3>1, <3>2, <3>4
  <2>6. QED
    BY <2>3, <2>4, <2>5 DEF RotatorInv
<1>3. ASSUME NEW w \in Workers, End(w)
      PROVE  RotatorInv'
  <2>1. req' = [req EXCEPT ![w] = Idle] /\ UNCHANGED <<next, failedAt, clock, waited, lastFail>>
    BY <1>3 DEF End
  <2>2. Idle \in Request /\ Idle.asked = 0 /\ ~Idle.sending
    BY <1>0 DEF Idle, Request
  <2>3. QED
    BY <2>1, <2>2 DEF RotatorInv, TypeOK, TurnInv, ClockInv, ListInv
<1>4. ASSUME Tick
      PROVE  RotatorInv'
  <2>1. clock \in Nat /\ clock' = clock + 1 /\ UNCHANGED <<next, failedAt, req, waited, lastFail>>
    BY <1>4 DEF Tick, RotatorInv, TypeOK
  <2>2. TypeOK' /\ TurnInv' /\ ListInv'
    BY <2>1 DEF RotatorInv, TypeOK, TurnInv, ListInv
  <2>3. ClockInv'
    <3>1. /\ \A p \in Proxies : failedAt[p] \in Int
          /\ \A w \in Workers : req[w].asked \in Int
      BY <1>0 DEF RotatorInv, TypeOK, Times, Never, Request
    <3>2. QED
      BY <2>1, <3>1 DEF RotatorInv, ClockInv
  <2>4. QED
    BY <2>2, <2>3 DEF RotatorInv
<1>5. ASSUME UNCHANGED vars
      PROVE  RotatorInv'
  BY <1>5 DEF vars, RotatorInv, TypeOK, TurnInv, ClockInv, ListInv
<1>6. QED
  BY <1>1, <1>2, <1>3, <1>4, <1>5 DEF Next

-----------------------------------------------------------------------------
(* Theorems *)

\* The rotator and its requests keep their types.
THEOREM TypeCorrect == Spec => []TypeOK
<1>1. RotatorInv => TypeOK
  BY DEF RotatorInv
<1>2. QED
  BY <1>1, RotatorInit, RotatorStep, PTL DEF Spec

\* Whatever the threads, any N requests in a row begin their rounds at N
\* different proxies.
THEOREM EvenRotationTheorem == Spec => []EvenRotation
<1>1. RotatorInv => EvenRotation
  BY RotatorAssumption DEF RotatorInv, TypeOK, TurnInv, EvenRotation, Proxies
<1>2. QED
  BY <1>1, RotatorInit, RotatorStep, PTL DEF Spec

\* No thread runs into the same dead proxy twice within one cooldown.
THEOREM NoHammeringTheorem == Spec => NoHammering
<1> DEFINE Rests == \A w \in Workers :
                       TryNext(w) => clock - lastFail[w][Current(w)] >= Cooldown
<1>1. RotatorInv => Rests
  <2> SUFFICES ASSUME RotatorInv, NEW w \in Workers, TryNext(w)
               PROVE  clock - lastFail[w][Current(w)] >= Cooldown
    OBVIOUS
  <2>1. PICK c \in Proxies : c = Current(w) /\ c \in req[w].left
    BY CurrentIsLeft DEF TryNext, RotatorInv, TypeOK
  <2>2. req[w].asked - lastFail[w][c] >= Cooldown /\ req[w].asked <= clock
    BY <2>1 DEF TryNext, RotatorInv, ListInv, ClockInv
  <2>3. /\ lastFail[w][c] \in Int /\ req[w].asked \in Int
        /\ clock \in Int /\ Cooldown \in Int
    BY RotatorAssumption, <2>1 DEF RotatorInv, TypeOK, Times, Never, Request
  <2>4. clock - lastFail[w][c] >= Cooldown
    BY <2>2, <2>3
  <2>5. QED
    BY <2>1, <2>4
<1>2. QED
  BY <1>1, RotatorInit, RotatorStep, PTL DEF Spec, NoHammering

\* However many proxies there are, a request that goes out directly has failed
\* through MAX_ATTEMPTS of them itself, or each was cooling down when it was made
\* or has failed since.
THEOREM DirectComesLastTheorem == Spec => []DirectComesLast
<1> DEFINE Resting(w, p) == failedAt[p] > req[w].asked - Cooldown
           Enough(w) == Cardinality(req[w].left \cup req[w].tried) >= MaxAttempts
           Tried == \A w \in Workers : req[w].sending =>
                       \/ Enough(w)
                       \/ \A p \in Proxies : p \in req[w].left \/ Resting(w, p)
           Inv == RotatorInv /\ Tried
<1>1. Init => Inv
  BY RotatorInit DEF Init, Idle
<1>2. Inv /\ [Next]_vars => Inv'
  <2> SUFFICES ASSUME Inv, [Next]_vars PROVE Tried'
    BY RotatorStep
  <2>0. /\ Cooldown \in Nat \ {0} /\ clock \in Nat
        /\ \A p \in Proxies : failedAt[p] \in Int /\ failedAt[p] <= clock
        /\ \A w \in Workers : req[w].asked \in Int /\ req[w].asked <= clock
    BY RotatorAssumption DEF RotatorInv, TypeOK, ClockInv, Times, Never, Request
  <2>1. ASSUME NEW u \in Workers, Ask(u)
        PROVE  Tried'
    <3> DEFINE r == [sending |-> TRUE, start |-> next, left |-> FirstAlive(next), asked |-> clock, tried |-> {}]
    <3>1. req' = [req EXCEPT ![u] = r] /\ failedAt' = failedAt /\ next \in Proxies
      BY <2>1 DEF Ask, RotatorInv, TypeOK
    <3>2. \/ Cardinality(r.left \cup r.tried) >= MaxAttempts
          \/ \A p \in Proxies : p \in r.left \/ failedAt[p] > r.asked - Cooldown
      <4>1. r.left \cup r.tried = FirstAlive(next) /\ r.left = FirstAlive(next) /\ r.asked = clock
        OBVIOUS
      <4>2. ASSUME NEW p \in Proxies, p \notin FirstAlive(next), ~(failedAt[p] > clock - Cooldown)
            PROVE  Cardinality(FirstAlive(next)) >= MaxAttempts
        <5>1. Alive(p)
          BY <2>0, <4>2 DEF Alive
        <5>2. QED
          BY <3>1, <4>2, <5>1, EnoughAlive
      <4> HIDE DEF r
      <4>3. QED
        BY <4>1, <4>2
    <3> HIDE DEF r
    <3>3. QED
      BY <3>1, <3>2 DEF RotatorInv, TypeOK
  <2>2. ASSUME NEW u \in Workers, TryNext(u)
        PROVE  Tried'
    <3>1. PICK c \in Proxies : c = Current(u) /\ c \in req[u].left
      BY <2>2, CurrentIsLeft DEF TryNext, RotatorInv, TypeOK
    <3>2. /\ failedAt' = [failedAt EXCEPT ![c] = clock]
          /\ req' = [req EXCEPT ![u].left = @ \ {c}, ![u].tried = @ \cup {c}]
      BY <2>2, <3>1 DEF TryNext, Reported
    <3>3. /\ \A p \in Proxies : failedAt'[p] = IF p = c THEN clock ELSE failedAt[p]
          /\ \A w \in Workers : /\ req'[w].sending = req[w].sending
                                /\ req'[w].asked = req[w].asked
                                /\ req'[w].left = IF w = u THEN req[w].left \ {c} ELSE req[w].left
                                /\ req'[w].tried = IF w = u THEN req[w].tried \cup {c} ELSE req[w].tried
      BY <3>1, <3>2 DEF RotatorInv, TypeOK, Request
    <3>4. \A w \in Workers : req'[w].left \cup req'[w].tried = req[w].left \cup req[w].tried
      BY <3>1, <3>3
    <3>5. \A w \in Workers : clock > req[w].asked - Cooldown
      BY <2>0
    <3> SUFFICES ASSUME NEW w \in Workers, req[w].sending, ~Enough(w), NEW p \in Proxies
                 PROVE  p \in req'[w].left \/ failedAt'[p] > req'[w].asked - Cooldown
      BY <3>3, <3>4
    <3>6. p \in req[w].left \/ failedAt[p] > req[w].asked - Cooldown
      OBVIOUS
    <3>7. QED
      BY <3>3, <3>5, <3>6
  <2>3. ASSUME NEW u \in Workers, End(u)
        PROVE  Tried'
    BY <2>3 DEF End, Idle, RotatorInv, TypeOK
  <2>4. CASE Tick \/ UNCHANGED vars
    BY <2>4 DEF Tick, vars
  <2>5. QED
    BY <2>1, <2>2, <2>3, <2>4 DEF Next
<1>3. Inv => DirectComesLast
  <2> SUFFICES ASSUME Inv, NEW w \in Workers, GoesDirect(w)
               PROVE  Cardinality(req[w].tried) >= MaxAttempts \/ NoneWorks(w)
    BY DEF DirectComesLast
  <2>1. req[w].sending /\ req[w].left \cup req[w].tried = req[w].tried
    BY DEF GoesDirect
  <2>2. Enough(w) \/ \A p \in Proxies : Resting(w, p)
    BY <2>1 DEF GoesDirect
  <2>3. QED
    BY <2>1, <2>2 DEF NoneWorks
<1>4. QED
  BY <1>1, <1>2, <1>3, PTL DEF Spec

=============================================================================
