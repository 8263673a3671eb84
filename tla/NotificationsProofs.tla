------------------------- MODULE NotificationsProofs -------------------------
(***************************************************************************)
(* Theorems about Notifications.                                           *)
(*                                                                         *)
(* About TelegramBot, for any chats, any number of parts and of attempts,  *)
(* and every combination of faults: the invariants say of one job what its *)
(* record r and the inboxes b of the chats have to do with each other, so  *)
(* that a step of the record is a lemma about two records and every action *)
(* cites the one it needs.                                                 *)
(*                                                                         *)
(* About DigestText, for any limits and any changes: the messages so far,  *)
(* the one that is being filled included, are a chain of lines without a   *)
(* gap that has come to the piece that is next.                            *)
(***************************************************************************)
EXTENDS Notifications, Integers, SequencesExt, FiniteSetTheorems, SequenceTheorems,
        WellFoundedInduction, TLAPS

-----------------------------------------------------------------------------
(* What a sequence of messages has in it *)

Values(s) == {s[i] : i \in 1..Len(s)}

Count(s, p) == Cardinality({i \in 1..Len(s) : s[i] = p})

LEMMA EmptyFacts == \A p : Values(<<>>) = {} /\ Count(<<>>, p) = 0
<1>1. {i \in 1..0 : TRUE} = {}
  OBVIOUS
<1>2. ASSUME NEW p PROVE Values(<<>>) = {} /\ Count(<<>>, p) = 0
  <2>1. {i \in 1..Len(<<>>) : <<>>[i] = p} = {}
    OBVIOUS
  <2>2. QED
    BY <2>1, FS_EmptySet DEF Values, Count
<1>3. QED
  BY <1>2

LEMMA CountType ==
    ASSUME NEW S, NEW s \in Seq(S), NEW p
    PROVE  Count(s, p) \in Nat /\ (p \notin Values(s) => Count(s, p) = 0)
<1> DEFINE P == {i \in 1..Len(s) : s[i] = p}
<1>1. Len(s) \in Nat /\ IsFiniteSet(1..Len(s))
  BY FS_Interval
<1>2. P \in SUBSET (1..Len(s))
  OBVIOUS
<1> HIDE DEF P
<1>3. Cardinality(P) \in Nat
  BY <1>1, <1>2, FS_Subset, FS_CardinalityType
<1>4. p \notin Values(s) => P = {}
  BY DEF P, Values
<1>5. QED
  BY <1>3, <1>4, FS_EmptySet DEF P, Count

LEMMA AppendFacts ==
    ASSUME NEW S, NEW s \in Seq(S), NEW e \in S
    PROVE  /\ Append(s, e) \in Seq(S)
           /\ Values(Append(s, e)) = Values(s) \cup {e}
           /\ Count(Append(s, e), e) = Count(s, e) + 1
           /\ \A p : p # e => Count(Append(s, e), p) = Count(s, p)
<1> DEFINE t == Append(s, e)
           n == Len(s)
<1>1. /\ n \in Nat /\ t \in Seq(S) /\ Len(t) = n + 1 /\ t[n + 1] = e
      /\ \A i \in 1..n : t[i] = s[i]
  OBVIOUS
<1> HIDE DEF t, n
<1>2. 1..(n + 1) = (1..n) \cup {n + 1}
  BY <1>1
<1>3. Values(t) = Values(s) \cup {e}
  BY <1>1, <1>2 DEF Values, n
<1>4. Count(t, e) = Count(s, e) + 1
  <2>1. {i \in 1..Len(t) : t[i] = e} = {i \in 1..n : s[i] = e} \cup {n + 1}
    BY <1>1, <1>2
  <2>2. IsFiniteSet({i \in 1..n : s[i] = e}) /\ n + 1 \notin {i \in 1..n : s[i] = e}
    BY <1>1, FS_Interval, FS_Subset
  <2>3. QED
    BY <2>1, <2>2, FS_AddElement DEF Count, n
<1>5. ASSUME NEW p, p # e PROVE Count(t, p) = Count(s, p)
  <2>1. {i \in 1..Len(t) : t[i] = p} = {i \in 1..n : s[i] = p}
    BY <1>1, <1>2, <1>5
  <2>2. QED
    BY <2>1 DEF Count, n
<1>6. QED
  BY <1>1, <1>3, <1>4, <1>5 DEF t

-----------------------------------------------------------------------------
(* The inductive invariants of one job: its record r and the inboxes b *)

AtWork(r) == r.phase \in {"sending", "dropping"}

\* A job that is under way sends to one of its chats at a time and has not yet
\* tried those in todo.
Shape(j, r) ==
    /\ r \in Job
    /\ r.to = {} \/ \E c \in Chats : r.to = {c}
    /\ r.part <= PartsOf(j) /\ r.tries < Attempts
    /\ r.phase # "idle" => r.todo \subseteq r.chats /\ r.failed \subseteq r.chats \ r.todo
    /\ AtWork(r) => /\ \E c \in r.chats \ (r.todo \cup r.failed) : r.to = {c}
                    /\ r.part >= 1
    /\ r.phase = "recording" => r.todo = {}

\* What a chat has got: from the first part on, in order, none too often.
Ordered(j, s) ==
    /\ s \in Seq(1..PartsOf(j))
    /\ s # <<>> => s[1] = 1
    /\ \A i \in 2..Len(s) : s[i] \in {s[i - 1], s[i - 1] + 1}
    /\ \A p \in Values(s) : Count(s, p) <= Attempts

\* The chat that a message is sent to has the parts before it, and the part
\* itself at most as often as it was tried.
UpTo(s, part, tries) ==
    /\ 1..(part - 1) \subseteq Values(s)
    /\ Values(s) \subseteq 1..part
    /\ IF s = <<>> THEN part = 1 ELSE s[Len(s)] \in {part - 1, part}
    /\ Count(s, part) <= tries

Reached(j, r, b) ==
    \A c \in r.chats :
        /\ c \in r.todo => b[c] = <<>>
        /\ AtWork(r) /\ c \in r.to => UpTo(b[c], r.part, r.tries)
        /\ c \notin r.todo \cup r.failed /\ ~(AtWork(r) /\ c \in r.to) =>
               Values(b[c]) = 1..PartsOf(j)

JobInv(j, r, b) ==
    /\ Shape(j, r)
    /\ r.phase # "idle" => Reached(j, r, b)
    /\ b \in [Chats -> Seq(1..PartsOf(j))]
    /\ \A c \in Chats : Ordered(j, b[c])

Rest ==
    /\ app \in {"none", "starting", "ready", "stopping", "stopped"}
    /\ subscribers \subseteq Chats /\ blocked \subseteq Chats
    /\ wants \subseteq Chats /\ excused \subseteq Chats

BotInv ==
    /\ Rest
    /\ job \in [Jobs -> Job]
    /\ inbox \in [Jobs -> [Chats -> Seq(1..Parts)]]
    /\ \A j \in Jobs : JobInv(j, job[j], inbox[j])

\* A refusal that is being acted upon excuses its chat, and so does a block.
LoyalInv ==
    /\ LoyalStaySubscribed
    /\ blocked \subseteq excused
    /\ \A j \in Jobs : job[j].phase = "dropping" => job[j].to \subseteq excused \ Configured

-----------------------------------------------------------------------------
(* Steps of a record *)

\* What is known of the chats that the message under way is not for.
Others(j, r, b) ==
    /\ b \in [Chats -> Seq(1..PartsOf(j))]
    /\ \A c \in Chats : Ordered(j, b[c])
    /\ \A c \in r.todo : b[c] = <<>>
    /\ \A c \in r.chats \ (r.todo \cup r.failed \cup r.to) : Values(b[c]) = 1..PartsOf(j)

LEMMA ConstantFacts ==
    /\ Parts \in Nat \ {0} /\ Attempts \in Nat \ {0}
    /\ \A j : PartsOf(j) \in Nat \ {0} /\ PartsOf(j) <= Parts
BY BotAssumption DEF PartsOf

LEMMA OthersFacts ==
    ASSUME NEW j, NEW r, NEW b, JobInv(j, r, b), r.phase # "idle"
    PROVE  Others(j, r, b)
BY DEF JobInv, Reached, Others, Shape, Job

\* The first chat, or the next one, has got nothing yet.
LEMMA NextChatStep ==
    ASSUME NEW j, NEW r \in Job, NEW b, NEW r2 \in NextChat(r),
           Others(j, r, b),
           r.todo \subseteq r.chats, r.failed \subseteq r.chats \ r.todo,
           r.to \subseteq r.failed \/ \A c \in r.to \cap r.chats : Values(b[c]) = 1..PartsOf(j),
           r.to = {} \/ \E c \in Chats : r.to = {c},
           r.part <= PartsOf(j), r.tries < Attempts
    PROVE  JobInv(j, r2, b)
<1>1. CASE r.todo = {}
  <2>1. r2 = [r EXCEPT !.phase = "recording"]
    BY <1>1 DEF NextChat
  <2>2. Shape(j, r2)
    BY <1>1, <2>1 DEF Shape, Job, AtWork
  <2>3. Reached(j, r2, b)
    BY <1>1, <2>1 DEF Reached, Job, AtWork, Others
  <2>4. QED
    BY <2>1, <2>2, <2>3 DEF JobInv, Others, Job
<1>2. CASE r.todo # {}
  <2>1. PICK c \in r.todo :
           r2 = [r EXCEPT !.phase = "sending", !.to = {c}, !.todo = @ \ {c}, !.part = 1, !.tries = 0]
    BY <1>2 DEF NextChat
  <2>2. /\ r2 \in Job /\ r2.phase = "sending" /\ r2.chats = r.chats /\ r2.failed = r.failed
        /\ r2.to = {c} /\ r2.todo = r.todo \ {c} /\ r2.part = 1 /\ r2.tries = 0
    BY <2>1 DEF Job
  <2>3. c \in Chats /\ c \in r.chats /\ c \notin r.failed
    BY DEF Job
  <2>4. Shape(j, r2)
    BY <2>2, <2>3, ConstantFacts DEF Shape, AtWork
  <2>5. UpTo(b[c], 1, 0)
    <3>1. b[c] = <<>>
      BY DEF Others
    <3>2. QED
      BY <3>1, EmptyFacts DEF UpTo
  <2>6. Reached(j, r2, b)
    BY <2>2, <2>5 DEF Reached, Others, AtWork
  <2>7. QED
    BY <2>2, <2>4, <2>6 DEF JobInv, Others
<1>3. QED
  BY <1>1, <1>2

LEMMA GiveUpStep ==
    ASSUME NEW j, NEW r, NEW b, NEW r2 \in GiveUp(r),
           Shape(j, r), AtWork(r), Others(j, r, b)
    PROVE  JobInv(j, r2, b)
<1> DEFINE q == [r EXCEPT !.failed = @ \cup r.to]
<1>1. /\ q \in Job /\ q.todo = r.todo /\ q.chats = r.chats /\ q.to = r.to
      /\ q.failed = r.failed \cup r.to /\ q.part = r.part /\ q.tries = r.tries
  BY DEF Shape, Job
<1>2. r2 \in NextChat(q)
  BY DEF GiveUp
<1>3. Others(j, q, b)
  BY <1>1 DEF Others
<1>4. /\ q.todo \subseteq q.chats /\ q.failed \subseteq q.chats \ q.todo
      /\ q.to = {} \/ \E c \in Chats : q.to = {c}
      /\ q.part <= PartsOf(j) /\ q.tries < Attempts
  BY <1>1 DEF Shape, AtWork
<1> HIDE DEF q
<1>5. QED
  BY <1>1, <1>2, <1>3, <1>4, NextChatStep

LEMMA RetryStep ==
    ASSUME NEW j, NEW r, NEW b, NEW r2 \in Retry(r),
           Shape(j, r), r.phase = "sending", Others(j, r, b),
           \A c \in r.to : UpTo(b[c], r.part, r.tries + 1)
    PROVE  JobInv(j, r2, b)
<1>1. CASE r.tries + 1 < Attempts
  <2>1. r2 = [r EXCEPT !.tries = @ + 1]
    BY <1>1 DEF Retry
  <2>2. /\ r2 \in Job /\ r2.todo = r.todo /\ r2.chats = r.chats /\ r2.to = r.to
        /\ r2.failed = r.failed /\ r2.part = r.part /\ r2.tries = r.tries + 1
        /\ r2.phase = "sending"
    BY <2>1 DEF Shape, Job
  <2>3. Shape(j, r2)
    BY <1>1, <2>2 DEF Shape, AtWork
  <2>4. Reached(j, r2, b)
    BY <2>2 DEF Reached, Others, AtWork, Shape
  <2>5. QED
    BY <2>2, <2>3, <2>4 DEF JobInv, Others
<1>2. CASE ~(r.tries + 1 < Attempts)
  BY <1>2, GiveUpStep DEF Retry, AtWork
<1>3. QED
  BY <1>1, <1>2

LEMMA NextPartStep ==
    ASSUME NEW j, NEW r, NEW b, NEW r2 \in NextPart(j, r),
           Shape(j, r), r.phase = "sending", Others(j, r, b),
           \A c \in r.to : /\ UpTo(b[c], r.part, r.tries + 1)
                           /\ b[c] # <<>> /\ b[c][Len(b[c])] = r.part
    PROVE  JobInv(j, r2, b)
<1>1. /\ r \in Job /\ r.part \in Nat /\ r.part >= 1
      /\ \E c \in r.chats \ (r.todo \cup r.failed) : r.to = {c}
  BY DEF Shape, Job, AtWork
<1>2. ASSUME NEW c \in r.to
      PROVE  b[c] \in Seq(1..PartsOf(j)) /\ r.part \in Values(b[c])
  <2>1. b[c] \in Seq(1..PartsOf(j))
    BY <1>1 DEF Others, Job
  <2>2. Len(b[c]) \in 1..Len(b[c])
    BY <2>1
  <2>3. QED
    BY <2>1, <2>2 DEF Values
<1>3. CASE r.part < PartsOf(j)
  <2>1. r2 = [r EXCEPT !.part = @ + 1, !.tries = 0]
    BY <1>3 DEF NextPart
  <2>2. /\ r2 \in Job /\ r2.todo = r.todo /\ r2.chats = r.chats /\ r2.to = r.to
        /\ r2.failed = r.failed /\ r2.part = r.part + 1 /\ r2.tries = 0
        /\ r2.phase = "sending"
    <3> DEFINE q == [r EXCEPT !.part = @ + 1]
    <3>1. /\ q \in Job /\ q.todo = r.todo /\ q.chats = r.chats /\ q.to = r.to
          /\ q.failed = r.failed /\ q.part = r.part + 1 /\ q.phase = "sending"
      BY <1>1 DEF Job
    <3>2. r2 = [q EXCEPT !.tries = 0]
      BY <2>1
    <3> HIDE DEF q
    <3>3. QED
      BY <3>1, <3>2 DEF Job
  <2>3. Shape(j, r2)
    BY <1>1, <1>3, <2>2, ConstantFacts DEF Shape, AtWork
  <2>4. ASSUME NEW c \in r.to
        PROVE  UpTo(b[c], r.part + 1, 0)
    <3>1. UpTo(b[c], r.part, r.tries + 1) /\ b[c] \in Seq(1..PartsOf(j)) /\ r.part \in Values(b[c])
      BY <1>2
    <3>2. b[c] # <<>> /\ b[c][Len(b[c])] = (r.part + 1) - 1
      BY <1>1
    <3>3. r.part + 1 \notin Values(b[c])
      BY <1>1, <3>1 DEF UpTo
    <3>4. Count(b[c], r.part + 1) = 0
      BY <3>1, <3>3, CountType
    <3>5. 1..((r.part + 1) - 1) \subseteq Values(b[c])
      BY <1>1, <3>1 DEF UpTo
    <3>6. Values(b[c]) \subseteq 1..(r.part + 1)
      BY <1>1, <3>1 DEF UpTo
    <3>7. QED
      BY <3>2, <3>4, <3>5, <3>6 DEF UpTo
  <2>5. Reached(j, r2, b)
    BY <2>2, <2>4 DEF Reached, Others, AtWork
  <2>6. QED
    BY <2>2, <2>3, <2>5 DEF JobInv, Others
<1>4. CASE ~(r.part < PartsOf(j))
  <2>1. r.part = PartsOf(j) /\ r2 \in NextChat(r)
    BY <1>1, <1>4, ConstantFacts DEF NextPart, Shape
  <2>2. \A c \in r.to : Values(b[c]) = 1..PartsOf(j)
    <3>1. SUFFICES ASSUME NEW c \in r.to PROVE Values(b[c]) = 1..PartsOf(j)
      OBVIOUS
    <3>2. 1..(r.part - 1) \subseteq Values(b[c]) /\ Values(b[c]) \subseteq 1..r.part
      BY DEF UpTo
    <3>3. 1..r.part = 1..(r.part - 1) \cup {r.part}
      BY <1>1
    <3>4. QED
      BY <1>2, <2>1, <3>2, <3>3
  <2>3. QED
    BY <2>1, <2>2, NextChatStep DEF Shape
<1>5. QED
  BY <1>3, <1>4

\* The inboxes after the message has arrived.
Arrived(r, b) == [c \in Chats |-> IF c \in r.to THEN Append(b[c], r.part) ELSE b[c]]

\* One more message in order, at the only chat it is for.
LEMMA ArriveStep ==
    ASSUME NEW j, NEW r, NEW b, NEW b2, JobInv(j, r, b), r.phase = "sending", b2 = Arrived(r, b)
    PROVE  /\ Others(j, r, b2)
           /\ \A c \in r.to : /\ UpTo(b2[c], r.part, r.tries + 1)
                              /\ b2[c] # <<>> /\ b2[c][Len(b2[c])] = r.part
<1> DEFINE P == 1..PartsOf(j)
<1>0. b2 = [c \in Chats |-> IF c \in r.to THEN Append(b[c], r.part) ELSE b[c]]
  BY DEF Arrived
<1>1. /\ r \in Job /\ r.part \in P /\ r.tries \in Nat /\ r.tries < Attempts
      /\ r.to \subseteq Chats /\ r.to \subseteq r.chats /\ r.to \cap r.todo = {}
      /\ b \in [Chats -> Seq(P)]
  BY ConstantFacts DEF JobInv, Shape, Job, AtWork
<1>2. ASSUME NEW c \in r.to
      PROVE  /\ b2[c] \in Seq(P) /\ Ordered(j, b2[c]) /\ UpTo(b2[c], r.part, r.tries + 1)
             /\ b2[c] # <<>> /\ b2[c][Len(b2[c])] = r.part
  <2> DEFINE s == b[c]
             t == Append(s, r.part)
  <2>1. s \in Seq(P) /\ b2[c] = t
    <3>1. c \in Chats
      BY <1>1
    <3>2. b[c] \in Seq(P)
      <4> HIDE DEF P
      <4>1. QED
        BY <1>1, <3>1
    <3>3. b2[c] = IF c \in r.to THEN Append(b[c], r.part) ELSE b[c]
      BY <1>0, <3>1
    <3>4. QED
      BY <3>2, <3>3
  <2>2. /\ Ordered(j, s) /\ UpTo(s, r.part, r.tries)
    BY <1>1 DEF JobInv, Reached, AtWork
  <2> HIDE DEF s, t
  <2>3. /\ t \in Seq(P) /\ Values(t) = Values(s) \cup {r.part}
        /\ Count(t, r.part) = Count(s, r.part) + 1
        /\ \A p : p # r.part => Count(t, p) = Count(s, p)
    <3> HIDE DEF P
    <3>1. QED
      BY <1>1, <2>1, AppendFacts DEF t
  <2>4. /\ Len(s) \in Nat /\ Len(t) = Len(s) + 1 /\ t[Len(s) + 1] = r.part /\ t # <<>>
        /\ \A i \in 1..Len(s) : t[i] = s[i]
    <3> HIDE DEF P
    <3>1. s \in Seq(P) /\ r.part \in P
      BY <1>1, <2>1
    <3>2. QED
      BY <3>1, AppendProperties, LenProperties DEF t
  <2>5. Count(s, r.part) \in Nat /\ Attempts \in Nat
    BY <2>1, CountType, ConstantFacts
  <2>6. t[1] = 1
    <3>1. CASE s = <<>>
      BY <2>2, <2>4, <3>1 DEF UpTo
    <3>2. CASE s # <<>>
      BY <2>1, <2>2, <2>4, <3>2 DEF Ordered
    <3>3. QED
      BY <3>1, <3>2
  <2>7. ASSUME NEW i \in 2..Len(t)
        PROVE  t[i] \in {t[i - 1], t[i - 1] + 1}
    <3>1. CASE i <= Len(s)
      BY <2>2, <2>4, <3>1 DEF Ordered
    <3>2. CASE i = Len(s) + 1
      <4>1. s # <<>> /\ Len(s) \in 1..Len(s)
        BY <2>1, <2>4, <3>2
      <4>2. t[i - 1] = s[Len(s)] /\ s[Len(s)] \in {r.part - 1, r.part}
        BY <2>2, <2>4, <3>2, <4>1 DEF UpTo
      <4>3. QED
        BY <1>1, <2>4, <3>2, <4>2
    <3>3. QED
      BY <2>4, <3>1, <3>2
  <2>8. \A p \in Values(t) : Count(t, p) <= Attempts
    BY <1>1, <2>2, <2>3, <2>5 DEF Ordered, UpTo
  <2>9. UpTo(t, r.part, r.tries + 1)
    <3>1. 1..(r.part - 1) \subseteq Values(t) /\ Values(t) \subseteq 1..r.part
      BY <1>1, <2>2, <2>3 DEF UpTo
    <3>2. Count(t, r.part) <= r.tries + 1
      BY <1>1, <2>2, <2>3, <2>5 DEF UpTo
    <3>3. t # <<>> /\ t[Len(t)] \in {r.part - 1, r.part}
      BY <2>4
    <3>4. QED
      BY <3>1, <3>2, <3>3 DEF UpTo
  <2>10. Ordered(j, t)
    BY <2>3, <2>6, <2>7, <2>8 DEF Ordered
  <2>11. QED
    BY <2>1, <2>3, <2>4, <2>9, <2>10
<1>3. b2 \in [Chats -> Seq(P)]
  BY <1>0, <1>1, <1>2
<1>4. \A c \in Chats : Ordered(j, b2[c])
  BY <1>0, <1>2 DEF JobInv
<1>5. Others(j, r, b)
  BY OthersFacts
<1>6. \A c \in r.todo : b2[c] = <<>>
  BY <1>0, <1>1, <1>5 DEF Others, Job
<1>7. \A c \in r.chats \ (r.todo \cup r.failed \cup r.to) : Values(b2[c]) = P
  BY <1>0, <1>1, <1>5 DEF Others, Job
<1>8. QED
  BY <1>2, <1>3, <1>4, <1>6, <1>7 DEF Others

-----------------------------------------------------------------------------
(* The invariants hold *)

LEMMA NoJobInv ==
    ASSUME NEW j
    PROVE  JobInv(j, NoJob, EmptyInbox) /\ NoJob \in Job
<1>1. NoJob \in Job /\ Shape(j, NoJob)
  BY ConstantFacts DEF NoJob, Job, Shape, AtWork
<1>2. Ordered(j, <<>>)
  BY EmptyFacts DEF Ordered
<1>3. EmptyInbox \in [Chats -> Seq(1..PartsOf(j))]
  BY DEF EmptyInbox
<1>4. QED
  BY <1>1, <1>2, <1>3 DEF JobInv, NoJob, EmptyInbox

LEMMA BotInvInit == Init => BotInv
<1> SUFFICES ASSUME Init PROVE BotInv
  OBVIOUS
<1>1. \A j \in Jobs : job[j] = NoJob /\ inbox[j] = EmptyInbox
  BY DEF Init
<1>2. inbox \in [Jobs -> [Chats -> Seq(1..Parts)]]
  BY DEF Init, EmptyInbox
<1>3. job \in [Jobs -> Job]
  BY NoJobInv DEF Init
<1>4. \A j \in Jobs : JobInv(j, job[j], inbox[j])
  BY <1>1, NoJobInv
<1>5. Rest
  BY DEF Init, Rest
<1>6. QED
  BY <1>2, <1>3, <1>4, <1>5 DEF BotInv

\* One job goes on, the other stays as it is.
LEMMA OneJobSteps ==
    ASSUME BotInv, NEW j \in Jobs, NEW r, NEW b,
           job' = [job EXCEPT ![j] = r], inbox' = [inbox EXCEPT ![j] = b],
           JobInv(j, r, b), Rest'
    PROVE  BotInv'
<1>1. r \in Job
  BY DEF JobInv, Shape
<1>2. b \in [Chats -> Seq(1..Parts)]
  <2>1. 1..PartsOf(j) \subseteq 1..Parts
    BY ConstantFacts
  <2>2. \A s \in Seq(1..PartsOf(j)) : s \in Seq(1..Parts)
    BY <2>1, SeqMonotonic
  <2>3. QED
    BY <2>2 DEF JobInv
<1>3. job' \in [Jobs -> Job] /\ inbox' \in [Jobs -> [Chats -> Seq(1..Parts)]]
  BY <1>1, <1>2 DEF BotInv
<1>4. job'[j] = r /\ inbox'[j] = b
  BY DEF BotInv
<1>5. \A i \in Jobs : i # j => job'[i] = job[i] /\ inbox'[i] = inbox[i]
  BY DEF BotInv
<1>6. \A i \in Jobs : JobInv(i, job'[i], inbox'[i])
  BY <1>4, <1>5 DEF BotInv
<1>7. QED
  BY <1>3, <1>6 DEF BotInv

\* The same, when no message arrives.
LEMMA SilentStep ==
    ASSUME BotInv, NEW j \in Jobs, NEW r,
           job' = [job EXCEPT ![j] = r], UNCHANGED inbox,
           JobInv(j, r, inbox[j]), Rest'
    PROVE  BotInv'
<1>1. inbox' = [inbox EXCEPT ![j] = inbox[j]]
  BY DEF BotInv
<1>2. QED
  BY <1>1, OneJobSteps

LEMMA BeginStep ==
    ASSUME BotInv, NEW j \in Jobs, Begin(j)
    PROVE  BotInv'
<1> DEFINE q == [NoJob EXCEPT !.chats = Recipients(j), !.todo = Recipients(j)]
<1>1. PICK r \in NextChat(q) : job' = [job EXCEPT ![j] = r]
  BY DEF Begin
<1>2. inbox' = [inbox EXCEPT ![j] = EmptyInbox]
  BY DEF Begin
<1>3. Recipients(j) \subseteq Chats
  BY BotAssumption DEF Recipients, BotInv, Rest
<1>4. /\ q \in Job /\ q.todo = Recipients(j) /\ q.chats = Recipients(j) /\ q.to = {}
      /\ q.failed = {} /\ q.part = 0 /\ q.tries = 0
  BY <1>3 DEF NoJob, Job
<1>5. Others(j, q, EmptyInbox)
  <2>1. EmptyInbox \in [Chats -> Seq(1..PartsOf(j))] /\ \A c \in Chats : Ordered(j, EmptyInbox[c])
    BY NoJobInv DEF JobInv
  <2>2. QED
    BY <1>3, <1>4, <2>1 DEF Others, EmptyInbox
<1> HIDE DEF q
<1>6. JobInv(j, r, EmptyInbox)
  BY <1>1, <1>4, <1>5, NextChatStep, ConstantFacts
<1>7. QED
  BY <1>1, <1>2, <1>6, OneJobSteps DEF Begin, BotInv, Rest

LEMMA JobStepInv ==
    ASSUME BotInv, NEW j \in Jobs, JobStep(j)
    PROVE  BotInv'
<1> DEFINE r == job[j]
           b == inbox[j]
           b2 == Arrived(r, b)
<1>1. JobInv(j, r, b) /\ Shape(j, r)
  BY DEF BotInv, JobInv
<1>2. r.phase # "idle" => Others(j, r, b)
  BY <1>1, OthersFacts
<1>3. Rest'
  BY DEF JobStep, Delivered, TimedOut, Limited, Reject, NotReady, Refused, Drop, DropFails,
         Record, BotInv, Rest
<1>4. Arrive(j) => inbox' = [inbox EXCEPT ![j] = b2]
  BY DEF Arrive, Arrived, BotInv
<1> HIDE DEF r, b, b2
\* Where the message arrives.
<1>5. ASSUME r.phase = "sending"
      PROVE  /\ Others(j, r, b2)
             /\ \A c \in r.to : /\ UpTo(b2[c], r.part, r.tries + 1)
                                /\ b2[c] # <<>> /\ b2[c][Len(b2[c])] = r.part
  BY <1>1, <1>5, ArriveStep DEF b2
\* Where it does not, the parts count as before and the attempt is one more.
<1>6. ASSUME r.phase = "sending"
      PROVE  \A c \in r.to : UpTo(b[c], r.part, r.tries + 1)
  <2>1. SUFFICES ASSUME NEW c \in r.to PROVE UpTo(b[c], r.part, r.tries + 1)
    OBVIOUS
  <2>2. /\ UpTo(b[c], r.part, r.tries) /\ r.tries \in Nat /\ b[c] \in Seq(1..PartsOf(j))
    BY <1>1, <1>6 DEF JobInv, Reached, Shape, Job, AtWork
  <2>3. Count(b[c], r.part) \in Nat
    BY <2>2, CountType
  <2>4. QED
    BY <2>2, <2>3 DEF UpTo
<1>7. ASSUME NEW r2, JobInv(j, r2, b), job' = [job EXCEPT ![j] = r2], UNCHANGED inbox
      PROVE  BotInv'
  BY <1>3, <1>7, SilentStep DEF b
<1>8. ASSUME NEW r2, JobInv(j, r2, b2), job' = [job EXCEPT ![j] = r2], Arrive(j)
      PROVE  BotInv'
  BY <1>3, <1>4, <1>8, OneJobSteps
<1>9. ASSUME Continue(j, GiveUp(r)), UNCHANGED inbox, AtWork(r)
      PROVE  BotInv'
  <2>1. PICK r2 \in GiveUp(r) : job' = [job EXCEPT ![j] = r2]
    BY <1>9 DEF Continue
  <2>2. JobInv(j, r2, b)
    BY <1>1, <1>2, <1>9, GiveUpStep DEF AtWork
  <2>3. QED
    BY <1>7, <1>9, <2>1, <2>2
\* The coroutine stops to wait for the DELETE.
<1>10. ASSUME Continue(j, {[r EXCEPT !.phase = "dropping"]}), UNCHANGED inbox, r.phase = "sending"
       PROVE  BotInv'
  <2> DEFINE r2 == [r EXCEPT !.phase = "dropping"]
  <2>1. job' = [job EXCEPT ![j] = r2]
    BY <1>10 DEF Continue
  <2>2. /\ r2 \in Job /\ r2.todo = r.todo /\ r2.chats = r.chats /\ r2.to = r.to
        /\ r2.failed = r.failed /\ r2.part = r.part /\ r2.tries = r.tries /\ r2.phase = "dropping"
    BY <1>1 DEF Shape, Job
  <2> HIDE DEF r2
  <2>3. Shape(j, r2)
    BY <1>1, <1>10, <2>2 DEF Shape, AtWork
  <2>4. Reached(j, r2, b)
    BY <1>1, <1>10, <2>2 DEF JobInv, Reached, AtWork
  <2>5. JobInv(j, r2, b)
    BY <1>1, <2>3, <2>4 DEF JobInv
  <2>6. QED
    BY <1>7, <1>10, <2>1, <2>5
<1>11. CASE Delivered(j)
  <2>1. PICK r2 \in NextPart(j, r) : job' = [job EXCEPT ![j] = r2]
    BY <1>11 DEF Delivered, Continue, r
  <2>2. r.phase = "sending" /\ Arrive(j)
    BY <1>11 DEF Delivered, Accepting, Sending, r
  <2>3. JobInv(j, r2, b2)
    BY <1>1, <1>5, <2>2, NextPartStep
  <2>4. QED
    BY <1>8, <2>1, <2>2, <2>3
<1>12. CASE TimedOut(j)
  <2>1. PICK r2 \in Retry(r) : job' = [job EXCEPT ![j] = r2]
    BY <1>12 DEF TimedOut, Continue, r
  <2>2. r.phase = "sending"
    BY <1>12 DEF TimedOut, Sending, r
  <2>3. CASE Arrive(j)
    BY <1>1, <1>5, <1>8, <2>1, <2>2, <2>3, RetryStep
  <2>4. CASE UNCHANGED inbox
    BY <1>1, <1>2, <1>6, <1>7, <2>1, <2>2, <2>4, RetryStep
  <2>5. QED
    BY <1>12, <2>3, <2>4 DEF TimedOut
<1>13. CASE Limited(j)
  <2>1. PICK r2 \in Retry(r) : job' = [job EXCEPT ![j] = r2]
    BY <1>13 DEF Limited, Continue, r
  <2>2. r.phase = "sending" /\ UNCHANGED inbox
    BY <1>13 DEF Limited, Sending, r
  <2>3. QED
    BY <1>1, <1>2, <1>6, <1>7, <2>1, <2>2, RetryStep
<1>14. CASE Reject(j) \/ NotReady(j)
  BY <1>9, <1>14 DEF Reject, NotReady, Sending, AtWork, r
<1>15. CASE Refused(j)
  BY <1>9, <1>10, <1>15 DEF Refused, Sending, AtWork, r
<1>16. CASE Drop(j)
  BY <1>9, <1>16 DEF Drop, AtWork, r
<1>17. CASE DropFails(j)
  <2> DEFINE r2 == [r EXCEPT !.phase = "idle"]
  <2>1. job' = [job EXCEPT ![j] = r2] /\ UNCHANGED inbox
    BY <1>17 DEF DropFails, Continue, r
  <2>2. /\ r2 \in Job /\ r2.to = r.to /\ r2.part = r.part /\ r2.tries = r.tries /\ r2.phase = "idle"
    BY <1>1 DEF Shape, Job
  <2> HIDE DEF r2
  <2>3. JobInv(j, r2, b)
    BY <1>1, <2>2 DEF JobInv, Shape, AtWork
  <2>4. QED
    BY <1>7, <2>1, <2>3
<1>18. CASE Record(j)
  <2>1. job' = [job EXCEPT ![j] = NoJob] /\ inbox' = [inbox EXCEPT ![j] = EmptyInbox]
    BY <1>18 DEF Record, Continue
  <2>2. QED
    BY <1>3, <2>1, NoJobInv, OneJobSteps
<1>19. QED
  BY <1>11, <1>12, <1>13, <1>14, <1>15, <1>16, <1>17, <1>18 DEF JobStep

LEMMA BotInvStep == BotInv /\ [Next]_vars => BotInv'
<1> SUFFICES ASSUME BotInv, [Next]_vars PROVE BotInv'
  OBVIOUS
<1>1. ASSUME NEW j \in Jobs, Begin(j) \/ JobStep(j) PROVE BotInv'
  BY <1>1, BeginStep, JobStepInv
<1>2. ASSUME NEW c \in Chats, Start(c) \/ Stop(c) \/ Block(c) \/ Unblock(c) PROVE BotInv'
  <2>1. UNCHANGED <<job, inbox>> /\ Rest'
    BY <1>2 DEF Start, Stop, Block, Unblock, BotInv, Rest
  <2>2. QED
    BY <2>1 DEF BotInv
<1>3. CASE StartBot \/ StopBot
  <2>1. UNCHANGED <<job, inbox>> /\ Rest'
    BY <1>3 DEF StartBot, StopBot, BotInv, Rest
  <2>2. QED
    BY <2>1 DEF BotInv
<1>4. CASE Crash
  <2>1. job' = [j \in Jobs |-> NoJob] /\ inbox' = [j \in Jobs |-> EmptyInbox] /\ Rest'
    BY <1>4 DEF Crash, BotInv, Rest
  <2>2. EmptyInbox \in [Chats -> Seq(1..Parts)]
    BY DEF EmptyInbox
  <2>3. QED
    BY <2>1, <2>2, NoJobInv DEF BotInv
<1>5. CASE UNCHANGED vars
  BY <1>5 DEF vars, BotInv, Rest
<1>6. QED
  BY <1>1, <1>2, <1>3, <1>4, <1>5 DEF Next

-----------------------------------------------------------------------------
(* The theorems *)

LEMMA BotInvHolds == Spec => []BotInv
BY BotInvInit, BotInvStep, PTL DEF Spec

\* The records and the inboxes have their types; one chat is sent to at a time.
THEOREM TypeCorrect == Spec => []TypeOK
<1>1. BotInv => TypeOK
  <2> SUFFICES ASSUME BotInv PROVE TypeOK
    OBVIOUS
  <2>1. ASSUME NEW j \in Jobs
        PROVE  Cardinality(job[j].to) <= 1 /\ job[j].part <= Parts /\ job[j].tries < Attempts
    <3>1. Shape(j, job[j])
      BY DEF BotInv, JobInv
    <3>2. job[j].part \in Nat /\ job[j].part <= Parts
      BY <3>1, ConstantFacts DEF Shape, Job
    <3>3. Cardinality(job[j].to) \in {0, 1}
      BY <3>1, FS_EmptySet, FS_Singleton DEF Shape
    <3>4. QED
      BY <3>1, <3>2, <3>3 DEF Shape
  <2>2. QED
    BY <2>1 DEF BotInv, Rest, TypeOK
<1>2. QED
  BY <1>1, BotInvHolds, PTL

\* Whatever is lost, limited, rejected or refused: a chat sees the beginning of
\* the digest, in order and without gaps, and no part more than Attempts times.
THEOREM ArrivesInOrderTheorem == Spec => []ArrivesInOrder
<1>1. BotInv => ArrivesInOrder
  <2> SUFFICES ASSUME BotInv, NEW j \in Jobs, NEW c \in Chats
               PROVE  LET s == inbox[j][c] IN
                      /\ Got(j, c) \subseteq 1..PartsOf(j)
                      /\ s # <<>> => s[1] = 1
                      /\ \A i \in 2..Len(s) : s[i] \in {s[i - 1], s[i - 1] + 1}
                      /\ \A p \in Got(j, c) : Cardinality({i \in 1..Len(s) : s[i] = p}) <= Attempts
    BY DEF ArrivesInOrder
  <2>1. Ordered(j, inbox[j][c])
    BY DEF BotInv, JobInv
  <2>2. Got(j, c) = Values(inbox[j][c])
    BY DEF Got, Values
  <2>3. Values(inbox[j][c]) \subseteq 1..PartsOf(j)
    BY <2>1, ElementOfSeq DEF Ordered, Values
  <2>4. QED
    BY <2>1, <2>2, <2>3 DEF Ordered, Count
<1>2. QED
  BY <1>1, BotInvHolds, PTL

\* The report counts no chat as reached that misses a part.
THEOREM ReportIsHonestTheorem == Spec => []ReportIsHonest
<1>1. BotInv => ReportIsHonest
  <2> SUFFICES ASSUME BotInv, NEW j \in Jobs, job[j].phase = "recording",
                      NEW c \in job[j].chats \ job[j].failed
               PROVE  Got(j, c) = 1..PartsOf(j)
    BY DEF ReportIsHonest
  <2>1. Shape(j, job[j]) /\ Reached(j, job[j], inbox[j])
    BY DEF BotInv, JobInv
  <2>2. Got(j, c) = Values(inbox[j][c])
    BY DEF Got, Values
  <2>3. QED
    BY <2>1, <2>2 DEF Shape, Reached, AtWork
<1>2. QED
  BY <1>1, BotInvHolds, PTL

-----------------------------------------------------------------------------
(* Who stays subscribed *)

LEMMA NextChatPhase ==
    ASSUME NEW r \in Job, NEW r2 \in NextChat(r)
    PROVE  r2.phase # "dropping"
BY DEF NextChat, Job

LEMMA GiveUpPhase ==
    ASSUME NEW r \in Job, NEW r2 \in GiveUp(r)
    PROVE  r2.phase # "dropping"
<1>1. [r EXCEPT !.failed = @ \cup r.to] \in Job
  BY DEF Job
<1>2. QED
  BY <1>1, NextChatPhase DEF GiveUp

\* A chat is dropped only after it blocked the bot or while it is excused; the
\* job's record says which one, so the records of BotInv are needed.
LEMMA LoyalJobStep ==
    ASSUME BotInv, LoyalInv, NEW j \in Jobs, JobStep(j)
    PROVE  LoyalInv'
<1> DEFINE r == job[j]
<1>1. /\ wants' = wants /\ excused' = excused /\ blocked' = blocked
      /\ \A i \in Jobs : i # j => job'[i] = job[i]
  BY DEF JobStep, Delivered, TimedOut, Limited, Reject, NotReady, Refused, Drop, DropFails,
         Record, Continue, BotInv
<1>2. r \in Job /\ (AtWork(r) => \E c \in Chats : r.to = {c})
  BY DEF BotInv, JobInv, Shape, Job
<1>3. CASE Drop(j)
  <2>1. r.phase = "dropping" /\ subscribers' = subscribers \ r.to
    BY <1>3 DEF Drop
  <2>2. PICK r2 \in GiveUp(r) : job' = [job EXCEPT ![j] = r2]
    BY <1>3 DEF Drop, Continue
  <2>3. r2.phase # "dropping"
    BY <1>2, <2>2, GiveUpPhase
  <2>4. job'[j] = r2
    BY <2>2 DEF BotInv
  <2>5. r.to \subseteq excused \ Configured
    BY <2>1 DEF LoyalInv
  <2>6. LoyalStaySubscribed'
    BY <1>1, <2>1, <2>5 DEF LoyalInv, LoyalStaySubscribed
  <2>7. QED
    BY <1>1, <2>3, <2>4, <2>6 DEF LoyalInv
<1>4. CASE Refused(j)
  <2>1. r.to \cap blocked # {} /\ subscribers' = subscribers /\ r.phase = "sending"
    BY <1>4 DEF Refused, Sending
  <2>2. CASE r.to \subseteq Configured
    <3>1. PICK r2 \in GiveUp(r) : job' = [job EXCEPT ![j] = r2]
      BY <1>4, <2>2 DEF Refused, Continue
    <3>2. r2.phase # "dropping"
      BY <1>2, <3>1, GiveUpPhase
    <3>3. QED
      BY <1>1, <2>1, <3>1, <3>2 DEF LoyalInv, LoyalStaySubscribed, BotInv
  <2>3. CASE ~(r.to \subseteq Configured)
    <3>1. job' = [job EXCEPT ![j] = [r EXCEPT !.phase = "dropping"]]
      BY <1>4, <2>3 DEF Refused, Continue
    <3>2. job'[j].to = r.to
      BY <1>2, <3>1 DEF BotInv, Job
    <3>3. r.to \subseteq excused \ Configured
      BY <1>2, <2>1, <2>3 DEF LoyalInv, AtWork
    <3>4. QED
      BY <1>1, <2>1, <3>2, <3>3 DEF LoyalInv, LoyalStaySubscribed
  <2>4. QED
    BY <2>2, <2>3
<1>5. CASE ~Drop(j) /\ ~Refused(j)
  <2>1. subscribers' = subscribers
    BY <1>5 DEF JobStep, Delivered, TimedOut, Limited, Reject, NotReady, DropFails, Record
  <2>2. job'[j].phase # "dropping"
    <3>1. CASE Delivered(j)
      <4>1. PICK r2 \in NextPart(j, r) : job' = [job EXCEPT ![j] = r2]
        BY <3>1 DEF Delivered, Continue
      <4>2. r.phase = "sending"
        BY <3>1 DEF Delivered, Accepting, Sending
      <4>3. r2.phase # "dropping"
        BY <1>2, <4>1, <4>2, NextChatPhase DEF NextPart, Job
      <4>4. QED
        BY <4>1, <4>3 DEF BotInv
    <3>2. CASE TimedOut(j) \/ Limited(j)
      <4>1. PICK r2 \in Retry(r) : job' = [job EXCEPT ![j] = r2]
        BY <3>2 DEF TimedOut, Limited, Continue
      <4>2. r.phase = "sending"
        BY <3>2 DEF TimedOut, Limited, Sending
      <4>3. r2.phase # "dropping"
        BY <1>2, <4>1, <4>2, GiveUpPhase DEF Retry, Job
      <4>4. QED
        BY <4>1, <4>3 DEF BotInv
    <3>3. CASE Reject(j) \/ NotReady(j)
      <4>1. PICK r2 \in GiveUp(r) : job' = [job EXCEPT ![j] = r2]
        BY <3>3 DEF Reject, NotReady, Continue
      <4>2. QED
        BY <1>2, <4>1, GiveUpPhase DEF BotInv
    <3>4. CASE DropFails(j)
      BY <1>2, <3>4 DEF DropFails, Continue, BotInv, Job
    <3>5. CASE Record(j)
      BY <3>5 DEF Record, Continue, BotInv, NoJob
    <3>6. QED
      BY <1>5, <3>1, <3>2, <3>3, <3>4, <3>5 DEF JobStep
  <2>3. QED
    BY <1>1, <2>1, <2>2 DEF LoyalInv, LoyalStaySubscribed
<1>6. QED
  BY <1>3, <1>4, <1>5

LEMMA LoyalStep == BotInv /\ LoyalInv /\ [Next]_vars => LoyalInv'
<1> SUFFICES ASSUME BotInv, LoyalInv, [Next]_vars PROVE LoyalInv'
  OBVIOUS
<1>1. ASSUME NEW j \in Jobs, Begin(j) PROVE LoyalInv'
  <2> DEFINE q == [NoJob EXCEPT !.chats = Recipients(j), !.todo = Recipients(j)]
  <2>1. PICK r \in NextChat(q) : job' = [job EXCEPT ![j] = r]
    BY <1>1 DEF Begin
  <2>2. Recipients(j) \subseteq Chats
    BY BotAssumption DEF Recipients, BotInv, Rest
  <2>3. q \in Job
    BY <2>2 DEF NoJob, Job
  <2>4. r.phase # "dropping"
    BY <2>1, <2>3, NextChatPhase
  <2>5. QED
    BY <1>1, <2>1, <2>4 DEF Begin, LoyalInv, LoyalStaySubscribed, BotInv
<1>2. ASSUME NEW j \in Jobs, JobStep(j) PROVE LoyalInv'
  BY <1>2, LoyalJobStep
<1>3. ASSUME NEW c \in Chats, Start(c) PROVE LoyalInv'
  <2>1. /\ c \notin blocked /\ subscribers' = subscribers \cup {c} /\ wants' = wants \cup {c}
        /\ UNCHANGED <<blocked, job>>
    BY <1>3 DEF Start
  <2>2. \A d \in excused : d # c => d \in excused'
    BY <1>3 DEF Start
  <2>3. excused' \subseteq excused \cup {c}
    BY <1>3 DEF Start
  <2>4. ASSUME NEW j \in Jobs, job[j].phase = "dropping"
        PROVE  job[j].to \subseteq excused' \ Configured
    <3>1. PICK d \in Chats : job[j].to = {d}
      BY <2>4 DEF BotInv, JobInv, Shape, AtWork, Job
    <3>2. d \in excused \ Configured
      BY <2>4, <3>1 DEF LoyalInv
    <3>3. d = c => c \in excused'
      BY <1>3, <2>4, <3>1 DEF Start
    <3>4. QED
      BY <2>2, <3>1, <3>2, <3>3
  <2>5. blocked' \subseteq excused'
    BY <2>1, <2>2 DEF LoyalInv
  <2>6. LoyalStaySubscribed'
    BY <2>1, <2>2 DEF LoyalInv, LoyalStaySubscribed
  <2>7. QED
    BY <2>1, <2>4, <2>5, <2>6 DEF LoyalInv
<1>4. ASSUME NEW c \in Chats, Stop(c) \/ Block(c) \/ Unblock(c) PROVE LoyalInv'
  BY <1>4 DEF Stop, Block, Unblock, LoyalInv, LoyalStaySubscribed
<1>5. CASE StartBot \/ StopBot
  BY <1>5 DEF StartBot, StopBot, LoyalInv, LoyalStaySubscribed
<1>6. CASE Crash
  BY <1>6 DEF Crash, LoyalInv, LoyalStaySubscribed, NoJob
<1>7. CASE UNCHANGED vars
  BY <1>7 DEF vars, LoyalInv, LoyalStaySubscribed
<1>8. QED
  BY <1>1, <1>2, <1>3, <1>4, <1>5, <1>6, <1>7 DEF Next

\* No error of Telegram's drops a subscriber that has not blocked the bot since
\* its last /start, or a configured chat.
THEOREM LoyalStaySubscribedTheorem == Spec => []LoyalStaySubscribed
<1>1. Init => LoyalInv
  BY DEF Init, LoyalInv, LoyalStaySubscribed, NoJob
<1>2. LoyalInv => LoyalStaySubscribed
  BY DEF LoyalInv
<1>3. QED
  BY <1>1, <1>2, LoyalStep, BotInvHolds, PTL DEF Spec

-----------------------------------------------------------------------------
(* Sums *)

\* Sums are compared by the first place where they differ.
LEMMA LeastNumber ==
    ASSUME NEW T \in SUBSET Nat, T # {}
    PROVE  \E m \in T : \A k \in T : m <= k
<1>1. \E m \in T : \A k \in T : <<k, m>> \notin OpToRel(<, Nat)
  BY NatLessThanWellFounded, WFMin
<1>2. PICK m \in T : \A k \in T : <<k, m>> \notin OpToRel(<, Nat)
  BY <1>1
<1>3. \A k \in T : ~(k < m)
  BY <1>2 DEF OpToRel
<1>4. QED
  BY <1>3

\* A list of the sums of the first members exists; SumTo is one.
LEMMA SumToIs ==
    ASSUME NEW n \in Nat, NEW f \in [1..n -> Nat]
    PROVE  /\ Text!SumTo(f) \in [0..n -> Nat]
           /\ Text!SumTo(f)[0] = 0
           /\ \A k \in 1..n : Text!SumTo(f)[k] = Text!SumTo(f)[k - 1] + f[k]
           /\ Text!Sum(f) = Text!SumTo(f)[n]
<1> DEFINE Sums(g, m) == g[0] = 0 /\ \A k \in 1..m : g[k] = g[k - 1] + f[k]
           T == {m \in 0..n : ~\E g \in [0..m -> Nat] : Sums(g, m)}
<1>0. f \in Seq(Nat) /\ Len(f) = n
  <2>1. f \in Seq(Nat)
    BY SeqDef
  <2>2. QED
    BY <2>1, LenProperties
<1>1. T = {}
  <2> SUFFICES ASSUME T # {} PROVE FALSE
    OBVIOUS
  <2>1. PICK m \in T : \A k \in T : m <= k
    <3>1. T \in SUBSET Nat
      OBVIOUS
    <3> HIDE DEF T
    <3>2. QED
      BY <3>1, LeastNumber
  <2>2. m \in 0..n /\ ~\E g \in [0..m -> Nat] : Sums(g, m)
    OBVIOUS
  <2>3. CASE m = 0
    <3> DEFINE z == [k \in 0..0 |-> 0]
    <3>1. z \in [0..0 -> Nat] /\ Sums(z, 0)
      OBVIOUS
    <3>2. QED
      BY <2>2, <2>3, <3>1
  <2>4. CASE m # 0
    <3>1. m - 1 \in 0..n /\ m - 1 < m /\ m \in 1..n
      BY <2>2, <2>4
    <3>2. PICK g \in [0..(m - 1) -> Nat] : Sums(g, m - 1)
      <4>1. m - 1 \notin T
        <5> HIDE DEF T
        <5>1. QED
          BY <2>1, <2>2, <3>1
      <4>2. \E g \in [0..(m - 1) -> Nat] : Sums(g, m - 1)
        <5> HIDE DEF Sums
        <5>1. QED
          BY <4>1, <3>1
      <4> HIDE DEF Sums
      <4>3. QED
        BY <4>2
    <3> DEFINE h == [k \in 0..m |-> IF k = m THEN g[m - 1] + f[m] ELSE g[k]]
    <3>3. h \in [0..m -> Nat]
      <4>1. f[m] \in Nat /\ g[m - 1] \in Nat
        BY <3>1
      <4>2. \A k \in 0..m : k # m => k \in 0..(m - 1)
        BY <3>1
      <4>3. QED
        BY <4>1, <4>2
    <3>4. ASSUME NEW k \in 1..m PROVE h[k] = h[k - 1] + f[k]
      <4>1. k \in 0..m /\ k - 1 \in 0..m /\ k - 1 # m
        BY <3>1
      <4>2. k # m => k \in 1..(m - 1)
        BY <3>1
      <4>3. QED
        BY <3>2, <4>1, <4>2
    <3>5. h[0] = 0
      <4>1. 0 \in 0..m /\ 0 # m
        BY <3>1
      <4>2. QED
        BY <3>2, <4>1
    <3>6. QED
      BY <2>2, <3>3, <3>4, <3>5
  <2>5. QED
    BY <2>3, <2>4
<1>2. PICK g \in [0..n -> Nat] : Sums(g, n)
  <2>1. n \in 0..n /\ n \notin T
    <3> HIDE DEF T
    <3>1. QED
      BY <1>1
  <2> HIDE DEF Sums
  <2>2. QED
    BY <2>1
<1>3. g = [k \in 0..n |-> IF k = 0 THEN 0 ELSE g[k - 1] + f[k]]
  <2>1. ASSUME NEW k \in 0..n PROVE g[k] = IF k = 0 THEN 0 ELSE g[k - 1] + f[k]
    <3>1. k # 0 => k \in 1..n
      OBVIOUS
    <3>2. QED
      BY <1>2, <3>1
  <2>2. QED
    BY <2>1
<1> HIDE DEF T, Sums
<1>4. Text!SumTo(f) = [k \in 0..n |-> IF k = 0 THEN 0 ELSE Text!SumTo(f)[k - 1] + f[k]]
  BY <1>0, <1>3 DEF Text!SumTo
<1>5. PICK s : s = Text!SumTo(f)
  OBVIOUS
<1>6. s = [k \in 0..n |-> IF k = 0 THEN 0 ELSE s[k - 1] + f[k]]
  BY <1>4, <1>5
<1>7. s[0] = 0 /\ \A k \in 1..n : s[k] = s[k - 1] + f[k]
  <2>1. 0 \in 0..n /\ \A k \in 1..n : k \in 0..n /\ k # 0
    OBVIOUS
  <2>2. QED
    BY <1>6, <2>1
\* Any two lists of sums are the same.
<1>8. \A k \in 0..n : s[k] = g[k]
  <2> DEFINE D == {k \in 0..n : s[k] # g[k]}
  <2> SUFFICES ASSUME D # {} PROVE FALSE
    OBVIOUS
  <2>1. PICK m \in D : \A k \in D : m <= k
    <3>1. D \in SUBSET Nat
      OBVIOUS
    <3> HIDE DEF D
    <3>2. QED
      BY <3>1, LeastNumber
  <2>2. m \in 0..n /\ s[m] # g[m]
    OBVIOUS
  <2>3. m # 0
    BY <1>2, <1>7, <2>2 DEF Sums
  <2>4. m - 1 \in 0..n /\ m - 1 < m /\ m \in 1..n
    BY <2>2, <2>3
  <2>5. s[m - 1] = g[m - 1]
    BY <2>1, <2>4
  <2>6. QED
    BY <1>2, <1>7, <2>2, <2>4, <2>5 DEF Sums
<1>9. s = g
  BY <1>6, <1>8
<1>10. QED
  BY <1>0, <1>2, <1>5, <1>9 DEF Sums, Text!Sum

\* A sum of a list that begins like one list and goes on like another whose first
\* member grows by d.
AreJoined(h, f, n, d, g, m) ==
    /\ n \in Nat /\ f \in [1..n -> Nat]
    /\ m \in Nat \ {0} /\ g \in [1..m -> Nat] /\ d \in Nat
    /\ h \in [1..(n + m) -> Nat]
    /\ \A k \in 1..n : h[k] = f[k]
    /\ h[n + 1] = g[1] + d
    /\ \A k \in 2..m : h[n + k] = g[k]

LEMMA SumOfTwo ==
    \A h, f, n, d, g, m : AreJoined(h, f, n, d, g, m) =>
       Text!Sum(h) = Text!Sum(f) + d + Text!Sum(g)
<1> SUFFICES ASSUME NEW h, NEW f, NEW n, NEW d, NEW g, NEW m, AreJoined(h, f, n, d, g, m)
             PROVE  Text!Sum(h) = Text!Sum(f) + d + Text!Sum(g)
  OBVIOUS
<1> USE DEF AreJoined
<1>1. PICK F \in [0..n -> Nat] : /\ F[0] = 0 /\ Text!Sum(f) = F[n]
                                 /\ \A k \in 1..n : F[k] = F[k - 1] + f[k]
  BY SumToIs
<1>2. PICK G \in [0..m -> Nat] : /\ G[0] = 0 /\ Text!Sum(g) = G[m]
                                 /\ \A k \in 1..m : G[k] = G[k - 1] + g[k]
  BY SumToIs
<1>3. PICK H \in [0..(n + m) -> Nat] : /\ H[0] = 0 /\ Text!Sum(h) = H[n + m]
                                       /\ \A k \in 1..(n + m) : H[k] = H[k - 1] + h[k]
  <2>1. n + m \in Nat
    OBVIOUS
  <2>2. QED
    BY <2>1, SumToIs
<1>4. \A k \in 0..n : H[k] = F[k]
  <2> DEFINE D == {k \in 0..n : H[k] # F[k]}
  <2> SUFFICES ASSUME D # {} PROVE FALSE
    OBVIOUS
  <2>1. PICK k \in D : \A j \in D : k <= j
    <3>1. D \in SUBSET Nat
      OBVIOUS
    <3> HIDE DEF D
    <3>2. QED
      BY <3>1, LeastNumber
  <2>2. k \in 0..n /\ H[k] # F[k]
    OBVIOUS
  <2>3. k # 0
    BY <1>1, <1>3, <2>2
  <2>4. k \in 1..n /\ k - 1 \in 0..n /\ k - 1 < k /\ k \in 1..(n + m) /\ H[k] # F[k]
    BY <2>2, <2>3
  <2>5. H[k - 1] = F[k - 1]
    BY <2>1, <2>4
  <2>6. H[k] = H[k - 1] + h[k] /\ F[k] = F[k - 1] + f[k] /\ h[k] = f[k]
    BY <1>1, <1>3, <2>4
  <2>7. QED
    BY <2>4, <2>5, <2>6
<1>5. \A k \in 1..m : H[n + k] = F[n] + d + G[k]
  <2> DEFINE D == {k \in 1..m : H[n + k] # F[n] + d + G[k]}
  <2> SUFFICES ASSUME D # {} PROVE FALSE
    OBVIOUS
  <2>1. PICK k \in D : \A j \in D : k <= j
    <3>1. D \in SUBSET Nat
      OBVIOUS
    <3> HIDE DEF D
    <3>2. QED
      BY <3>1, LeastNumber
  <2>2. k \in 1..m /\ n + k \in 1..(n + m) /\ n + k - 1 = n + (k - 1) /\ H[n + k] # F[n] + d + G[k]
    OBVIOUS
  <2>3. H[n + k] = H[n + (k - 1)] + h[n + k] /\ G[k] = G[k - 1] + g[k]
    BY <1>2, <1>3, <2>2
  <2>4. F[n] \in Nat /\ g[k] \in Nat /\ G[k - 1] \in Nat
    <3>1. n \in 0..n /\ k - 1 \in 0..m
      BY <2>2
    <3>2. QED
      BY <2>2, <3>1
  <2>5. CASE k = 1
    <3>1. H[n + 0] = F[n] /\ n + 0 = n /\ k - 1 = 0
      BY <1>4, <2>5
    <3>2. H[n + k] = F[n] + (g[1] + d) /\ G[k] = 0 + g[1]
      BY <1>2, <2>3, <2>5, <3>1
    <3>3. QED
      BY <2>2, <2>4, <2>5, <3>2
  <2>6. CASE k # 1
    <3>1. k - 1 \in 1..m /\ k - 1 < k /\ k \in 2..m
      BY <2>2, <2>6
    <3>2. H[n + (k - 1)] = F[n] + d + G[k - 1]
      BY <2>1, <3>1
    <3>3. h[n + k] = g[k]
      BY <3>1
    <3>4. H[n + k] = (F[n] + d + G[k - 1]) + g[k] /\ G[k] = G[k - 1] + g[k]
      BY <2>3, <3>2, <3>3
    <3>5. H[n + k] = F[n] + d + G[k]
      <4> HIDE DEF D
      <4> DEFINE a == F[n]
                 c == G[k - 1]
                 e == g[k]
      <4>1. a \in Nat /\ c \in Nat /\ e \in Nat
        BY <2>4
      <4>2. (a + d + c) + e = a + d + (c + e)
        <5> HIDE DEF a, c, e
        <5>1. QED
          BY <4>1
      <4>3. (F[n] + d + G[k - 1]) + g[k] = F[n] + d + (G[k - 1] + g[k])
        BY <4>2
      <4>4. QED
        BY <3>4, <4>3
    <3>6. QED
      BY <2>2, <3>5
  <2>7. QED
    BY <2>5, <2>6
<1>6. QED
  BY <1>1, <1>2, <1>3, <1>5

-----------------------------------------------------------------------------
(* The text of a digest *)

AllLines == {l \in Nat \X Nat : l[1] \in DOMAIN digest /\ l[2] \in DOMAIN digest[l[1]]}

MessageType == [lines : Seq(AllLines), length : Nat]

\* What may be a message: lines that follow each other and fit, or one line.
IsMessage(m) ==
    /\ m \in MessageType
    /\ m.lines # <<>> /\ Text!InSequence(m.lines)
    /\ Text!Size(m.lines) <= Limit \/ Len(m.lines) = 1

\* All the messages so far, and the line they have come to.
Told(done, last) == IF last = Text!Empty THEN done ELSE Append(done, last)

NextLine(messages) ==
    IF messages = <<>> THEN <<1, 1>> ELSE Text!After(Last(Last(messages).lines))

Chained(messages) ==
    \A k \in 1..Len(messages) :
       /\ IsMessage(messages[k])
       /\ messages[k].lines[1] = IF k = 1 THEN <<1, 1>> ELSE Text!After(Last(messages[k - 1].lines))

InOneMessage(messages, lines) ==
    \E k \in 1..Len(messages) : ToSet(lines) \subseteq ToSet(messages[k].lines)

DigestType == digest \in Seq(Seq(Nat \ {0})) /\ \A b \in 1..Len(digest) : digest[b] # <<>>

PieceInv ==
    /\ piece \in [block : Nat, done : Nat]
    /\ piece.block \in 1..(Len(digest) + 1)
    /\ IF piece.block <= Len(digest) THEN piece.done < Len(digest[piece.block]) ELSE piece.done = 0
    /\ piece.done > 0 => ~(Text!Whole(piece.block).length <= Limit)

\* The message that is being filled knows its size, or is one line that was cut.
CurrentInv ==
    current # Text!Empty =>
        /\ current.length <= Limit
        /\ \/ current.length = Text!Size(current.lines)
           \/ Len(current.lines) = 1 /\ current.length = Limit

MessagesInv ==
    /\ packed \in Seq(MessageType) /\ current \in MessageType
    /\ Chained(Told(packed, current))
    /\ NextLine(Told(packed, current)) = <<piece.block, piece.done + 1>>

BlocksInv ==
    \A b \in 1..(piece.block - 1) :
       Text!Whole(b).length <= Limit => InOneMessage(Told(packed, current), Text!Lines(b))

TextInv == DigestType /\ PieceInv /\ CurrentInv /\ MessagesInv /\ BlocksInv

LEMMA LineFacts ==
    ASSUME DigestType, NEW l \in AllLines
    PROVE  /\ l = <<l[1], l[2]>>
           /\ l[1] \in 1..Len(digest) /\ l[2] \in 1..Len(digest[l[1]])
           /\ Len(digest) \in Nat /\ Len(digest[l[1]]) \in Nat
           /\ Text!LengthOf(l) \in Nat \ {0}
<1>1. l \in Nat \X Nat /\ l[1] \in DOMAIN digest /\ l[2] \in DOMAIN digest[l[1]]
  BY DEF AllLines
<1>2. l = <<l[1], l[2]>>
  BY <1>1
<1>3. Len(digest) \in Nat /\ DOMAIN digest = 1..Len(digest)
  BY DEF DigestType
<1>4. digest[l[1]] \in Seq(Nat \ {0})
  BY <1>1 DEF DigestType
<1>5. /\ DOMAIN digest[l[1]] = 1..Len(digest[l[1]]) /\ Len(digest[l[1]]) \in Nat
      /\ digest[l[1]][l[2]] \in Nat \ {0}
  BY <1>1, <1>4
<1>6. QED
  BY <1>1, <1>2, <1>3, <1>5 DEF Text!LengthOf

\* What each line takes is a number.
LEMMA LineSizes ==
    ASSUME DigestType, NEW s \in Seq(AllLines)
    PROVE  [i \in DOMAIN s |-> Text!Break(s, i) + Text!LengthOf(s[i])] \in [1..Len(s) -> Nat]
<1>1. DOMAIN s = 1..Len(s) /\ \A i \in 1..Len(s) : s[i] \in AllLines
  OBVIOUS
<1>2. ASSUME NEW i \in 1..Len(s) PROVE Text!Break(s, i) + Text!LengthOf(s[i]) \in Nat
  <2>1. Text!LengthOf(s[i]) \in Nat
    BY <1>1, LineFacts
  <2>2. Text!Break(s, i) \in Nat
    BY DEF Text!Break
  <2>3. QED
    BY <2>1, <2>2
<1>3. QED
  BY <1>1, <1>2

LEMMA SizeIsNat ==
    ASSUME DigestType, NEW s \in Seq(AllLines)
    PROVE  Text!Size(s) \in Nat
<1> DEFINE f == [i \in DOMAIN s |-> Text!Break(s, i) + Text!LengthOf(s[i])]
<1>1. f \in [1..Len(s) -> Nat] /\ Len(s) \in Nat
  BY LineSizes
<1> HIDE DEF f
<1>2. Text!Sum(f) \in Nat
  <2>1. Len(s) \in 0..Len(s)
    BY <1>1
  <2>2. QED
    BY <1>1, <2>1, SumToIs
<1>3. Text!Size(s) = Text!Sum(f)
  BY DEF Text!Size, f
<1>4. QED
  BY <1>2, <1>3

LEMMA SizeOfLine ==
    ASSUME DigestType, NEW l \in AllLines
    PROVE  Text!Size(<<l>>) = Text!LengthOf(l)
<1> DEFINE s == <<l>>
           f == [i \in DOMAIN s |-> Text!Break(s, i) + Text!LengthOf(s[i])]
<1>1. s \in Seq(AllLines) /\ Len(s) = 1 /\ s[1] = l /\ DOMAIN s = 1..1
  OBVIOUS
<1>2. f \in [1..1 -> Nat]
  BY <1>1, LineSizes
<1>3. f[1] = 0 + Text!LengthOf(l)
  BY <1>1 DEF Text!Break
<1>4. Text!Size(s) = Text!Sum(f)
  BY DEF Text!Size
<1> HIDE DEF f, s
<1>5. PICK F \in [0..1 -> Nat] : F[0] = 0 /\ Text!Sum(f) = F[1] /\ F[1] = F[0] + f[1]
  <2>1. 1 \in 1..1 /\ 1 \in Nat /\ 1 - 1 = 0
    OBVIOUS
  <2>2. /\ Text!SumTo(f) \in [0..1 -> Nat] /\ Text!SumTo(f)[0] = 0
        /\ \A k \in 1..1 : Text!SumTo(f)[k] = Text!SumTo(f)[k - 1] + f[k]
        /\ Text!Sum(f) = Text!SumTo(f)[1]
    BY <1>2, <2>1, SumToIs
  <2>3. QED
    BY <2>1, <2>2
<1>6. Text!LengthOf(l) \in Nat
  BY LineFacts
<1>7. Text!Size(s) = Text!LengthOf(l)
  BY <1>3, <1>4, <1>5, <1>6
<1>8. QED
  BY <1>7 DEF s

\* Texts are joined by a line break, or by an empty line between blocks.
LEMMA SizeOfJoined ==
    ASSUME DigestType, NEW s \in Seq(AllLines), s # <<>>, NEW t \in Seq(AllLines), t # <<>>,
           NEW sep \in Nat, sep = IF t[1][1] = Last(s)[1] THEN 1 ELSE 2
    PROVE  Text!Size(s \o t) = Text!Size(s) + sep + Text!Size(t)
<1> DEFINE u == s \o t
           Weights(x) == [i \in DOMAIN x |-> Text!Break(x, i) + Text!LengthOf(x[i])]
<1>1. /\ Len(s) \in Nat \ {0} /\ Len(t) \in Nat \ {0}
      /\ u \in Seq(AllLines) /\ Len(u) = Len(s) + Len(t)
      /\ DOMAIN s = 1..Len(s) /\ DOMAIN t = 1..Len(t) /\ DOMAIN u = 1..(Len(s) + Len(t))
  OBVIOUS
<1>2. \A i \in 1..Len(s) : u[i] = s[i]
  OBVIOUS
<1>3. \A i \in 1..Len(t) : u[Len(s) + i] = t[i]
  OBVIOUS
<1>4. /\ Weights(s) \in [1..Len(s) -> Nat] /\ Weights(t) \in [1..Len(t) -> Nat]
      /\ Weights(u) \in [1..(Len(s) + Len(t)) -> Nat]
  BY <1>1, LineSizes
<1> HIDE DEF u
<1>5. ASSUME NEW i \in 1..Len(s) PROVE Weights(u)[i] = Weights(s)[i]
  <2>1. i \in DOMAIN u /\ i \in DOMAIN s /\ u[i] = s[i]
    BY <1>1, <1>2
  <2>2. i # 1 => i - 1 \in 1..Len(s)
    OBVIOUS
  <2>3. i # 1 => u[i - 1] = s[i - 1]
    BY <1>2, <2>2
  <2>4. Text!Break(u, i) = Text!Break(s, i)
    BY <2>1, <2>3 DEF Text!Break
  <2>5. QED
    BY <2>1, <2>4
<1>6. Weights(u)[Len(s) + 1] = Weights(t)[1] + sep
  <2>1. /\ 1 \in DOMAIN t /\ Len(s) + 1 \in DOMAIN u /\ u[Len(s) + 1] = t[1]
        /\ Len(s) + 1 # 1 /\ Len(s) + 1 - 1 = Len(s) /\ Len(s) \in 1..Len(s)
    BY <1>1, <1>3
  <2>2. u[Len(s)] = Last(s)
    BY <1>2, <2>1 DEF Last
  <2>3. Text!Break(u, Len(s) + 1) = sep
    BY <2>1, <2>2 DEF Text!Break
  <2>4. Text!Break(t, 1) = 0
    BY DEF Text!Break
  <2>5. Text!LengthOf(t[1]) \in Nat
    BY <2>1, LineFacts
  <2>6. Weights(u)[Len(s) + 1] = sep + Text!LengthOf(t[1]) /\ Weights(t)[1] = 0 + Text!LengthOf(t[1])
    BY <2>1, <2>3, <2>4
  <2>7. QED
    BY <2>5, <2>6
<1>7. ASSUME NEW i \in 2..Len(t) PROVE Weights(u)[Len(s) + i] = Weights(t)[i]
  <2>1. /\ i \in 1..Len(t) /\ i - 1 \in 1..Len(t) /\ i # 1 /\ Len(s) + i # 1
        /\ Len(s) + i \in 1..(Len(s) + Len(t)) /\ Len(s) + i - 1 = Len(s) + (i - 1)
    BY <1>1
  <2>2. u[Len(s) + i] = t[i] /\ u[Len(s) + (i - 1)] = t[i - 1]
    BY <1>3, <2>1
  <2>3. Text!Break(u, Len(s) + i) = Text!Break(t, i)
    BY <2>1, <2>2 DEF Text!Break
  <2>4. Len(s) + i \in DOMAIN u /\ i \in DOMAIN t
    BY <1>1, <2>1
  <2>5. QED
    BY <2>2, <2>3, <2>4
<1>8. Text!Size(s) = Text!Sum(Weights(s)) /\ Text!Size(t) = Text!Sum(Weights(t))
      /\ Text!Size(u) = Text!Sum(Weights(u))
  BY DEF Text!Size
<1> HIDE DEF Weights
<1>9. Text!Sum(Weights(u)) = Text!Sum(Weights(s)) + sep + Text!Sum(Weights(t))
  <2> DEFINE n == Len(s)
             m == Len(t)
             f == Weights(s)
             g == Weights(t)
             h == Weights(u)
  <2>1. /\ n \in Nat /\ m \in Nat \ {0} /\ sep \in Nat
        /\ f \in [1..n -> Nat] /\ g \in [1..m -> Nat] /\ h \in [1..(n + m) -> Nat]
    BY <1>1, <1>4
  <2>2. \A k \in 1..n : h[k] = f[k]
    BY <1>5
  <2>3. h[n + 1] = g[1] + sep
    BY <1>6
  <2>4. \A k \in 2..m : h[n + k] = g[k]
    BY <1>7
  <2> HIDE DEF n, m, f, g, h
  <2>5. Text!Sum(h) = Text!Sum(f) + sep + Text!Sum(g)
    <3>1. AreJoined(h, f, n, sep, g, m)
      BY <2>1, <2>2, <2>3, <2>4 DEF AreJoined
    <3>2. QED
      BY <3>1, SumOfTwo
  <2>6. QED
    BY <2>5 DEF f, g, h
<1>10. QED
  BY <1>8, <1>9 DEF u

-----------------------------------------------------------------------------
(* Adding to the messages *)

LEMMA AfterFacts ==
    ASSUME DigestType, NEW l \in AllLines
    PROVE  /\ Text!After(l)[2] = 1 => Text!After(l)[1] # l[1]
           /\ Text!After(l)[2] # 1 => Text!After(l)[1] = l[1]
<1>1. l[1] \in Nat /\ l[2] \in Nat \ {0}
  BY LineFacts
<1>2. CASE l[2] < Len(digest[l[1]])
  <2>1. Text!After(l) = <<l[1], l[2] + 1>>
    BY <1>2 DEF Text!After
  <2>2. QED
    BY <1>1, <2>1
<1>3. CASE ~(l[2] < Len(digest[l[1]]))
  <2>1. Text!After(l) = <<l[1] + 1, 1>>
    BY <1>3 DEF Text!After
  <2>2. QED
    BY <1>1, <2>1
<1>4. QED
  BY <1>2, <1>3

\* Lines that go on where others end.
LEMMA JoinedInSequence ==
    ASSUME NEW s \in Seq(AllLines), s # <<>>, Text!InSequence(s),
           NEW t \in Seq(AllLines), t # <<>>, Text!InSequence(t),
           t[1] = Text!After(Last(s))
    PROVE  /\ s \o t \in Seq(AllLines) /\ s \o t # <<>> /\ Text!InSequence(s \o t)
           /\ (s \o t)[1] = s[1] /\ Last(s \o t) = Last(t)
           /\ ToSet(s) \subseteq ToSet(s \o t) /\ ToSet(t) \subseteq ToSet(s \o t)
<1> DEFINE u == s \o t
<1>1. /\ Len(s) \in Nat \ {0} /\ Len(t) \in Nat \ {0}
      /\ u \in Seq(AllLines) /\ Len(u) = Len(s) + Len(t) /\ u # <<>>
      /\ DOMAIN s = 1..Len(s) /\ DOMAIN t = 1..Len(t) /\ DOMAIN u = 1..(Len(s) + Len(t))
  OBVIOUS
<1>2. \A i \in 1..Len(s) : u[i] = s[i]
  OBVIOUS
<1>3. \A i \in 1..Len(t) : u[Len(s) + i] = t[i]
  OBVIOUS
<1> HIDE DEF u
<1>4. ASSUME NEW i \in DOMAIN u, i > 1 PROVE u[i] = Text!After(u[i - 1])
  <2>1. CASE i <= Len(s)
    <3>1. i \in 1..Len(s) /\ i - 1 \in 1..Len(s)
      BY <1>1, <1>4, <2>1
    <3>2. u[i] = s[i] /\ u[i - 1] = s[i - 1]
      BY <1>2, <3>1
    <3>3. QED
      BY <1>1, <1>4, <3>1, <3>2 DEF Text!InSequence
  <2>2. CASE i = Len(s) + 1
    <3>1. 1 \in 1..Len(t) /\ i - 1 = Len(s) /\ Len(s) \in 1..Len(s)
      BY <1>1, <2>2
    <3>2. u[i] = t[1] /\ u[i - 1] = s[Len(s)]
      BY <1>2, <1>3, <2>2, <3>1
    <3>3. QED
      BY <3>2 DEF Last
  <2>3. CASE i > Len(s) + 1
    <3> DEFINE j == i - Len(s)
    <3>1. j \in 1..Len(t) /\ j - 1 \in 1..Len(t) /\ j > 1 /\ i = Len(s) + j /\ i - 1 = Len(s) + (j - 1)
      <4>1. i \in 1..(Len(s) + Len(t)) /\ Len(s) \in Nat /\ Len(t) \in Nat
        BY <1>1, <1>4
      <4>2. QED
        BY <2>3, <4>1
    <3> HIDE DEF j
    <3>2. u[i] = t[j] /\ u[i - 1] = t[j - 1]
      BY <1>3, <3>1
    <3>3. QED
      BY <1>1, <3>1, <3>2 DEF Text!InSequence
  <2>4. i \in Nat
    BY <1>1
  <2>5. QED
    BY <1>1, <2>1, <2>2, <2>3, <2>4
<1>5. u[1] = s[1]
  BY <1>1, <1>2
<1>6. Last(u) = Last(t)
  <2>1. Len(t) \in 1..Len(t)
    BY <1>1
  <2>2. QED
    BY <1>1, <1>3, <2>1 DEF Last
<1>7. ToSet(s) \subseteq ToSet(u)
  BY <1>1, <1>2 DEF ToSet
<1>8. ToSet(t) \subseteq ToSet(u)
  <2>1. \A i \in 1..Len(t) : Len(s) + i \in DOMAIN u
    BY <1>1
  <2>2. QED
    BY <1>1, <1>3, <2>1 DEF ToSet
<1>9. QED
  BY <1>1, <1>4, <1>5, <1>6, <1>7, <1>8 DEF u, Text!InSequence

\* A message of its own.
LEMMA ChainedAppend ==
    ASSUME NEW ms \in Seq(MessageType), Chained(ms), NEW m, IsMessage(m),
           m.lines[1] = NextLine(ms)
    PROVE  /\ Append(ms, m) \in Seq(MessageType) /\ Chained(Append(ms, m))
           /\ NextLine(Append(ms, m)) = Text!After(Last(m.lines))
           /\ \A lines : InOneMessage(ms, lines) => InOneMessage(Append(ms, m), lines)
           /\ \A lines : ToSet(lines) \subseteq ToSet(m.lines) => InOneMessage(Append(ms, m), lines)
<1> DEFINE ns == Append(ms, m)
<1>1. m \in MessageType
  BY DEF IsMessage
<1>2. /\ ns \in Seq(MessageType) /\ Len(ns) = Len(ms) + 1 /\ Len(ms) \in Nat
      /\ \A k \in 1..Len(ms) : ns[k] = ms[k]
      /\ ns[Len(ms) + 1] = m /\ ns # <<>>
  BY <1>1
<1> HIDE DEF ns
<1>3. ASSUME NEW k \in 1..Len(ns)
      PROVE  /\ IsMessage(ns[k])
             /\ ns[k].lines[1] = IF k = 1 THEN <<1, 1>> ELSE Text!After(Last(ns[k - 1].lines))
  <2>1. CASE k \in 1..Len(ms)
    <3>1. ns[k] = ms[k] /\ (k # 1 => k - 1 \in 1..Len(ms))
      BY <1>2, <2>1
    <3>2. k # 1 => ns[k - 1] = ms[k - 1]
      BY <1>2, <3>1
    <3>3. QED
      BY <2>1, <3>1, <3>2 DEF Chained
  <2>2. CASE k = Len(ms) + 1
    <3>1. ns[k] = m
      BY <1>2, <2>2
    <3>2. k = 1 => ms = <<>>
      BY <1>2, <2>2
    <3>3. k # 1 => ms # <<>> /\ k - 1 = Len(ms) /\ Len(ms) \in 1..Len(ms)
      BY <1>2, <2>2
    <3>4. k # 1 => ns[k - 1] = Last(ms)
      BY <1>2, <3>3 DEF Last
    <3>5. QED
      BY <3>1, <3>2, <3>3, <3>4 DEF NextLine
  <2>3. QED
    BY <1>2, <2>1, <2>2
<1>4. Last(ns) = m
  BY <1>2 DEF Last
<1>5. 1..Len(ms) \subseteq 1..Len(ns) /\ Len(ms) + 1 \in 1..Len(ns)
  BY <1>2
<1>6. \A lines : InOneMessage(ms, lines) => InOneMessage(ns, lines)
  BY <1>2, <1>5 DEF InOneMessage
<1>7. \A lines : ToSet(lines) \subseteq ToSet(m.lines) => InOneMessage(ns, lines)
  BY <1>2, <1>5 DEF InOneMessage
<1>8. QED
  BY <1>2, <1>3, <1>4, <1>6, <1>7 DEF ns, Chained, NextLine

\* The last message is as it was, or longer.
LEMMA ChainedLast ==
    ASSUME NEW ms \in Seq(MessageType), NEW c \in MessageType,
           Chained(Append(ms, c))
    PROVE  /\ Chained(ms) /\ IsMessage(c) /\ c.lines[1] = NextLine(ms)
           /\ NextLine(Append(ms, c)) = Text!After(Last(c.lines))
           /\ \A lines : InOneMessage(Append(ms, c), lines) =>
                 InOneMessage(ms, lines) \/ ToSet(lines) \subseteq ToSet(c.lines)
<1> DEFINE ns == Append(ms, c)
<1>2. /\ ns \in Seq(MessageType) /\ Len(ns) = Len(ms) + 1 /\ Len(ms) \in Nat
      /\ \A k \in 1..Len(ms) : ns[k] = ms[k]
      /\ ns[Len(ms) + 1] = c /\ ns # <<>>
  OBVIOUS
<1> HIDE DEF ns
<1>3. Chained(ns)
  BY DEF ns
<1>4. 1..Len(ms) \subseteq 1..Len(ns) /\ Len(ms) + 1 \in 1..Len(ns)
  BY <1>2
<1>5. ASSUME NEW k \in 1..Len(ms)
      PROVE  /\ IsMessage(ms[k])
             /\ ms[k].lines[1] = IF k = 1 THEN <<1, 1>> ELSE Text!After(Last(ms[k - 1].lines))
  <2>1. ns[k] = ms[k] /\ k \in 1..Len(ns) /\ (k # 1 => k - 1 \in 1..Len(ms))
    BY <1>2, <1>4
  <2>2. k # 1 => ns[k - 1] = ms[k - 1]
    BY <1>2, <2>1
  <2>3. QED
    BY <1>3, <2>1, <2>2 DEF Chained
<1>6. IsMessage(c)
  BY <1>2, <1>3, <1>4 DEF Chained
<1>7. c.lines[1] = NextLine(ms)
  <2>1. c.lines[1] = IF Len(ms) + 1 = 1 THEN <<1, 1>> ELSE Text!After(Last(ns[Len(ms) + 1 - 1].lines))
    BY <1>2, <1>3, <1>4 DEF Chained
  <2>2. CASE ms = <<>>
    BY <2>1, <2>2 DEF NextLine
  <2>3. CASE ms # <<>>
    <3>1. Len(ms) + 1 # 1 /\ Len(ms) + 1 - 1 = Len(ms) /\ Len(ms) \in 1..Len(ms)
      BY <1>2, <2>3
    <3>2. ns[Len(ms)] = Last(ms)
      BY <1>2, <3>1 DEF Last
    <3>3. QED
      BY <2>1, <2>3, <3>1, <3>2 DEF NextLine
  <2>4. QED
    BY <2>2, <2>3
<1>8. Last(ns) = c
  BY <1>2 DEF Last
<1>9. ASSUME NEW lines, InOneMessage(ns, lines)
      PROVE  InOneMessage(ms, lines) \/ ToSet(lines) \subseteq ToSet(c.lines)
  <2>1. PICK k \in 1..Len(ns) : ToSet(lines) \subseteq ToSet(ns[k].lines)
    BY <1>9 DEF InOneMessage
  <2>2. k \in 1..Len(ms) \/ k = Len(ms) + 1
    BY <1>2
  <2>3. QED
    BY <1>2, <2>1, <2>2 DEF InOneMessage
<1>10. QED
  BY <1>2, <1>5, <1>6, <1>7, <1>8, <1>9 DEF ns, Chained, NextLine

\* What add makes of the messages.
LEMMA AddTells ==
    ASSUME DigestType, CurrentInv, packed \in Seq(MessageType), current \in MessageType,
           Chained(Told(packed, current)),
           NEW t \in MessageType, t.lines # <<>>, Text!InSequence(t.lines),
           t.length = Text!Size(t.lines), t.length <= Limit \/ Len(t.lines) = 1,
           t.lines[1] = NextLine(Told(packed, current)),
           NEW sep \in Nat \ {0},
           current # Text!Empty => sep = IF t.lines[1][1] = Last(current.lines)[1] THEN 1 ELSE 2,
           Text!Add(t, sep)
    PROVE  /\ packed' \in Seq(MessageType) /\ current' \in MessageType
           /\ current' # Text!Empty /\ current'.length <= Limit
           /\ \/ current'.length = Text!Size(current'.lines)
              \/ Len(current'.lines) = 1 /\ current'.length = Limit
           /\ Chained(Told(packed', current'))
           /\ NextLine(Told(packed', current')) = Text!After(Last(t.lines))
           /\ \A lines : InOneMessage(Told(packed, current), lines) =>
                 InOneMessage(Told(packed', current'), lines)
           /\ \A lines : ToSet(lines) \subseteq ToSet(t.lines) =>
                 InOneMessage(Told(packed', current'), lines)
<1> DEFINE ms == Told(packed, current)
           j == Text!Joined(t, sep)
           cut == [t EXCEPT !.length = IF @ > Limit THEN Limit ELSE @]
           Goal == /\ packed' \in Seq(MessageType) /\ current' \in MessageType
                   /\ current' # Text!Empty /\ current'.length <= Limit
                   /\ \/ current'.length = Text!Size(current'.lines)
                      \/ Len(current'.lines) = 1 /\ current'.length = Limit
                   /\ Chained(Told(packed', current'))
                   /\ NextLine(Told(packed', current')) = Text!After(Last(t.lines))
                   /\ \A lines : InOneMessage(ms, lines) =>
                         InOneMessage(Told(packed', current'), lines)
                   /\ \A lines : ToSet(lines) \subseteq ToSet(t.lines) =>
                         InOneMessage(Told(packed', current'), lines)
<1>1. Limit \in Nat \ {0}
  BY NotificationsAssumption DEF Text!DigestAssumption
<1>2. ms \in Seq(MessageType) /\ Chained(ms)
  BY DEF Told
<1>3. t.lines \in Seq(AllLines) /\ t.length \in Nat
  BY DEF MessageType
<1>4. Text!Empty.lines = <<>>
  BY DEF Text!Empty
<1>5. ASSUME NEW m \in MessageType, m.lines = t.lines, m.length <= Limit,
             m.length = t.length \/ (Len(t.lines) = 1 /\ m.length = Limit),
             packed' = ms, current' = m
      PROVE  Goal
  <2>1. m # Text!Empty
    BY <1>4, <1>5
  <2>2. IsMessage(m)
    BY <1>1, <1>3, <1>5 DEF IsMessage
  <2>3. Told(packed', current') = Append(ms, m)
    BY <1>5, <2>1 DEF Told
  <2>4. m.lines[1] = NextLine(ms)
    BY <1>5
  <2> HIDE DEF ms, cut, j
  <2>5. /\ Chained(Append(ms, m)) /\ Append(ms, m) \in Seq(MessageType)
        /\ NextLine(Append(ms, m)) = Text!After(Last(m.lines))
        /\ \A lines : InOneMessage(ms, lines) => InOneMessage(Append(ms, m), lines)
        /\ \A lines : ToSet(lines) \subseteq ToSet(m.lines) => InOneMessage(Append(ms, m), lines)
    BY <1>2, <2>2, <2>4, ChainedAppend
  <2>6. QED
    BY <1>2, <1>5, <2>1, <2>3, <2>5 DEF ms
<1>6. CASE current = Text!Empty \/ ~(j <= Limit)
  <2>1. packed' = ms
    BY <1>6 DEF Text!Add, Text!Joined, Told
  <2>2. CASE j <= Limit
    <3>1. current = Text!Empty /\ j = t.length
      BY <1>6, <2>2 DEF Text!Joined
    <3>2. current' = [lines |-> <<>> \o t.lines, length |-> t.length]
      BY <2>2, <3>1 DEF Text!Add, Text!Joined, Text!Empty
    <3>3. <<>> \o t.lines = t.lines
      BY <1>3
    <3>4. current' \in MessageType /\ current'.lines = t.lines /\ current'.length = t.length
      BY <1>3, <3>2, <3>3 DEF MessageType
    <3>5. QED
      BY <1>5, <2>1, <2>2, <3>1, <3>4
  <2>3. CASE ~(j <= Limit)
    <3>1. current' = cut
      BY <2>3 DEF Text!Add
    <3>2. /\ cut \in MessageType /\ cut.lines = t.lines
          /\ cut.length = IF t.length > Limit THEN Limit ELSE t.length
      BY <1>1, <1>3 DEF MessageType
    <3> HIDE DEF cut
    <3>3. cut.length <= Limit /\ (cut.length = t.length \/ (Len(t.lines) = 1 /\ cut.length = Limit))
      BY <1>1, <1>3, <3>2
    <3>4. QED
      BY <1>5, <2>1, <3>1, <3>2, <3>3
  <2>4. QED
    BY <2>2, <2>3
<1>7. CASE current # Text!Empty /\ j <= Limit
  <2>1. ms = Append(packed, current)
    BY <1>7 DEF Told
  <2>2. /\ Chained(packed) /\ IsMessage(current) /\ current.lines[1] = NextLine(packed)
        /\ NextLine(ms) = Text!After(Last(current.lines))
        /\ \A lines : InOneMessage(ms, lines) =>
              InOneMessage(packed, lines) \/ ToSet(lines) \subseteq ToSet(current.lines)
    BY <2>1, ChainedLast
  <2>3. current.lines \in Seq(AllLines) /\ current.length \in Nat /\ current.lines # <<>>
        /\ Text!InSequence(current.lines)
    BY <2>2 DEF MessageType, IsMessage
  <2>4. j = current.length + sep + t.length
    BY <1>7 DEF Text!Joined
  <2>5. current.length = Text!Size(current.lines)
    BY <1>1, <1>3, <1>7, <2>3, <2>4 DEF CurrentInv
  <2>6. Text!Size(current.lines \o t.lines) = j
    BY <1>3, <1>7, <2>3, <2>4, <2>5, SizeOfJoined
  <2> DEFINE both == current.lines \o t.lines
             m == [lines |-> both, length |-> j]
  <2>7. /\ both \in Seq(AllLines) /\ both # <<>> /\ Text!InSequence(both)
        /\ both[1] = current.lines[1] /\ Last(both) = Last(t.lines)
        /\ ToSet(current.lines) \subseteq ToSet(both) /\ ToSet(t.lines) \subseteq ToSet(both)
    BY <1>3, <2>2, <2>3, JoinedInSequence
  <2>8. packed' = packed /\ current' = m
    BY <1>7 DEF Text!Add
  <2>9. j \in Nat
    BY <1>3, <2>3, <2>4
  <2> HIDE DEF both, j, ms
  <2>10. IsMessage(m) /\ m.lines = both /\ m.length = j
    BY <1>7, <2>6, <2>7, <2>9 DEF IsMessage, MessageType, both
  <2>11. m # Text!Empty
    BY <1>4, <2>7, <2>10
  <2> HIDE DEF m
  <2>12. m.lines[1] = NextLine(packed)
    BY <2>2, <2>7, <2>10
  <2>13. /\ Chained(Append(packed, m)) /\ Append(packed, m) \in Seq(MessageType)
         /\ NextLine(Append(packed, m)) = Text!After(Last(m.lines))
         /\ \A lines : InOneMessage(packed, lines) => InOneMessage(Append(packed, m), lines)
         /\ \A lines : ToSet(lines) \subseteq ToSet(m.lines) => InOneMessage(Append(packed, m), lines)
    BY <2>2, <2>10, <2>12, ChainedAppend
  <2>14. Told(packed', current') = Append(packed, m)
    BY <2>8, <2>11 DEF Told
  <2>15. m \in MessageType
    BY <2>10 DEF IsMessage
  <2>16. current'.length = Text!Size(current'.lines) /\ current'.length <= Limit
    BY <1>7, <2>6, <2>8, <2>10 DEF both
  <2>17. \A lines : InOneMessage(ms, lines) => InOneMessage(Append(packed, m), lines)
    <3>1. \A lines : ToSet(lines) \subseteq ToSet(current.lines) => ToSet(lines) \subseteq ToSet(m.lines)
      BY <2>7, <2>10
    <3>2. QED
      BY <2>2, <2>13, <3>1
  <2>18. \A lines : ToSet(lines) \subseteq ToSet(t.lines) => InOneMessage(Append(packed, m), lines)
    BY <2>7, <2>10, <2>13
  <2>19. NextLine(Append(packed, m)) = Text!After(Last(t.lines))
    BY <2>7, <2>10, <2>13
  <2>20. QED
    BY <2>8, <2>11, <2>13, <2>14, <2>15, <2>16, <2>17, <2>18, <2>19 DEF ms
<1>8. QED
  BY <1>6, <1>7

-----------------------------------------------------------------------------
(* The steps *)

\* The lines of a block.
LEMMA LinesFacts ==
    ASSUME DigestType, NEW b \in 1..Len(digest)
    PROVE  /\ Text!Lines(b) \in Seq(AllLines) /\ Text!Lines(b) # <<>>
           /\ Text!InSequence(Text!Lines(b)) /\ Text!Lines(b)[1] = <<b, 1>>
           /\ Text!After(Last(Text!Lines(b))) = <<b + 1, 1>>
<1> DEFINE s == Text!Lines(b)
           n == Len(digest[b])
<1>1. /\ digest[b] \in Seq(Nat \ {0}) /\ digest[b] # <<>> /\ b \in DOMAIN digest /\ b \in Nat
      /\ n \in Nat \ {0} /\ DOMAIN digest[b] = 1..n
  <2>1. Len(digest) \in Nat /\ DOMAIN digest = 1..Len(digest)
    BY DEF DigestType
  <2>2. digest[b] \in Seq(Nat \ {0}) /\ digest[b] # <<>>
    BY <2>1 DEF DigestType
  <2>3. QED
    BY <2>1, <2>2
<1>2. s = [i \in 1..n |-> <<b, i>>]
  BY <1>1 DEF Text!Lines
<1> HIDE DEF s
<1>3. \A i \in 1..n : <<b, i>> \in AllLines
  BY <1>1 DEF AllLines
<1>4. s \in [1..n -> AllLines]
  BY <1>2, <1>3
<1> HIDE DEF n
<1>5. s \in Seq(AllLines) /\ Len(s) = n /\ DOMAIN s = 1..n
  <2>1. s \in Seq(AllLines)
    BY <1>1, <1>4, SeqDef
  <2>2. QED
    BY <1>1, <1>4, <2>1, LenProperties
<1>6. s # <<>>
  BY <1>1, <1>5
<1>7. ASSUME NEW i \in DOMAIN s, i > 1 PROVE s[i] = Text!After(s[i - 1])
  <2>1. i \in 1..n /\ i - 1 \in 1..n /\ i - 1 < n /\ i - 1 + 1 = i
    BY <1>1, <1>5, <1>7
  <2>2. s[i] = <<b, i>> /\ s[i - 1] = <<b, i - 1>>
    BY <1>2, <2>1
  <2>3. Text!After(<<b, i - 1>>) = <<b, i - 1 + 1>>
    BY <2>1 DEF Text!After, n
  <2>4. QED
    BY <2>1, <2>2, <2>3
<1>8. s[1] = <<b, 1>> /\ Last(s) = <<b, n>>
  <2>1. 1 \in 1..n /\ n \in 1..n
    BY <1>1
  <2>2. QED
    BY <1>2, <1>5, <2>1 DEF Last
<1>9. Text!After(<<b, n>>) = <<b + 1, 1>>
  BY <1>1 DEF Text!After, n
<1>10. QED
  BY <1>5, <1>6, <1>7, <1>8, <1>9 DEF s, Text!InSequence

\* Nothing but the text of the digest is the meaning of its lines.
LEMMA SameDigest ==
    ASSUME digest' = digest, DigestType,
           PieceInv, piece' \in [block : Nat, done : Nat],
           piece'.block \in 1..(Len(digest) + 1),
           IF piece'.block <= Len(digest) THEN piece'.done < Len(digest[piece'.block])
                                          ELSE piece'.done = 0,
           piece'.done > 0 => ~(Text!Whole(piece'.block).length <= Limit),
           packed' \in Seq(MessageType), current' \in MessageType,
           current' # Text!Empty =>
              /\ current'.length <= Limit
              /\ \/ current'.length = Text!Size(current'.lines)
                 \/ Len(current'.lines) = 1 /\ current'.length = Limit,
           Chained(Told(packed', current')),
           NextLine(Told(packed', current')) = <<piece'.block, piece'.done + 1>>,
           \A b \in 1..(piece'.block - 1) :
              Text!Whole(b).length <= Limit => InOneMessage(Told(packed', current'), Text!Lines(b))
    PROVE  TextInv'
<1>1. DigestType'
  BY DEF DigestType
<1>2. AllLines' = AllLines
  BY DEF AllLines
<1>3. MessageType' = MessageType
  BY <1>2 DEF MessageType
<1>4. ASSUME NEW lines PROVE Text!Size(lines)' = Text!Size(lines)
  <2>1. ASSUME NEW l PROVE Text!LengthOf(l)' = Text!LengthOf(l)
    BY DEF Text!LengthOf
  <2>2. [i \in DOMAIN lines |-> Text!Break(lines, i) + Text!LengthOf(lines[i])']
           = [i \in DOMAIN lines |-> Text!Break(lines, i) + Text!LengthOf(lines[i])]
    BY <2>1
  <2>3. QED
    BY <2>2 DEF Text!Size
<1>5. ASSUME NEW b PROVE Text!Lines(b)' = Text!Lines(b) /\ Text!Whole(b)'.length = Text!Whole(b).length
  <2>1. Text!Lines(b)' = Text!Lines(b)
    BY DEF Text!Lines
  <2>2. QED
    BY <1>4, <2>1 DEF Text!Whole
<1>6. ASSUME NEW l PROVE Text!After(l)' = Text!After(l)
  BY DEF Text!After
<1>7. ASSUME NEW m, IsMessage(m) PROVE IsMessage(m)'
  BY <1>3, <1>4, <1>6, <1>7 DEF IsMessage, Text!InSequence
<1>8. PieceInv'
  BY <1>5 DEF PieceInv
<1>9. CurrentInv'
  BY <1>4 DEF CurrentInv
<1>10. MessagesInv'
  BY <1>3, <1>6, <1>7 DEF MessagesInv, Chained, NextLine, Told
<1>11. BlocksInv'
  BY <1>5 DEF BlocksInv, InOneMessage, Told
<1>12. QED
  BY <1>1, <1>8, <1>9, <1>10, <1>11 DEF TextInv

LEMMA TextInit == Text!Init => TextInv
<1> SUFFICES ASSUME Text!Init PROVE TextInv
  OBVIOUS
<1> DEFINE S == Seq(Nat \ {0}) \ {<<>>}
<1>1. /\ Plain \subseteq Nat \ {0} /\ Lengths \subseteq Nat \ {0} /\ MaxLines \in Nat \ {0}
      /\ MaxBanks \in Nat /\ MaxChanges \in Nat
  BY NotificationsAssumption DEF Text!DigestAssumption
<1>2. ASSUME NEW n \in Nat \ {0}, NEW f \in [1..n -> Nat \ {0}]
      PROVE  f \in Seq(Nat \ {0}) /\ Len(f) = n /\ f # <<>>
  <2>1. f \in Seq(Nat \ {0})
    BY SeqDef
  <2>2. Len(f) = n
    BY <2>1, LenProperties
  <2>3. QED
    BY <2>1, <2>2
<1>3. ASSUME NEW s \in Text!BankBlocks PROVE s \in S
  <2>1. PICK c \in Text!BankChanges, o \in [1..3 -> Plain] : s = Text!BankBlock(c, o)
    BY <1>3 DEF Text!BankBlocks
  <2>2. PICK n \in 1..MaxChanges : c \in [1..n -> Lengths]
    BY <2>1 DEF Text!BankChanges
  <2>3. n \in Nat \ {0}
    BY <1>1
  <2>4. c \in [1..n -> Nat \ {0}]
    BY <1>1, <2>2
  <2>5. c \in Seq(Nat \ {0}) /\ Len(c) = n
    BY <1>2, <2>3, <2>4
  <2>6. o[1] \in Nat \ {0} /\ o[2] \in Nat \ {0} /\ o[3] \in Nat \ {0}
    <3>1. 1 \in 1..3 /\ 2 \in 1..3 /\ 3 \in 1..3
      OBVIOUS
    <3>2. o[1] \in Plain /\ o[2] \in Plain /\ o[3] \in Plain
      BY <3>1
    <3>3. QED
      BY <1>1, <3>2
  <2>7. CASE Len(c) > Bulk
    <3>1. s = <<o[1], o[2]>> \o (IF DashboardUrl THEN <<o[3]>> ELSE <<>>)
      BY <2>1, <2>7 DEF Text!BankBlock
    <3>2. CASE DashboardUrl
      <4>1. s = <<o[1], o[2]>> \o <<o[3]>>
        BY <3>1, <3>2
      <4>2. QED
        BY <2>6, <4>1
    <3>3. CASE ~DashboardUrl
      <4>1. s = <<o[1], o[2]>> \o <<>>
        BY <3>1, <3>3
      <4>2. QED
        BY <2>6, <4>1
    <3>4. QED
      BY <3>2, <3>3
  <2>8. CASE ~(Len(c) > Bulk) /\ Len(c) > MaxLines
    <3>1. s = <<o[1]>> \o SubSeq(c, 1, MaxLines) \o <<o[2]>>
      BY <2>1, <2>8 DEF Text!BankBlock
    <3>2. SubSeq(c, 1, MaxLines) \in Seq(Nat \ {0})
      BY <1>1, <2>5, <2>8
    <3>3. QED
      BY <2>6, <3>1, <3>2
  <2>9. CASE ~(Len(c) > Bulk) /\ ~(Len(c) > MaxLines)
    <3>1. s = <<o[1]>> \o c
      BY <2>1, <2>9 DEF Text!BankBlock
    <3>2. QED
      BY <2>5, <2>6, <3>1
  <2>10. QED
    BY <2>7, <2>8, <2>9
<1>4. DigestType
  <2>1. CASE digest = <<>>
    BY <2>1 DEF DigestType
  <2>2. CASE digest # <<>>
    <3>1. PICK header \in Plain, n \in 1..MaxBanks : \E blocks \in [1..n -> Text!BankBlocks] :
             digest = <<<<header>>>> \o blocks
      BY <2>2 DEF Text!Init
    <3>2. PICK blocks \in [1..n -> Text!BankBlocks] : digest = <<<<header>>>> \o blocks
      BY <3>1
    <3>3. n \in Nat
      BY <1>1
    <3>4. blocks \in [1..n -> S]
      <4> HIDE DEF S
      <4>1. QED
        BY <1>3
    <3>5. <<header>> \in S
      <4>1. header \in Nat \ {0}
        BY <1>1
      <4>2. QED
        BY <4>1
    <3> HIDE DEF S
    <3>6. blocks \in Seq(S)
      BY <3>3, <3>4, SeqDef
    <3>7. digest \in Seq(S)
      BY <3>2, <3>5, <3>6
    <3>8. \A b \in 1..Len(digest) : digest[b] \in S
      BY <3>7
    <3>9. Len(digest) \in Nat /\ digest \in [1..Len(digest) -> S]
      BY <3>7, LenProperties
    <3>10. digest \in [1..Len(digest) -> Seq(Nat \ {0})]
      BY <3>9 DEF S
    <3>11. digest \in Seq(Seq(Nat \ {0}))
      BY <3>9, <3>10, SeqDef
    <3>12. QED
      BY <3>8, <3>11 DEF DigestType, S
  <2>3. QED
    BY <2>1, <2>2
<1>5. piece = [block |-> 1, done |-> 0] /\ packed = <<>> /\ current = Text!Empty
  BY DEF Text!Init
<1>6. PieceInv
  <2>1. Len(digest) \in Nat
    BY <1>4 DEF DigestType
  <2>2. 1 <= Len(digest) => Len(digest[1]) > 0
    <3>1. 1 <= Len(digest) => digest[1] \in Seq(Nat \ {0}) /\ digest[1] # <<>>
      BY <1>4, <2>1 DEF DigestType
    <3>2. QED
      BY <3>1
  <2>3. QED
    BY <1>5, <2>1, <2>2 DEF PieceInv
<1>7. CurrentInv
  BY <1>5 DEF CurrentInv
<1>8. MessagesInv
  <2>1. Told(packed, current) = <<>>
    BY <1>5 DEF Told
  <2>2. current \in MessageType
    BY <1>5 DEF MessageType, Text!Empty
  <2>3. QED
    BY <1>5, <2>1, <2>2 DEF MessagesInv, Chained, NextLine
<1>9. BlocksInv
  BY <1>5 DEF BlocksInv
<1>10. QED
  BY <1>4, <1>6, <1>7, <1>8, <1>9 DEF TextInv

\* The separator is that of the lines it stands between.
LEMMA Separator ==
    ASSUME TextInv, current # Text!Empty
    PROVE  LET l == Last(current.lines)
           IN  /\ piece.done = 0 => l[1] # piece.block
               /\ piece.done # 0 => l[1] = piece.block
<1>1. Told(packed, current) = Append(packed, current)
  BY DEF Told
<1>2. /\ DigestType /\ packed \in Seq(MessageType) /\ current \in MessageType
      /\ Chained(Append(packed, current))
      /\ NextLine(Append(packed, current)) = <<piece.block, piece.done + 1>>
      /\ piece.block \in Nat /\ piece.done \in Nat
  BY <1>1 DEF TextInv, MessagesInv, PieceInv
<1>3. IsMessage(current) /\ Text!After(Last(current.lines)) = <<piece.block, piece.done + 1>>
  BY <1>2, ChainedLast
<1>4. current.lines \in Seq(AllLines) /\ current.lines # <<>>
  BY <1>3 DEF IsMessage, MessageType
<1>5. Last(current.lines) \in AllLines
  BY <1>4 DEF Last
<1>6. QED
  BY <1>2, <1>3, <1>5, AfterFacts

LEMMA AddBlockStep == TextInv /\ Text!AddBlock => TextInv'
<1> SUFFICES ASSUME TextInv, Text!AddBlock PROVE TextInv'
  OBVIOUS
<1> DEFINE b == piece.block
           t == Text!Whole(b)
           ms == Told(packed, current)
           ns == Told(packed', current')
<1>1. /\ b <= Len(digest) /\ piece.done = 0 /\ t.length <= Limit /\ Text!Add(t, 2)
      /\ piece' = [block |-> b + 1, done |-> 0] /\ digest' = digest
  BY DEF Text!AddBlock
<1>2. DigestType /\ PieceInv /\ CurrentInv /\ MessagesInv /\ BlocksInv
  BY DEF TextInv
<1>3. b \in 1..Len(digest) /\ b \in Nat /\ Len(digest) \in Nat
  BY <1>1, <1>2 DEF PieceInv, DigestType
<1>4. /\ t.lines = Text!Lines(b) /\ t.length = Text!Size(Text!Lines(b))
      /\ t = [lines |-> Text!Lines(b), length |-> t.length]
  BY DEF Text!Whole
<1>5. /\ t.lines \in Seq(AllLines) /\ t.lines # <<>> /\ Text!InSequence(t.lines)
      /\ t.lines[1] = <<b, 1>> /\ Text!After(Last(t.lines)) = <<b + 1, 1>>
  BY <1>2, <1>3, <1>4, LinesFacts
<1>6. t.length \in Nat
  BY <1>2, <1>4, <1>5, SizeIsNat
<1> HIDE DEF t
<1>7. t \in MessageType
  BY <1>4, <1>5, <1>6 DEF MessageType
<1>8. t.lines[1] = NextLine(ms)
  BY <1>1, <1>2, <1>5 DEF MessagesInv
<1>9. current # Text!Empty => 2 = IF t.lines[1][1] = Last(current.lines)[1] THEN 1 ELSE 2
  BY <1>1, <1>5, Separator
<1>10. /\ packed \in Seq(MessageType) /\ current \in MessageType /\ Chained(ms)
  BY <1>2 DEF MessagesInv
<1>11. /\ packed' \in Seq(MessageType) /\ current' \in MessageType
       /\ current' # Text!Empty /\ current'.length <= Limit
       /\ \/ current'.length = Text!Size(current'.lines)
          \/ Len(current'.lines) = 1 /\ current'.length = Limit
       /\ Chained(ns) /\ NextLine(ns) = <<b + 1, 1>>
       /\ \A lines : InOneMessage(ms, lines) => InOneMessage(ns, lines)
       /\ \A lines : ToSet(lines) \subseteq ToSet(t.lines) => InOneMessage(ns, lines)
  <2>1. 2 \in Nat \ {0}
    OBVIOUS
  <2>2. QED
    BY <1>1, <1>2, <1>4, <1>5, <1>7, <1>8, <1>9, <1>10, <2>1, AddTells
<1>12. ASSUME NEW k \in 1..b, Text!Whole(k).length <= Limit
       PROVE  InOneMessage(ns, Text!Lines(k))
  <2>1. CASE k = b
    BY <1>4, <1>11, <2>1
  <2>2. CASE k # b
    <3>1. k \in 1..(b - 1)
      BY <1>3, <2>2
    <3>2. QED
      BY <1>2, <1>11, <1>12, <3>1 DEF BlocksInv
  <2>3. QED
    BY <2>1, <2>2
<1>13. /\ piece' \in [block : Nat, done : Nat] /\ piece'.block \in 1..(Len(digest) + 1)
       /\ piece'.block = b + 1 /\ piece'.done = 0 /\ b + 1 - 1 = b /\ 0 + 1 = 1
       /\ 1..(piece'.block - 1) = 1..b
  BY <1>1, <1>3
<1>14. piece'.block <= Len(digest) => piece'.done < Len(digest[piece'.block])
  <2>1. piece'.block <= Len(digest) =>
          digest[piece'.block] \in Seq(Nat \ {0}) /\ digest[piece'.block] # <<>>
    BY <1>2, <1>3, <1>13 DEF DigestType
  <2>2. QED
    BY <1>13, <2>1
<1> HIDE DEF ns, ms, b
<1>15. \A k \in 1..(piece'.block - 1) :
          Text!Whole(k).length <= Limit => InOneMessage(ns, Text!Lines(k))
  BY <1>12, <1>13
<1>16. NextLine(ns) = <<piece'.block, piece'.done + 1>>
  BY <1>11, <1>13
<1>17. QED
  BY <1>1, <1>2, <1>11, <1>13, <1>14, <1>15, <1>16, SameDigest DEF ns

LEMMA AddLineStep == TextInv /\ Text!AddLine => TextInv'
<1> SUFFICES ASSUME TextInv, Text!AddLine PROVE TextInv'
  OBVIOUS
<1> DEFINE b == piece.block
           i == piece.done + 1
           t == Text!Line(b, i)
           sep == IF piece.done = 0 THEN 2 ELSE 1
           ms == Told(packed, current)
           ns == Told(packed', current')
<1>1. /\ b <= Len(digest) /\ Text!Whole(b).length > Limit /\ Text!Add(t, sep)
      /\ piece' = IF i = Len(digest[b]) THEN [block |-> b + 1, done |-> 0]
                  ELSE [piece EXCEPT !.done = @ + 1]
      /\ digest' = digest
  BY DEF Text!AddLine
<1>2. DigestType /\ PieceInv /\ CurrentInv /\ MessagesInv /\ BlocksInv
  BY DEF TextInv
<1>3. /\ b \in 1..Len(digest) /\ b \in Nat /\ Len(digest) \in Nat /\ piece.done \in Nat
      /\ piece.done < Len(digest[b]) /\ piece \in [block : Nat, done : Nat]
  BY <1>1, <1>2 DEF PieceInv, DigestType
<1>4. /\ digest[b] \in Seq(Nat \ {0}) /\ Len(digest[b]) \in Nat
      /\ DOMAIN digest = 1..Len(digest) /\ DOMAIN digest[b] = 1..Len(digest[b])
      /\ i \in 1..Len(digest[b]) /\ i \in Nat
  <2>1. DOMAIN digest = 1..Len(digest) /\ digest[b] \in Seq(Nat \ {0})
    BY <1>2, <1>3 DEF DigestType
  <2>2. QED
    BY <1>3, <2>1
<1>5. <<b, i>> \in AllLines
  BY <1>3, <1>4 DEF AllLines
<1>6. ~(Text!Whole(b).length <= Limit)
  <2>1. Text!Lines(b) \in Seq(AllLines)
    BY <1>2, <1>3, LinesFacts
  <2>2. Text!Whole(b).length \in Nat
    BY <1>2, <2>1, SizeIsNat DEF Text!Whole
  <2>3. Limit \in Nat
    BY NotificationsAssumption DEF Text!DigestAssumption
  <2>4. QED
    BY <1>1, <2>2, <2>3
<1>7. t.lines = <<<<b, i>>>> /\ t.length = digest[b][i] /\ t = [lines |-> <<<<b, i>>>>, length |-> digest[b][i]]
  BY DEF Text!Line
<1>8. t.length \in Nat /\ t.length = Text!Size(t.lines)
  <2>1. Text!LengthOf(<<b, i>>) = digest[b][i]
    BY DEF Text!LengthOf
  <2>2. QED
    BY <1>2, <1>5, <1>7, <2>1, SizeOfLine, LineFacts
<1> HIDE DEF t
<1>9. /\ t.lines \in Seq(AllLines) /\ t.lines # <<>> /\ Len(t.lines) = 1
      /\ t.lines[1] = <<b, i>> /\ Last(t.lines) = <<b, i>>
  BY <1>5, <1>7 DEF Last
<1>10. Text!InSequence(t.lines)
  <2>1. DOMAIN t.lines = 1..1
    BY <1>7
  <2>2. QED
    BY <2>1 DEF Text!InSequence
<1>11. t \in MessageType
  <2>1. digest[b][i] \in Nat
    BY <1>7, <1>8
  <2>2. <<<<b, i>>>> \in Seq(AllLines)
    BY <1>5
  <2>3. QED
    BY <1>7, <2>1, <2>2 DEF MessageType
<1>12. t.lines[1] = NextLine(ms)
  BY <1>2, <1>9 DEF MessagesInv
<1>13. current # Text!Empty => sep = IF t.lines[1][1] = Last(current.lines)[1] THEN 1 ELSE 2
  BY <1>9, Separator
<1>14. /\ packed \in Seq(MessageType) /\ current \in MessageType /\ Chained(ms)
  BY <1>2 DEF MessagesInv
<1>15. /\ packed' \in Seq(MessageType) /\ current' \in MessageType
       /\ current' # Text!Empty /\ current'.length <= Limit
       /\ \/ current'.length = Text!Size(current'.lines)
          \/ Len(current'.lines) = 1 /\ current'.length = Limit
       /\ Chained(ns) /\ NextLine(ns) = Text!After(<<b, i>>)
       /\ \A lines : InOneMessage(ms, lines) => InOneMessage(ns, lines)
  <2>1. sep \in Nat \ {0}
    OBVIOUS
  <2> HIDE DEF sep
  <2>2. QED
    BY <1>1, <1>2, <1>8, <1>9, <1>10, <1>11, <1>12, <1>13, <1>14, <2>1, AddTells
<1>16. ASSUME NEW k \in 1..b, Text!Whole(k).length <= Limit
       PROVE  InOneMessage(ns, Text!Lines(k))
  <2>1. k # b
    BY <1>6, <1>16
  <2>2. k \in 1..(b - 1)
    BY <1>3, <2>1
  <2>3. QED
    BY <1>2, <1>15, <1>16, <2>2 DEF BlocksInv
<1>17. CASE i = Len(digest[b])
  <2>1. piece' = [block |-> b + 1, done |-> 0]
    BY <1>1, <1>17
  <2>2. Text!After(<<b, i>>) = <<b + 1, 1>>
    BY <1>4, <1>17 DEF Text!After
  <2>3. /\ piece' \in [block : Nat, done : Nat] /\ piece'.block \in 1..(Len(digest) + 1)
        /\ piece'.block = b + 1 /\ piece'.done = 0 /\ b + 1 - 1 = b /\ 0 + 1 = 1
        /\ 1..(piece'.block - 1) = 1..b
    BY <1>3, <2>1
  <2>4. piece'.block <= Len(digest) => piece'.done < Len(digest[piece'.block])
    <3>1. piece'.block <= Len(digest) =>
            digest[piece'.block] \in Seq(Nat \ {0}) /\ digest[piece'.block] # <<>>
      BY <1>2, <1>3, <2>3 DEF DigestType
    <3>2. QED
      BY <2>3, <3>1
  <2> HIDE DEF ns, ms, b, i
  <2>5. \A k \in 1..(piece'.block - 1) :
           Text!Whole(k).length <= Limit => InOneMessage(ns, Text!Lines(k))
    BY <1>16, <2>3
  <2>6. NextLine(ns) = <<piece'.block, piece'.done + 1>>
    BY <1>15, <2>2, <2>3
  <2>7. QED
    BY <1>1, <1>2, <1>15, <2>3, <2>4, <2>5, <2>6, SameDigest DEF ns
<1>18. CASE i # Len(digest[b])
  <2>1. piece' = [piece EXCEPT !.done = @ + 1]
    BY <1>1, <1>18
  <2>2. Text!After(<<b, i>>) = <<b, i + 1>>
    BY <1>4, <1>18 DEF Text!After
  <2>3. /\ piece' \in [block : Nat, done : Nat] /\ piece'.block \in 1..(Len(digest) + 1)
        /\ piece'.block = b /\ piece'.done = i /\ piece'.done < Len(digest[b])
    BY <1>3, <1>4, <1>18, <2>1
  <2> HIDE DEF ns, ms, b, i
  <2>4. \A k \in 1..(piece'.block - 1) :
           Text!Whole(k).length <= Limit => InOneMessage(ns, Text!Lines(k))
    <3>1. \A k \in 1..(b - 1) : k \in 1..b
      BY <1>3
    <3>2. QED
      BY <1>16, <2>3, <3>1
  <2>5. NextLine(ns) = <<piece'.block, piece'.done + 1>>
    BY <1>15, <2>2, <2>3
  <2>6. /\ IF piece'.block <= Len(digest) THEN piece'.done < Len(digest[piece'.block])
                                          ELSE piece'.done = 0
        /\ ~(Text!Whole(piece'.block).length <= Limit)
    BY <1>3, <1>6, <2>3
  <2>7. QED
    BY <1>1, <1>2, <1>15, <2>3, <2>4, <2>5, <2>6, SameDigest DEF ns
<1>19. QED
  BY <1>17, <1>18

LEMMA FinishStep == TextInv /\ Text!Finish => TextInv'
<1> SUFFICES ASSUME TextInv, Text!Finish PROVE TextInv'
  OBVIOUS
<1>1. /\ current # Text!Empty /\ packed' = Append(packed, current) /\ current' = Text!Empty
      /\ digest' = digest /\ piece' = piece
  BY DEF Text!Finish
<1>2. DigestType /\ PieceInv /\ CurrentInv /\ MessagesInv /\ BlocksInv
  BY DEF TextInv
<1>3. packed' \in Seq(MessageType) /\ current' \in MessageType
  <2>1. Text!Empty \in MessageType
    BY DEF Text!Empty, MessageType
  <2>2. QED
    BY <1>1, <1>2, <2>1 DEF MessagesInv
<1>4. Told(packed', current') = Told(packed, current)
  BY <1>1 DEF Told
<1>5. QED
  BY <1>1, <1>2, <1>3, <1>4, SameDigest DEF PieceInv, MessagesInv, BlocksInv

LEMMA TextStep == TextInv /\ [Text!Next]_(Text!digestVars) => TextInv'
<1> SUFFICES ASSUME TextInv, [Text!Next]_(Text!digestVars) PROVE TextInv'
  OBVIOUS
<1>1. CASE Text!AddBlock
  BY <1>1, AddBlockStep
<1>2. CASE Text!AddLine
  BY <1>2, AddLineStep
<1>3. CASE Text!Finish
  BY <1>3, FinishStep
<1>4. CASE UNCHANGED Text!digestVars
  <2>1. digest' = digest /\ piece' = piece /\ packed' = packed /\ current' = current
    BY <1>4 DEF Text!digestVars
  <2>2. DigestType /\ PieceInv /\ CurrentInv /\ MessagesInv /\ BlocksInv
    BY DEF TextInv
  <2>3. QED
    BY <2>1, <2>2, SameDigest DEF PieceInv, CurrentInv, MessagesInv, BlocksInv
<1>5. QED
  BY <1>1, <1>2, <1>3, <1>4 DEF Text!Next

LEMMA TextIsWhole == TextInv => Text!TextTypeOK /\ Text!DigestTellsAll
<1> SUFFICES ASSUME TextInv PROVE Text!TextTypeOK /\ Text!DigestTellsAll
  OBVIOUS
<1> DEFINE ms == Told(packed, current)
<1>1. DigestType /\ PieceInv /\ CurrentInv /\ MessagesInv /\ BlocksInv
  BY DEF TextInv
<1>2. packed \in Seq(MessageType) /\ current \in MessageType /\ Chained(ms)
  BY <1>1 DEF MessagesInv
<1>3. DOMAIN packed = 1..Len(packed) /\ Len(packed) \in Nat
  BY <1>2
<1>4. Text!TextTypeOK
  BY <1>1, <1>2 DEF Text!TextTypeOK, PieceInv, MessageType
<1>5. Chained(packed)
  <2>1. CASE current = Text!Empty
    BY <1>2, <2>1 DEF Told
  <2>2. CASE current # Text!Empty
    <3>1. ms = Append(packed, current)
      BY <2>2 DEF Told
    <3>2. QED
      BY <1>2, <3>1, ChainedLast
  <2>3. QED
    BY <2>1, <2>2
<1>6. \A k \in DOMAIN packed : Text!Size(packed[k].lines) <= Limit \/ Len(packed[k].lines) = 1
  BY <1>3, <1>5 DEF Chained, IsMessage
<1>7. ASSUME piece.block > Len(digest), current = Text!Empty
      PROVE  /\ digest = <<>> <=> packed = <<>>
             /\ \A k \in DOMAIN packed :
                   /\ packed[k].lines # <<>> /\ Text!InSequence(packed[k].lines)
                   /\ packed[k].lines[1] = IF k = 1 THEN <<1, 1>>
                                           ELSE Text!After(Last(packed[k - 1].lines))
             /\ packed # <<>> => Text!After(Last(Last(packed).lines)) = <<Len(digest) + 1, 1>>
             /\ \A b \in DOMAIN digest : Text!Whole(b).length <= Limit =>
                   \E k \in DOMAIN packed :
                      ToSet(Text!Lines(b)) \subseteq ToSet(packed[k].lines)
  <2>1. ms = packed
    BY <1>7 DEF Told
  <2>2. Len(digest) \in Nat /\ DOMAIN digest = 1..Len(digest)
    BY <1>1 DEF DigestType
  <2>3. piece.block = Len(digest) + 1 /\ piece.done = 0
    BY <1>1, <1>7, <2>2 DEF PieceInv
  <2>4. NextLine(packed) = <<Len(digest) + 1, 1>>
    BY <1>1, <2>1, <2>3 DEF MessagesInv
  <2>5. packed = <<>> => digest = <<>>
    <3>1. packed = <<>> => Len(digest) + 1 = 1
      BY <2>4 DEF NextLine
    <3>2. QED
      BY <1>1, <2>2, <3>1 DEF DigestType
  <2>6. digest = <<>> => packed = <<>>
    <3> SUFFICES ASSUME digest = <<>>, packed # <<>> PROVE FALSE
      OBVIOUS
    <3>1. 1 \in 1..Len(packed)
      BY <1>2, <1>3
    <3>2. packed[1].lines \in Seq(AllLines) /\ packed[1].lines # <<>>
      BY <1>5, <3>1 DEF Chained, IsMessage, MessageType
    <3>3. packed[1].lines[1] \in AllLines
      BY <3>2
    <3>4. QED
      BY <3>3 DEF AllLines
  <2>7. \A k \in DOMAIN packed :
           /\ packed[k].lines # <<>> /\ Text!InSequence(packed[k].lines)
           /\ packed[k].lines[1] = IF k = 1 THEN <<1, 1>>
                                   ELSE Text!After(Last(packed[k - 1].lines))
    BY <1>3, <1>5 DEF Chained, IsMessage
  <2>8. packed # <<>> => Text!After(Last(Last(packed).lines)) = <<Len(digest) + 1, 1>>
    BY <2>4 DEF NextLine
  <2>9. \A b \in DOMAIN digest : Text!Whole(b).length <= Limit =>
           \E k \in DOMAIN packed : ToSet(Text!Lines(b)) \subseteq ToSet(packed[k].lines)
    <3>1. \A b \in DOMAIN digest : b \in 1..(piece.block - 1)
      BY <2>2, <2>3
    <3>2. QED
      BY <1>1, <1>3, <2>1, <3>1 DEF BlocksInv, InOneMessage
  <2>10. QED
    BY <2>5, <2>6, <2>7, <2>8, <2>9
<1>8. Text!DigestTellsAll
  <2>1. \A s : Text!Last(s) = Last(s) /\ Text!ToSet(s) = ToSet(s)
    BY DEF Last, ToSet, Text!Last, Text!ToSet
  <2>2. QED
    BY <1>6, <1>7, <2>1 DEF Text!DigestTellsAll
<1>9. QED
  BY <1>4, <1>8

\* Whatever the changes, the limit and the lengths of the lines, the messages of a
\* digest tell every line once and in order, fit into what Telegram takes unless
\* one line does not, and keep every block together that fits; beside a bot whose
\* state has its type.
THEOREM DigestTellsAllTheorem == Spec /\ Text!Spec => []DigestTellsAll
<1>1. Text!Spec => []TextInv
  BY TextInit, TextStep, PTL DEF Text!Spec
<1>2. TypeOK /\ TextInv => DigestTellsAll
  BY TextIsWhole DEF DigestTellsAll
<1>3. Spec => []TypeOK
  BY TypeCorrect
<1>4. QED
  BY <1>1, <1>2, <1>3, PTL
=============================================================================
