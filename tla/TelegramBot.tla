----------------------------- MODULE TelegramBot -----------------------------
(***************************************************************************)
(* Delivery of digests and alerts, and the commands that subscribe         *)
(* (app/telegram_bot.py), on one event loop.                               *)
(*                                                                         *)
(* A job is a coroutine of broadcast or send_admin: run_all holds its lock *)
(* while it notifies, so there is one digest at a time; the notice of      *)
(* expiring proxies is an alert at any time.  An action is what happens    *)
(* from one await to the next: Telegram takes a message or does not and    *)
(* the coroutine goes on; a statement on the table of subscribers.         *)
(* Commands come one after the other (python-telegram-bot's default) and   *)
(* change nothing but their one row.  Texts and events are left out.       *)
(***************************************************************************)
EXTENDS Naturals, Sequences, FiniteSets

CONSTANTS Chats,
          Fixed,      \* TELEGRAM_CHAT_ID, a set of at most one chat
          Admin,      \* TELEGRAM_ADMIN_CHAT, a set of at most one chat
          Parts,      \* messages of a digest
          Attempts,   \* SEND_ATTEMPTS
          Faults      \* what happens: "network", "limit", "reject", "db", "crash"

ASSUME BotAssumption ==
    /\ Fixed \subseteq Chats /\ IsFiniteSet(Fixed) /\ Cardinality(Fixed) <= 1
    /\ Admin \subseteq Chats /\ IsFiniteSet(Admin) /\ Cardinality(Admin) <= 1
    /\ Parts \in Nat \ {0}
    /\ Attempts \in Nat \ {0}
    /\ Faults \subseteq {"network", "limit", "reject", "db", "crash"}

Configured == Fixed \cup Admin

Jobs == {"digest", "alert"}

VARIABLES app,          \* _app: None in "none" and "stopped"
          subscribers,  \* table telegram_subscribers
          blocked,      \* environment: chats that refuse the bot
          job,
          inbox,        \* history variable: inbox[j][c], parts of the job under
                        \* way that arrived at c
          wants,        \* history variable: /start and no /stop since
          excused       \* history variable: blocked the bot since /start, or
                        \* were about to be dropped when it came

vars == <<app, subscribers, blocked, job, inbox, wants, excused>>

\* chats: those the job is for; todo: those after to; part, tries: the message
\* that is sent to it and how often it was tried before.
Job == [phase : {"idle", "sending", "dropping", "recording"},
        chats : SUBSET Chats, todo : SUBSET Chats, to : SUBSET Chats,
        part : Nat, tries : Nat, failed : SUBSET Chats]

NoJob == [phase |-> "idle", chats |-> {}, todo |-> {}, to |-> {},
          part |-> 0, tries |-> 0, failed |-> {}]

TypeOK ==
    /\ app \in {"none", "starting", "ready", "stopping", "stopped"}
    /\ subscribers \subseteq Chats
    /\ blocked \subseteq Chats
    /\ job \in [Jobs -> Job]
    /\ \A j \in Jobs : /\ Cardinality(job[j].to) <= 1
                       /\ job[j].part <= Parts /\ job[j].tries < Attempts
    /\ inbox \in [Jobs -> [Chats -> Seq(1..Parts)]]
    /\ wants \subseteq Chats
    /\ excused \subseteq Chats

EmptyInbox == [c \in Chats |-> <<>>]

Init ==
    /\ app = "none"
    /\ subscribers = {}
    /\ blocked = {}
    /\ job = [j \in Jobs |-> NoJob]
    /\ inbox = [j \in Jobs |-> EmptyInbox]
    /\ wants = {}
    /\ excused = {}

-----------------------------------------------------------------------------
(* How a job goes on: the sets of records it may continue with *)

PartsOf(j) == IF j = "digest" THEN Parts ELSE 1

\* The rows come back in no particular order.
NextChat(r) ==
    IF r.todo = {} THEN {[r EXCEPT !.phase = "recording"]}
    ELSE {[r EXCEPT !.phase = "sending", !.to = {c}, !.todo = @ \ {c}, !.part = 1, !.tries = 0] :
             c \in r.todo}

\* Mutant of GiveUp: the rest of the digest is sent all the same.
GiveUpPart(r) ==
    IF r.part < Parts THEN {[r EXCEPT !.part = @ + 1, !.tries = 0, !.failed = @ \cup r.to]}
    ELSE NextChat([r EXCEPT !.failed = @ \cup r.to])

\* Mutant of GiveUp: one chat that fails ends the broadcast.
GiveUpAll(r) == {[r EXCEPT !.phase = "recording", !.failed = @ \cup r.to]}

\* The rest of the digest would fail the same way.
GiveUp(r) == NextChat([r EXCEPT !.failed = @ \cup r.to])

NextPart(j, r) ==
    IF r.part < PartsOf(j) THEN {[r EXCEPT !.part = @ + 1, !.tries = 0]} ELSE NextChat(r)

\* Mutant of Retry: after the last attempt the count starts over.
RetryForever(r) == {[r EXCEPT !.tries = (@ + 1) % Attempts]}

Retry(r) ==
    IF r.tries + 1 < Attempts THEN {[r EXCEPT !.tries = @ + 1]} ELSE GiveUp(r)

-----------------------------------------------------------------------------
(* broadcast and send_admin *)

HasApp == app \in {"starting", "ready", "stopping"}

Recipients(j) == IF j = "digest" THEN subscribers \cup Fixed ELSE Admin

\* Without recipients there is nothing but an event.
Begin(j) ==
    /\ job[j].phase = "idle"
    /\ HasApp
    /\ Recipients(j) # {}
    /\ \E r \in NextChat([NoJob EXCEPT !.chats = Recipients(j), !.todo = Recipients(j)]) :
          job' = [job EXCEPT ![j] = r]
    /\ inbox' = [inbox EXCEPT ![j] = EmptyInbox]
    /\ UNCHANGED <<app, subscribers, blocked, wants, excused>>

Continue(j, records) == \E r \in records : job' = [job EXCEPT ![j] = r]

\* The message arrives at the chat it is for.
Arrive(j) ==
    inbox' = [inbox EXCEPT ![j] =
                 [c \in Chats |-> IF c \in job[j].to THEN Append(@[c], job[j].part) ELSE @[c]]]

Sending(j) == job[j].phase = "sending"

Accepting(j) == Sending(j) /\ HasApp /\ job[j].to \cap blocked = {}

Delivered(j) ==
    /\ Accepting(j)
    /\ Arrive(j)
    /\ Continue(j, NextPart(j, job[j]))
    /\ UNCHANGED <<app, subscribers, blocked, wants, excused>>

\* NetworkError: the message may have arrived, only the answer did not.
TimedOut(j) ==
    /\ "network" \in Faults /\ Sending(j) /\ HasApp
    /\ \/ Accepting(j) /\ Arrive(j)
       \/ UNCHANGED inbox
    /\ Continue(j, Retry(job[j]))
    /\ UNCHANGED <<app, subscribers, blocked, wants, excused>>

\* RetryAfter.
Limited(j) ==
    /\ "limit" \in Faults /\ Sending(j) /\ HasApp
    /\ Continue(j, Retry(job[j]))
    /\ UNCHANGED <<app, subscribers, blocked, inbox, wants, excused>>

\* Mutant of Reject: a chat that cannot take a message is dropped as well.
RejectAndDrop(j) ==
    /\ "reject" \in Faults /\ Sending(j) /\ HasApp
    /\ Continue(j, {[job[j] EXCEPT !.phase = "dropping"]})
    /\ UNCHANGED <<app, subscribers, blocked, inbox, wants, excused>>

\* BadRequest: malformed message, chat not found.
Reject(j) ==
    /\ "reject" \in Faults /\ Sending(j) /\ HasApp
    /\ Continue(j, GiveUp(job[j]))
    /\ UNCHANGED <<app, subscribers, blocked, inbox, wants, excused>>

\* Any other exception: the bot is gone, or not initialised, or shut down.
NotReady(j) ==
    /\ Sending(j) /\ app # "ready"
    /\ Continue(j, GiveUp(job[j]))
    /\ UNCHANGED <<app, subscribers, blocked, inbox, wants, excused>>

\* Forbidden.  A configured chat keeps its row, others are dropped.
Refused(j) ==
    /\ Sending(j) /\ HasApp /\ job[j].to \cap blocked # {}
    /\ IF job[j].to \subseteq Configured THEN Continue(j, GiveUp(job[j]))
       ELSE Continue(j, {[job[j] EXCEPT !.phase = "dropping"]})
    /\ UNCHANGED <<app, subscribers, blocked, inbox, wants, excused>>

Drop(j) ==
    /\ job[j].phase = "dropping"
    /\ subscribers' = subscribers \ job[j].to
    /\ Continue(j, GiveUp(job[j]))
    /\ UNCHANGED <<app, blocked, inbox, wants, excused>>

\* _drop_chat raises inside the handler of Forbidden: nothing catches it before
\* the caller of broadcast.
DropFails(j) ==
    /\ "db" \in Faults \/ app = "stopped"   \* the pool is closed after the bot
    /\ job[j].phase = "dropping"
    /\ Continue(j, {[job[j] EXCEPT !.phase = "idle"]})
    /\ UNCHANGED <<app, subscribers, blocked, inbox, wants, excused>>

\* The event that says how many chats were reached.
Record(j) ==
    /\ job[j].phase = "recording"
    /\ Continue(j, {NoJob})
    /\ inbox' = [inbox EXCEPT ![j] = EmptyInbox]
    /\ UNCHANGED <<app, subscribers, blocked, wants, excused>>

JobStep(j) ==
    \/ Delivered(j) \/ TimedOut(j) \/ Limited(j) \/ Reject(j) \/ NotReady(j)
    \/ Refused(j) \/ Drop(j) \/ DropFails(j) \/ Record(j)

-----------------------------------------------------------------------------
(* The chats *)

\* /start.  Who blocks the bot cannot send it anything.
Start(c) ==
    /\ app = "ready" /\ c \notin blocked
    /\ subscribers' = subscribers \cup {c}
    /\ wants' = wants \cup {c}
    /\ excused' = IF \E j \in Jobs : job[j].phase = "dropping" /\ job[j].to = {c}
                  THEN excused \cup {c} ELSE excused \ {c}
    /\ UNCHANGED <<app, blocked, job, inbox>>

\* /stop
Stop(c) ==
    /\ app = "ready" /\ c \notin blocked
    /\ subscribers' = subscribers \ {c}
    /\ wants' = wants \ {c}
    /\ UNCHANGED <<app, blocked, job, inbox, excused>>

Block(c) ==
    /\ c \notin blocked
    /\ blocked' = blocked \cup {c}
    /\ excused' = excused \cup {c}
    /\ UNCHANGED <<app, subscribers, job, inbox, wants>>

Unblock(c) ==
    /\ c \in blocked
    /\ blocked' = blocked \ {c}
    /\ UNCHANGED <<app, subscribers, job, inbox, wants, excused>>

-----------------------------------------------------------------------------
(* The application *)

\* start() sets _app before it initialises it and begins to poll.
StartBot ==
    /\ \/ app = "none" /\ app' = "starting"
       \/ app = "starting" /\ app' = "ready"
    /\ UNCHANGED <<subscribers, blocked, job, inbox, wants, excused>>

\* stop() stops polling and shuts _app down before it is None.
StopBot ==
    /\ \/ app \in {"starting", "ready"} /\ app' = "stopping"
       \/ app = "stopping" /\ app' = "stopped"
    /\ UNCHANGED <<subscribers, blocked, job, inbox, wants, excused>>

\* The process ends and may be started again.
Crash ==
    /\ "crash" \in Faults /\ app # "none"
    /\ app' = "none"
    /\ job' = [j \in Jobs |-> NoJob]
    /\ inbox' = [j \in Jobs |-> EmptyInbox]
    /\ UNCHANGED <<subscribers, blocked, wants, excused>>

Next ==
    \/ \E j \in Jobs : Begin(j) \/ JobStep(j)
    \/ \E c \in Chats : Start(c) \/ Stop(c) \/ Block(c) \/ Unblock(c)
    \/ StartBot \/ StopBot \/ Crash

Spec == Init /\ [][Next]_vars

\* Every await of a job is a request or a sleep with a bound.
FairSpec == Spec /\ \A j \in Jobs : WF_vars(JobStep(j))

-----------------------------------------------------------------------------
(* Properties *)

Got(j, c) == {inbox[j][c][i] : i \in 1..Len(inbox[j][c])}

\* However often answers are lost, a chat sees the beginning of the digest, in
\* order and without gaps, and no part more often than SEND_ATTEMPTS times.
ArrivesInOrder ==
    \A j \in Jobs : \A c \in Chats :
        LET s == inbox[j][c] IN
        /\ Got(j, c) \subseteq 1..PartsOf(j)
        /\ s # <<>> => s[1] = 1
        /\ \A i \in 2..Len(s) : s[i] \in {s[i - 1], s[i - 1] + 1}
        /\ \A p \in Got(j, c) : Cardinality({i \in 1..Len(s) : s[i] = p}) <= Attempts

\* The event log does not count a chat as reached that misses a part, whatever
\* failed for this chat or another one, also while the bot starts or stops.
ReportIsHonest ==
    \A j \in Jobs : job[j].phase = "recording" =>
        \A c \in job[j].chats \ job[j].failed : Got(j, c) = 1..PartsOf(j)

\* Whoever pressed /start and has not blocked the bot since stays subscribed, and
\* so does a configured chat that did: no error of Telegram's drops it. A chat
\* that comes back is dropped by no old refusal (those of this broadcast, or of
\* the other one under way) but one whose DELETE was on its way when it came.
LoyalStaySubscribed ==
    \A c \in wants : c \notin excused \/ c \in Configured => c \in subscribers

\* A broadcast comes to an end, whatever Telegram answers.
BroadcastEnds ==
    \A j \in Jobs : job[j].phase # "idle" ~> job[j].phase = "idle"

\* "Send every part of the digest to each subscriber and the fixed chat"
\* (telegram_bot.py:92): when a broadcast is over, a chat has got every part or
\* its own delivery failed.  Violated: a refusal by one chat and a failing
\* database keep the digest from all others.
ReachesEveryone ==
    job["digest"].phase = "idle" =>
        \A c \in job["digest"].chats \ job["digest"].failed : Got("digest", c) = 1..Parts

=============================================================================
