---------------------------- MODULE ParserRunner ----------------------------
(***************************************************************************)
(* The run of all bank parsers (app/parser_runner.py) and what starts it:  *)
(* POST /api/parse, the daily job and RUN_NOW (app/main.py,                *)
(* app/scheduler.py).                                                      *)
(*                                                                         *)
(* The process is one asyncio event loop (run.py: workers=1), so what is   *)
(* between two awaits is one action; a task is a coroutine of run_all and  *)
(* pc[t] the await it is suspended in.  Parsers run in a thread while the  *)
(* loop serves requests.  An import is the step BankHistory promises, and  *)
(* its answer comes back in a step of its own.  A crash loses everything   *)
(* the process holds and nothing that is committed.                        *)
(***************************************************************************)
EXTENDS Diff

CONSTANTS Banks, Portals, NoSnapshot,
          Order,            \* BANK_KEYS: the banks, in the order they are run
          Tasks, NoTask,    \* coroutines of run_all that may exist at once
          Notifier,         \* is Telegram configured (TELEGRAM_NOTIFY)?
          RunNow,           \* is RUN_NOW set?
          ConnectionDrops,  \* may the answer to COMMIT get lost?
          TelegramFails,    \* may Telegram refuse a message?
          DigestBreaks,     \* may build_digest raise?
          Crashes,          \* may the process die?
          MaxImports        \* bound: imports stored per bank

ASSUME RunnerAssumption ==
    /\ Portals \subseteq Snapshot
    /\ NoSnapshot \in Snapshot
    /\ Order \in Seq(Banks) /\ Order # <<>>
    /\ \A b \in Banks : \E n \in DOMAIN Order : Order[n] = b
    /\ \A m, n \in DOMAIN Order : Order[m] = Order[n] => m = n
    /\ Tasks # {} /\ NoTask \notin Tasks
    /\ {Notifier, RunNow, ConnectionDrops, TelegramFails, DigestBreaks, Crashes}
          \subseteq BOOLEAN
    /\ MaxImports \in Nat

VARIABLES
    pc,        \* pc[t]: where task t is suspended
    work,      \* work[t]: the local variables of task t
    lock,      \* the task that holds self._lock, or NoTask
    status,    \* self.status, what GET /api/parse/status and /status answer
    failing,   \* self._failing
    proxies,   \* does proxy._active hold a rotator with proxies?
    current, history,   \* the database, see BankHistory
    news,      \* history variable: the digests handed to broadcast, per bank
    told,      \* history variable: the last alert about a bank sent to the
               \* admin in this life of the process
    heard,     \* history variable: the last alert that arrived
    lost       \* history variable: did an alert of the last run not arrive?

db == <<current, history>>
mail == <<news, told, heard, lost>>
vars == <<pc, work, lock, status, failing, proxies, db, mail>>

DB == INSTANCE BankHistory

-----------------------------------------------------------------------------
Outcome == [ended: BOOLEAN, failed: BOOLEAN, changes: SUBSET Change]

Alert == [kind: {"failure", "recovery"}, bank: Banks]

Work == [trigger: {"none", "manual", "schedule", "startup"},
         pos: Nat,                          \* the bank being run is Order[pos]
         outcomes: [Banks -> Outcome],
         parsed: Snapshot,                  \* what the parser returned
         digest: [Banks -> SUBSET Change],  \* what is left to broadcast
         alerts: SUBSET Alert]              \* and to tell the admin

NoChange == [b \in Banks |-> {}]

NoWork == [trigger |-> "none", pos |-> 0,
           outcomes |-> [b \in Banks |-> [ended |-> FALSE, failed |-> FALSE, changes |-> {}]],
           parsed |-> NoSnapshot, digest |-> NoChange, alerts |-> {}]

InBank == {"parsing", "importing", "stored"}

InLoop == {"announcing", "recording"} \cup InBank

AfterLoop == {"summary", "broadcasting", "alerting"}

\* Inside "async with self._lock".
Inside == {"entered", "loading"} \cup InLoop \cup AfterLoop

Pcs == {"idle", "queued", "skipping"} \cup Inside

BankStatuses == {"pending", "running", "done", "error"}

NotStarted == [running |-> FALSE, banks |-> [b \in Banks |-> "pending"]]

TypeOK ==
    /\ pc \in [Tasks -> Pcs]
    /\ work \in [Tasks -> Work]
    /\ lock \in Tasks \cup {NoTask}
    /\ status \in [running: BOOLEAN, banks: [Banks -> BankStatuses]]
    /\ failing \subseteq Banks
    /\ proxies \in BOOLEAN
    /\ current \in [Banks -> Snapshot]
    /\ history \in [Banks -> Seq(SUBSET Change)]
    /\ news \in [Banks -> Seq(SUBSET Change)]
    /\ told \in [Banks -> {"nothing", "failure", "recovery"}]
    /\ heard \in [Banks -> {"nothing", "failure", "recovery"}]
    /\ lost \in BOOLEAN

Bank(t) == Order[work[t].pos]

\* The coroutine of RUN_NOW, spawned before the first request is served.
StartupTask == CHOOSE t \in Tasks : TRUE

BootPc == [t \in Tasks |-> IF RunNow /\ t = StartupTask THEN "queued" ELSE "idle"]

BootWork == [t \in Tasks |-> IF RunNow /\ t = StartupTask
                             THEN [NoWork EXCEPT !.trigger = "startup"] ELSE NoWork]

Init ==
    /\ pc = BootPc
    /\ work = BootWork
    /\ lock = NoTask
    /\ status = NotStarted
    /\ failing = {}
    /\ proxies = FALSE
    /\ DB!Init
    /\ news = [b \in Banks |-> <<>>]
    /\ told = [b \in Banks |-> "nothing"]
    /\ heard = [b \in Banks |-> "nothing"]
    /\ lost = FALSE

Goto(t, p) == pc' = [pc EXCEPT ![t] = p]

-----------------------------------------------------------------------------
(* Starting a run *)

Spawn(t, trigger) ==
    /\ pc[t] = "idle"
    /\ Goto(t, "queued")
    /\ work' = [work EXCEPT ![t].trigger = trigger]
    /\ UNCHANGED <<lock, status, failing, proxies, db, mail>>

\* api_parse_now, answering "started".  "already_running" changes nothing.
AskManually(t) ==
    /\ ~status.running
    /\ Spawn(t, "manual")

\* Scheduler._run; APScheduler runs one instance of a job at a time.
OnSchedule(t) ==
    /\ \A u \in Tasks : pc[u] = "idle" \/ work[u].trigger # "schedule"
    /\ Spawn(t, "schedule")

\* Mutant of LockIsFree: the check of POST /api/parse in the lock's place.
LockLooksFree == ~status.running

LockIsFree == lock = NoTask

Skip(t) ==
    /\ pc[t] = "queued"
    /\ ~LockIsFree
    /\ Goto(t, "skipping")
    /\ UNCHANGED <<work, lock, status, failing, proxies, db, mail>>

EndSkip(t) ==
    /\ pc[t] = "skipping"
    /\ Goto(t, "idle")
    /\ work' = [work EXCEPT ![t] = NoWork]
    /\ UNCHANGED <<lock, status, failing, proxies, db, mail>>

\* There is no await between the check and the acquisition of a free lock.
Enter(t) ==
    /\ pc[t] = "queued"
    /\ LockIsFree
    /\ lock' = t
    /\ Goto(t, "entered")
    /\ lost' = FALSE
    /\ UNCHANGED <<work, status, failing, proxies, db, news, told, heard>>

BeginRun(t) ==
    /\ pc[t] = "entered"
    /\ status' = [NotStarted EXCEPT !.running = TRUE]
    /\ Goto(t, "loading")
    /\ UNCHANGED <<work, lock, failing, proxies, db, mail>>

\* _load_proxies never raises; an empty list and a failure both mean none.
LoadProxies(t) ==
    /\ pc[t] = "loading"
    /\ proxies' \in BOOLEAN
    /\ work' = [work EXCEPT ![t].pos = 1]
    /\ Goto(t, "announcing")
    /\ UNCHANGED <<lock, status, failing, db, mail>>

-----------------------------------------------------------------------------
(* One bank: _run_bank_safe and run_bank *)

StartBank(t) ==
    /\ pc[t] = "announcing"
    /\ status' = [status EXCEPT !.banks[Bank(t)] = "running"]
    /\ Goto(t, "parsing")
    /\ UNCHANGED <<work, lock, failing, proxies, db, mail>>

Parse(t, s) ==
    /\ pc[t] = "parsing"
    /\ work' = [work EXCEPT ![t].parsed = s]
    /\ Goto(t, "importing")
    /\ UNCHANGED <<lock, status, failing, proxies, db, mail>>

\* import_snapshot commits.
Store(t) ==
    /\ pc[t] = "importing"
    /\ Len(history[Bank(t)]) < MaxImports
    /\ DB!Publish(Bank(t), work[t].parsed)
    /\ Goto(t, "stored")
    /\ UNCHANGED <<work, lock, status, failing, proxies, mail>>

\* Mutant of Reported: the hidden changes are returned as well.
ReportedWithHidden(b) == history[b][Len(history[b])]

\* What import_snapshot returns: the public part of what it stored.
Reported(b) == Public(history[b][Len(history[b])])

ImportReturns(t) ==
    /\ pc[t] = "stored"
    /\ status' = [status EXCEPT !.banks[Bank(t)] = "done"]
    /\ work' = [work EXCEPT ![t].parsed = NoSnapshot,
                            ![t].outcomes[Bank(t)] =
                               [ended |-> TRUE, failed |-> FALSE, changes |-> Reported(Bank(t))]]
    /\ Goto(t, "recording")
    /\ UNCHANGED <<lock, failing, proxies, db, mail>>

\* Mutant of BankFailed: the status keeps saying "running".
BankFailedSilently(t) ==
    /\ work' = [work EXCEPT ![t].parsed = NoSnapshot,
                            ![t].outcomes[Bank(t)] =
                               [ended |-> TRUE, failed |-> TRUE, changes |-> {}]]
    /\ Goto(t, "recording")
    /\ UNCHANGED <<lock, status, failing, proxies, db, mail>>

\* The except clause of _run_bank_safe.
BankFailed(t) ==
    /\ status' = [status EXCEPT !.banks[Bank(t)] = "error"]
    /\ work' = [work EXCEPT ![t].parsed = NoSnapshot,
                            ![t].outcomes[Bank(t)] =
                               [ended |-> TRUE, failed |-> TRUE, changes |-> {}]]
    /\ Goto(t, "recording")
    /\ UNCHANGED <<lock, failing, proxies, db, mail>>

\* The parser raises or returns nothing, the pool gives no connection, or a
\* statement of the import fails.
Fail(t) ==
    /\ pc[t] \in {"parsing", "importing"}
    /\ BankFailed(t)

Reject(t) ==
    /\ pc[t] = "importing"
    /\ ~Sane(VisibleCount(current[Bank(t)].methods), VisibleCount(work[t].parsed.methods))
    /\ BankFailed(t)

\* The snapshot is committed, but the connection died before the answer.
LoseAnswer(t) ==
    /\ ConnectionDrops
    /\ pc[t] = "stored"
    /\ BankFailed(t)

NextBank(t) ==
    /\ pc[t] = "recording"
    /\ work[t].pos < Len(Order)
    /\ work' = [work EXCEPT ![t].pos = @ + 1]
    /\ Goto(t, "announcing")
    /\ UNCHANGED <<lock, status, failing, proxies, db, mail>>

\* Mutant of Finish: the rotator outlives the run.
FinishKeepingProxies(t) ==
    /\ pc[t] = "recording"
    /\ work[t].pos = Len(Order)
    /\ status' = [status EXCEPT !.running = FALSE]
    /\ Goto(t, "summary")
    /\ UNCHANGED <<work, lock, failing, proxies, db, mail>>

\* The finally clause of run_all.
Finish(t) ==
    /\ pc[t] = "recording"
    /\ work[t].pos = Len(Order)
    /\ proxies' = FALSE
    /\ status' = [status EXCEPT !.running = FALSE]
    /\ Goto(t, "summary")
    /\ UNCHANGED <<work, lock, failing, db, mail>>

-----------------------------------------------------------------------------
(* _notify, still under the lock *)

Failed(t) == {b \in Banks : work[t].outcomes[b].ended /\ work[t].outcomes[b].failed}

Recovered(t) == {b \in failing : work[t].outcomes[b].ended /\ ~work[t].outcomes[b].failed}

NowFailing(t) == (failing \ Recovered(t)) \cup Failed(t)

\* Mutant of Alerts: no word about recoveries.
AlertsOfFailure(t) == [kind: {"failure"}, bank: Failed(t) \ failing]

Alerts(t) == [kind: {"failure"}, bank: Failed(t) \ failing]
             \cup [kind: {"recovery"}, bank: Recovered(t)]

\* Mutant of Digest: one failed bank costs the others their digest.
DigestOfCleanRun(t) ==
    IF Failed(t) # {} THEN NoChange ELSE [b \in Banks |-> work[t].outcomes[b].changes]

\* A failed outcome carries no changes.
Digest(t) == [b \in Banks |-> work[t].outcomes[b].changes]

Notify(t) ==
    /\ pc[t] = "summary"
    /\ failing' = NowFailing(t)
    /\ \E broken \in {FALSE, DigestBreaks} :
          work' = [work EXCEPT ![t].digest = IF Notifier /\ ~broken THEN Digest(t) ELSE NoChange,
                               ![t].alerts = IF Notifier THEN Alerts(t) ELSE {}]
    /\ Goto(t, "broadcasting")
    /\ UNCHANGED <<lock, status, proxies, db, mail>>

\* One digest for the run, or the record that there is none.
Broadcast(t) ==
    /\ pc[t] = "broadcasting"
    /\ news' = [b \in Banks |->
                   IF work[t].digest[b] = {} THEN news[b] ELSE Append(news[b], work[t].digest[b])]
    /\ Goto(t, "alerting")
    /\ UNCHANGED <<work, lock, status, failing, proxies, db, told, heard, lost>>

\* The order of the alerts is left out.
SendAlert(t, a) ==
    /\ pc[t] = "alerting"
    /\ a \in work[t].alerts
    /\ work' = [work EXCEPT ![t].alerts = @ \ {a}]
    /\ told' = [told EXCEPT ![a.bank] = a.kind]
    /\ \/ heard' = [heard EXCEPT ![a.bank] = a.kind] /\ UNCHANGED lost
       \/ TelegramFails /\ lost' = TRUE /\ UNCHANGED heard
    /\ UNCHANGED <<pc, lock, status, failing, proxies, db, news>>

\* Mutant of Leave: the lock is not released.
LeaveLocked(t) ==
    /\ pc[t] = "alerting"
    /\ work[t].alerts = {}
    /\ work' = [work EXCEPT ![t] = NoWork]
    /\ Goto(t, "idle")
    /\ UNCHANGED <<lock, status, failing, proxies, db, mail>>

Leave(t) ==
    /\ pc[t] = "alerting"
    /\ work[t].alerts = {}
    /\ lock' = NoTask
    /\ work' = [work EXCEPT ![t] = NoWork]
    /\ Goto(t, "idle")
    /\ UNCHANGED <<status, failing, proxies, db, mail>>

-----------------------------------------------------------------------------
\* The process dies and is started again.
Crash ==
    /\ Crashes
    /\ pc' = BootPc
    /\ work' = BootWork
    /\ lock' = NoTask
    /\ status' = NotStarted
    /\ failing' = {}
    /\ proxies' = FALSE
    /\ told' = [b \in Banks |-> "nothing"]
    /\ heard' = [b \in Banks |-> "nothing"]
    /\ lost' = FALSE
    /\ UNCHANGED <<db, news>>

\* What the event loop does for t once its coroutine exists.
Step(t) ==
    \/ Skip(t) \/ EndSkip(t) \/ Enter(t) \/ BeginRun(t) \/ LoadProxies(t)
    \/ StartBank(t)
    \/ \E s \in Portals : Parse(t, s)
    \/ Store(t) \/ ImportReturns(t) \/ Fail(t) \/ Reject(t) \/ LoseAnswer(t)
    \/ NextBank(t) \/ Finish(t)
    \/ Notify(t) \/ Broadcast(t) \/ (\E a \in Alert : SendAlert(t, a)) \/ Leave(t)

Next ==
    \/ \E t \in Tasks : AskManually(t) \/ OnSchedule(t) \/ Step(t)
    \/ Crash

Spec == Init /\ [][Next]_vars

\* Every await of a run returns: HTTP requests, the database and Telegram
\* answer or time out, and the event loop resumes every ready coroutine.
FairSpec == Spec /\ \A t \in Tasks : WF_vars(Step(t))

-----------------------------------------------------------------------------
(* Properties *)

\* One run at a time is inside the lock, however the starts interleave.  This
\* is what lets import_snapshot rely on nobody importing beside it.
OneRunAtATime ==
    \A t, u \in Tasks : pc[t] \in Inside /\ pc[u] \in Inside => t = u

\* What the status page says is what the process does: a bank is "running" just
\* while its parser or import is, a finished run has left none pending or
\* running, and "running" is not claimed when no run is under way.
StatusTellsTruth ==
    /\ status.running => \E t \in Tasks : pc[t] \in {"loading"} \cup InLoop
    /\ \A b \in Banks :
          status.banks[b] = "running" <=> \E t \in Tasks : pc[t] \in InBank /\ Bank(t) = b
    /\ \A t \in Tasks : pc[t] \in AfterLoop =>
          \A b \in Banks : status.banks[b] \in {"done", "error"}

\* Sessions opened outside a run, and those of a later run without proxies, go
\* out directly.
ProxiesOnlyDuringRun ==
    proxies => \E t \in Tasks : pc[t] \in InLoop

\* Between runs the last alert about a bank says "failing" exactly when the
\* status page shows its last run as an error.
AlertsFollowStatus ==
    Notifier /\ LockIsFree =>
        \A b \in Banks : told[b] = "failure" <=> status.banks[b] = "error"

\* An alert waiting to be sent is news to the admin: no second one about the
\* same failure, no recovery that no failure preceded.
AlertsAlternate ==
    \A t \in Tasks : \A a \in work[t].alerts :
        a.kind = "failure" <=> told[a.bank] # "failure"

\* Alerts tell the changes of the status page, each change once.
AlertsTellChanges == AlertsFollowStatus /\ AlertsAlternate

\* What was said tells batches of a history, in order: at is which.  Nothing is
\* said of a batch without a public part.
Retells(said, batches, at) ==
    \A m, n \in DOMAIN said :
        /\ m < n => at[m] < at[n]
        /\ said[n] = Public(batches[at[n]]) /\ said[n] # {}

\* Subscribers read the public history: when nothing crashes and no answer is
\* lost, exactly that, run after run and bank by bank, in order.
DigestsTellHistory ==
    LockIsFree => \A b \in Banks :
        \E at \in [DOMAIN news[b] -> DOMAIN history[b]] :
            /\ Retells(news[b], history[b], at)
            /\ \A n \in DOMAIN history[b] :
                  Public(history[b][n]) # {} => \E m \in DOMAIN news[b] : at[m] = n

\* Whatever crashes or gets lost, a digest never repeats, reorders or invents a
\* change: what was announced of b can be found in its history, in order.
DigestsNeverInvent ==
    \A b \in Banks : \E at \in [DOMAIN news[b] -> DOMAIN history[b]] :
        Retells(news[b], history[b], at)

\* Every run that is asked for ends, and with it the lock is released.
EveryRunEnds == \A t \in Tasks : pc[t] # "idle" ~> pc[t] = "idle" /\ lock # t

\* "Trigger immediate parse of all banks in the background" (main.py:343): the
\* run that POST /api/parse answers "started" for is not skipped.
StartedMeansParsed ==
    \A t \in Tasks : work[t].trigger = "manual" => pc[t] # "skipping"

\* Alerts "come when parsing of a bank began to fail" (README.md, Telegram):
\* after a run none of whose alerts got lost, the admin has heard of every
\* bank that is failing.
FailureWasHeard ==
    Notifier /\ LockIsFree /\ ~lost => \A b \in failing : heard[b] = "failure"

=============================================================================
