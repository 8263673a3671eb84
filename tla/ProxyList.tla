----------------------------- MODULE ProxyList -----------------------------
(***************************************************************************)
(* The table proxies: adding, deleting and checking a proxy                *)
(* (app/admin_api.py over app/settings_repo.py), and the daily job that    *)
(* tells the admin which ones expire (app/runtime_settings.py).            *)
(*                                                                         *)
(* A step ends where a handler awaits the database, a checker thread or    *)
(* Telegram; add_proxy takes an advisory lock within its transaction.      *)
(***************************************************************************)
EXTENDS Naturals, FiniteSets

CONSTANTS Callers,     \* requests that may be under way at a time
          Urls,
          MaxProxies,  \* MAX_PROXIES
          MaxListed,   \* MAX_PROXIES_LISTED
          MaxId,       \* bound: rows ever inserted
          MaxRepeats   \* bound: times the job ends between its notice and its mark

\* What is assumed of the constants.
ListAssumption ==
    MaxProxies \in Nat \ {0} /\ MaxListed \in Nat /\ MaxId \in Nat /\ MaxRepeats \in Nat

VARIABLES table,       \* rows of proxies
          nextId,      \* the sequence of the column id
          insertLock,  \* who holds pg_advisory_xact_lock('proxies_insert'), if any
          call,
          due,         \* rows the daily job has listed
          jobPc,
          noticed,     \* history variable: noticed[i]: notices that name proxy i
                       \* or have it in their "and n more"
          named,       \* history variable: the proxies a notice named
          repeats      \* history variable: jobs that ended without their mark

listVars == <<table, nextId, insertLock, call, due, jobPc, noticed, named, repeats>>

Ids == 1..MaxId

\* When a row expires, seen from today: "soon" is within WARN_DAYS or past.
Expiries == {"later", "soon"}

\* checked: history variable, the addresses whose check the row shows.
Row(i, u, e) == [id |-> i, url |-> u, expires |-> e, notified |-> FALSE, checked |-> {}]

RowOf(i) == CHOOSE r \in table : r.id = i

Present(i) == \E r \in table : r.id = i

ListTypeOK ==
    /\ \A r \in table : r.id \in Ids /\ r.url \in Urls /\ r.expires \in Expiries
    /\ nextId \in 1..(MaxId + 1)
    /\ insertLock \subseteq Callers /\ Cardinality(insertLock) <= 1
    /\ \A c \in Callers : call[c].pc \in {"idle", "counting", "inserting", "deleting", "checking"}
    /\ due \subseteq Ids
    /\ jobPc \in {"idle", "sending", "marking"}

NoCall == [pc |-> "idle"]

Init ==
    /\ table = {} /\ nextId = 1 /\ insertLock = {}
    /\ call = [c \in Callers |-> NoCall]
    /\ due = {} /\ jobPc = "idle"
    /\ noticed = [i \in Ids |-> 0] /\ named = {} /\ repeats = 0

-----------------------------------------------------------------------------
(* POST /api/proxies *)

\* Mutant of LockIsFree: the lock is shared.
LockIsShared == TRUE

LockIsFree == insertLock = {}

\* A request that waits for the lock has done nothing yet.
TakeLock(c) ==
    /\ call[c].pc = "idle" /\ LockIsFree
    /\ insertLock' = {c}
    /\ call' = [call EXCEPT ![c] = [pc |-> "counting"]]
    /\ UNCHANGED <<table, nextId, due, jobPc, noticed, named, repeats>>

EndAdd(c) ==
    /\ call' = [call EXCEPT ![c] = NoCall]
    /\ insertLock' = insertLock \ {c}
    /\ UNCHANGED <<due, jobPc, noticed, named, repeats>>

\* At the limit the answer is 422, also for an address that is in the list.
Count(c) ==
    /\ call[c].pc = "counting"
    /\ IF Cardinality(table) >= MaxProxies
       THEN EndAdd(c)
       ELSE /\ call' = [call EXCEPT ![c].pc = "inserting"]
            /\ UNCHANGED <<insertLock, due, jobPc, noticed, named, repeats>>
    /\ UNCHANGED <<table, nextId>>

\* Mutant of NewId: the smallest id that is free.
SmallestFreeId == CHOOSE i \in Ids : ~Present(i) /\ \A j \in Ids : ~Present(j) => i <= j

NewId == nextId

\* The address and the expiry of a request matter here only.
\* ON CONFLICT (url) DO NOTHING: 409.  The sequence goes on all the same.
Insert(c, u, e) ==
    /\ call[c].pc = "inserting" /\ nextId <= MaxId
    /\ table' = IF \E r \in table : r.url = u THEN table ELSE table \cup {Row(NewId, u, e)}
    /\ nextId' = nextId + 1
    /\ EndAdd(c)

\* The database fails: the transaction and its lock are gone.
FailAdd(c) ==
    /\ call[c].pc \in {"counting", "inserting"}
    /\ EndAdd(c)
    /\ UNCHANGED <<table, nextId>>

-----------------------------------------------------------------------------
(* DELETE /api/proxies/{id}, POST /api/proxies/check and /{id}/check *)

\* get_proxy finds the row, or check_all lists it.
Look(c, i, what) ==
    /\ call[c].pc = "idle" /\ Present(i)
    /\ call' = [call EXCEPT ![c] = [pc |-> what, id |-> i, url |-> RowOf(i).url]]
    /\ UNCHANGED <<table, nextId, insertLock, due, jobPc, noticed, named, repeats>>

Delete(c) ==
    /\ call[c].pc = "deleting"
    /\ table' = {r \in table : r.id # call[c].id}
    /\ call' = [call EXCEPT ![c] = NoCall]
    /\ UNCHANGED <<nextId, insertLock, due, jobPc, noticed, named, repeats>>

\* The thread has an answer, whatever it is; save_check updates the row if it
\* is still there.
SaveCheck(c) ==
    /\ call[c].pc = "checking"
    /\ table' = {IF r.id = call[c].id THEN [r EXCEPT !.checked = {call[c].url}] ELSE r : r \in table}
    /\ call' = [call EXCEPT ![c] = NoCall]
    /\ UNCHANGED <<nextId, insertLock, due, jobPc, noticed, named, repeats>>

\* The handler ends early: the database fails.
FailCall(c) ==
    /\ call[c].pc \in {"deleting", "checking"}
    /\ call' = [call EXCEPT ![c] = NoCall]
    /\ UNCHANGED <<table, nextId, insertLock, due, jobPc, noticed, named, repeats>>

-----------------------------------------------------------------------------
(* notify_expiring *)

\* Within WARN_DAYS of its end or past it, and nobody was told.
Expiring == {r.id : r \in {q \in table : q.expires = "soon" /\ ~q.notified}}

ListDue ==
    /\ jobPc = "idle" /\ Expiring # {}
    /\ due' = Expiring /\ jobPc' = "sending"
    /\ UNCHANGED <<table, nextId, insertLock, call, noticed, named, repeats>>

\* format_proxy_expiry names the first rows, by id, and counts the rest.
Listed == {i \in due : Cardinality({j \in due : j < i}) < MaxListed}

\* send_admin returns whether Telegram took the message or not.
Send ==
    /\ jobPc = "sending"
    /\ jobPc' = "marking"
    /\ named' = named \cup Listed
    /\ noticed' = [i \in Ids |-> IF i \in due THEN noticed[i] + 1 ELSE noticed[i]]
    /\ UNCHANGED <<table, nextId, insertLock, call, due, repeats>>

\* Mutant of Marked: whatever expires by now is marked.
MarkedAll == due \cup Expiring

Marked == due

Mark ==
    /\ jobPc = "marking"
    /\ table' = {[r EXCEPT !.notified = @ \/ r.id \in Marked] : r \in table}
    /\ due' = {} /\ jobPc' = "idle"
    /\ UNCHANGED <<nextId, insertLock, call, noticed, named, repeats>>

\* The database fails, or the process ends.
JobEnds ==
    /\ jobPc # "idle" /\ (jobPc = "marking" => repeats < MaxRepeats)
    /\ due' = {} /\ jobPc' = "idle"
    /\ repeats' = IF jobPc = "marking" THEN repeats + 1 ELSE repeats
    /\ UNCHANGED <<table, nextId, insertLock, call, noticed, named>>

\* A day passes for one of the rows.
Age(i) ==
    /\ Present(i) /\ RowOf(i).expires = "later"
    /\ table' = {IF r.id = i THEN [r EXCEPT !.expires = "soon"] ELSE r : r \in table}
    /\ UNCHANGED <<nextId, insertLock, call, due, jobPc, noticed, named, repeats>>

Next ==
    \/ \E c \in Callers :
          \/ TakeLock(c) \/ Count(c) \/ FailAdd(c)
          \/ \E u \in Urls, e \in Expiries : Insert(c, u, e)
          \/ \E i \in Ids, what \in {"deleting", "checking"} : Look(c, i, what)
          \/ Delete(c) \/ SaveCheck(c) \/ FailCall(c)
    \/ ListDue \/ Send \/ Mark \/ JobEnds
    \/ \E i \in Ids : Age(i)

Spec == Init /\ [][Next]_listVars

-----------------------------------------------------------------------------
(* Properties *)

\* "Concurrent adds cannot overshoot limit" (settings_repo.py:54), and an
\* address is in the list once.
LimitHolds ==
    /\ Cardinality(table) <= MaxProxies
    /\ \A r, q \in table : r.url = q.url => r = q

\* The check a row shows is of its own address, although other proxies were
\* deleted and added while the checker was at work.
CheckIsOfRow == \A r \in table : r.checked \subseteq {r.url}

\* No proxy is in two notices, but for a job that ended between the notice and
\* its mark; and none is marked that was in no notice, be it by name or only as
\* one of the "and n more".
ReportedOnce ==
    /\ \A i \in Ids : noticed[i] <= 1 + repeats
    /\ \A r \in table : r.notified => noticed[r.id] >= 1

\* "Each proxy is reported once" (runtime_settings.py:73): none is marked that
\* the admin could not read of.  Violated: the notice names the first
\* MAX_PROXIES_LISTED only, and mark_expiry_notified marks them all.
EachIsNamed == \A r \in table : r.notified => r.id \in named

\* What an admin relies on of the list, whatever requests and jobs overlap.
ProxyListIsSound == ListTypeOK /\ LimitHolds /\ CheckIsOfRow /\ ReportedOnce

=============================================================================
