---------------------------- MODULE SettingsApi ----------------------------
(***************************************************************************)
(* The settings an admin edits: the table app_settings, the job the        *)
(* scheduler has, and PUT /api/settings (app/admin_api.py), which changes  *)
(* both.                                                                   *)
(*                                                                         *)
(* The server runs one event loop: a step ends where a handler awaits the  *)
(* database.                                                               *)
(***************************************************************************)
EXTENDS Naturals, FiniteSets

CONSTANTS Admins,       \* requests that may be under way at a time
          Times,        \* times of the day
          DefaultTime   \* config.yaml

\* What is assumed of the constants.
SettingsAssumption == DefaultTime \in Times

VARIABLES put,          \* put[a]: the PUT of a
          rows,         \* app_settings; empty until the first PUT
          scheduled,    \* Scheduler.time
          disturbed     \* history variable: have PUTs overlapped, was an answer
                        \* lost, since the last PUT that ran by itself?

settingsVars == <<put, rows, scheduled, disturbed>>

Settings == [time : Times, proxy : {"on", "off"}]

\* A field that is not in the patch is None.
Patches == [time : Times \cup {"None"}, proxy : {"on", "off", "None"}]

Disturbances == {"overlap", "lost answer"}

SettingsTypeOK ==
    /\ \A a \in Admins : put[a].pc \in {"idle", "load", "store", "reschedule"}
    /\ rows \subseteq Settings /\ Cardinality(rows) <= 1
    /\ scheduled \in Times
    /\ disturbed \subseteq Disturbances

\* runtime_settings.load
Loaded == IF rows = {} THEN [time |-> DefaultTime, proxy |-> "off"] ELSE CHOOSE s \in rows : TRUE

NoPut == [pc |-> "idle"]

Busy == {a \in Admins : put[a].pc # "idle"}

Init ==
    /\ put = [a \in Admins |-> NoPut]
    /\ rows = {}
    /\ scheduled = DefaultTime
    /\ disturbed = {}

-----------------------------------------------------------------------------
Begin(a, patch) ==
    /\ put[a].pc = "idle"
    /\ put' = [b \in Admins |->
                  IF b = a THEN [pc |-> "load", patch |-> patch, alone |-> Busy = {}]
                  ELSE IF b \in Busy THEN [put[b] EXCEPT !.alone = FALSE] ELSE put[b]]
    /\ disturbed' = IF Busy = {} THEN disturbed ELSE disturbed \cup {"overlap"}
    /\ UNCHANGED <<rows, scheduled>>

Updated(current, patch) ==
    [time  |-> IF patch.time = "None" THEN current.time ELSE patch.time,
     proxy |-> IF patch.proxy = "None" THEN current.proxy ELSE patch.proxy]

Load(a) ==
    /\ put[a].pc = "load"
    /\ put' = [put EXCEPT ![a] = [pc |-> "store", alone |-> @.alone, current |-> Loaded,
                                  updated |-> Updated(Loaded, @.patch)]]
    /\ UNCHANGED <<rows, scheduled, disturbed>>

\* Both rows, in one implicit transaction.
Store(a) ==
    /\ put[a].pc = "store"
    /\ rows' = {put[a].updated}
    /\ put' = [put EXCEPT ![a].pc = "reschedule"]
    /\ UNCHANGED <<scheduled, disturbed>>

\* The database fails before or after it has stored the rows.
StoreFails(a) ==
    /\ put[a].pc \in {"load", "store"}
    /\ put' = [put EXCEPT ![a] = NoPut]
    /\ \/ UNCHANGED <<rows, disturbed>>
       \/ put[a].pc = "store" /\ rows' = {put[a].updated}
          /\ disturbed' = disturbed \cup {"lost answer"}
    /\ UNCHANGED scheduled

\* Mutant of Rescheduled: the job moves if the request changed the stored time.
RescheduledIfChanged(p) == IF p.updated.time # p.current.time THEN p.updated.time ELSE scheduled

\* The job moves if it is not where the request wants it.
Rescheduled(p) == IF p.updated.time # scheduled THEN p.updated.time ELSE scheduled

Reschedule(a) ==
    /\ put[a].pc = "reschedule"
    /\ scheduled' = Rescheduled(put[a])
    /\ put' = [put EXCEPT ![a] = NoPut]
    /\ disturbed' = IF put[a].alone THEN {} ELSE disturbed
    /\ UNCHANGED rows

\* The process ends and starts anew: lifespan makes the job from the table.
Restart ==
    /\ put' = [a \in Admins |-> NoPut]
    /\ scheduled' = Loaded.time
    /\ disturbed' = {}
    /\ UNCHANGED rows

Next ==
    \/ \E a \in Admins : \/ \E patch \in Patches : Begin(a, patch)
                         \/ Load(a) \/ Store(a) \/ StoreFails(a) \/ Reschedule(a)
    \/ Restart

Spec == Init /\ [][Next]_settingsVars

-----------------------------------------------------------------------------
(* Properties *)

\* When no PUT is under way, the daily parse is at the stored time, the one a
\* restart would choose.  A PUT whose answer the database lost, or PUTs that
\* overlapped, may leave the two apart; the next PUT that runs by itself,
\* whatever it is about, or a restart brings them together again.
ScheduleIsStored ==
    Busy = {} /\ disturbed = {} => scheduled = Loaded.time

\* The time is stored and applied at once (README.md:15), whichever requests
\* overlapped, unless the database lost an answer.  Violated: of two PUTs the
\* one that stores first may be the last to reschedule.
AppliedAtOnce == Busy = {} /\ "lost answer" \notin disturbed => scheduled = Loaded.time

\* The table and the scheduler agree, and both have values of their types.
SettingsAgree == SettingsTypeOK /\ ScheduleIsStored

=============================================================================
