------------------------------- MODULE MCApp -------------------------------
(***************************************************************************)
(* What the application does around the import and the parsers, one        *)
(* component at a time: the bot's broadcasts, the settings, the limiter of        *)
(* logins, the migrations, the text of a digest, the readers of the        *)
(* dashboard and the screens of its three hooks.                           *)
(* component names the one that is at work; the others stay as they are.   *)
(***************************************************************************)
EXTENDS Notifications, Administration, Dashboard

CONSTANT Components  \* those that are looked at

VARIABLE component

-----------------------------------------------------------------------------
settingsVars == <<put, rows, scheduled, disturbed>>
limiterVars == <<now, failures, keys, wrong, forgotten, called>>
migrationVars == <<tracking, recorded, schema, start, wasGoose>>
digestVars == <<digest, piece, packed, current>>
readerVars == <<day, imports, kept, changes, reader, before>>
logVars == <<oldest, newest, shown, hasMore, asked, torn>>
editVars == <<overrides, writing, load, lastWrite, shownWrite, screen, readWrite, raced>>
watchVars == <<run, runs, button, status, failed, polls, timer, late>>

appVars == <<component, vars, settingsVars, limiterVars, migrationVars, digestVars,
             readerVars, logVars, editVars, watchVars>>

-----------------------------------------------------------------------------
\* The choices of the components that are not at work are left out.
AppInit ==
    /\ component \in Components
    /\ Init /\ Setting!Init /\ Limiter!Init /\ Migration!Init
    /\ Reading!Init /\ Edits!Init
    /\ IF component = "digest" THEN Text!Init
       ELSE digest = <<>> /\ piece = [block |-> 1, done |-> 0] /\ packed = <<>> /\ current = Text!Empty
    /\ Logs!Init /\ (component # "logs" => newest = 0)
    /\ Watching!Init /\ (component # "watch" => run = "none")
    /\ component # "migrations" => ~wasGoose

\* Only the component at work takes a step, and it leaves the others alone.
Settled(step) ==
    /\ UNCHANGED component
    /\ component # "bot" => UNCHANGED vars
    /\ component # "settings" => UNCHANGED settingsVars
    /\ component # "logins" => UNCHANGED limiterVars
    /\ component # "migrations" => UNCHANGED migrationVars
    /\ component # "digest" => UNCHANGED digestVars
    /\ component # "readers" => UNCHANGED readerVars
    /\ component # "logs" => UNCHANGED logVars
    /\ component # "edits" => UNCHANGED editVars
    /\ component # "watch" => UNCHANGED watchVars
    /\ step

AppNext ==
    \/ component = "bot" /\ Settled(Next)
    \/ component = "settings" /\ Settled(Setting!Next)
    \/ component = "logins" /\ Settled(Limiter!Next)
    \/ component = "migrations" /\ Settled(Migration!Next)
    \/ component = "digest" /\ Settled(Text!Next)
    \/ component = "readers" /\ Settled(Reading!Next)
    \/ component = "logs" /\ Settled(Logs!Next)
    \/ component = "edits" /\ Settled(Edits!Next)
    \/ component = "watch" /\ Settled(Watching!Next)

AppSpec == AppInit /\ [][AppNext]_appVars

\* The fairness of TelegramBot and of ParseWatch.
FairAppSpec ==
    /\ AppSpec
    /\ \A j \in Jobs : WF_vars(component = "bot" /\ JobStep(j))
    /\ WF_watchVars(component = "watch" /\ Watching!RunEnds)
    /\ WF_watchVars(component = "watch" /\ Watching!Deliver)
    /\ WF_watchVars(component = "watch" /\ Watching!TimerFires)
    /\ WF_watchVars(component = "watch" /\ (Watching!Posted \/ Watching!PostFails))

-----------------------------------------------------------------------------
(* Properties; those of one kind are composed in Notifications,           *)
(* Administration and Dashboard                                            *)

\* A broadcast comes to an end, and so does "running" on the screen.
EverythingEnds ==
    /\ component = "bot" => BroadcastEnds
    /\ component = "watch" => Watching!StatusIsReleased

\* No late answer takes a stored edit off the screen.  Violated.
EditsStayShown == Edits!EditsStayShown

\* No window holds more wrong passwords than the limit.  Violated.
EveryWindowIsBounded == Limiter!EveryWindowIsBounded

\* The stored time is applied at once, however PUTs overlap.  Violated.
AppliedAtOnce == Setting!AppliedAtOnce

\* The log console never skips an event.  Violated.
NothingIsSkipped == Logs!NothingIsSkipped

=============================================================================
