----------------------------- MODULE ParseWatch -----------------------------
(***************************************************************************)
(* The button that starts a parse and the status that follows it           *)
(* (frontend/src/hooks/useParse.ts) over POST /api/parse and               *)
(* GET /api/parse/status (app/main.py).                                    *)
(*                                                                         *)
(* The server takes a status request at one moment, the answer arrives     *)
(* later; a chain of polls that a new one supersedes still delivers its    *)
(* answer.                                                                 *)
(***************************************************************************)
EXTENDS Naturals, FiniteSets

CONSTANTS MaxPollFailures,  \* MAX_POLL_FAILURES
          MaxRuns           \* bound: runs in the time that is looked at

WatchAssumption == MaxPollFailures \in Nat \ {0} /\ MaxRuns \in Nat

VARIABLES run,        \* "asked": run_all is spawned and has not begun
          runs,       \* runs begun
          button,     \* "posting": POST is under way; "waiting": for the first poll
          status,     \* status.running on screen; "unknown" before the first answer
          failed,     \* failures.current
          polls,      \* status requests under way
          timer,
          late        \* history variable: the answer of a superseded chain came
                      \* after that chain's successor had ended

watchVars == <<run, runs, button, status, failed, polls, timer, late>>

\* "first" when the page opens; "chain" of the live watch; "old" of a superseded one.
Kinds == {"first", "chain", "old"}

WatchTypeOK ==
    /\ run \in {"none", "asked", "running"}
    /\ runs \in 0..MaxRuns
    /\ button \in {"free", "posting", "waiting"}
    /\ status \in {"unknown", "running", "idle"}
    /\ failed \in 0..MaxPollFailures
    /\ \A p \in polls : p.kind \in Kinds /\ p.answer \in {"none", "running", "idle"}
    /\ timer \in BOOLEAN /\ late \in BOOLEAN

\* clicked: the start that was clicked waits for this poll.
Poll(kind, clicked) == [kind |-> kind, answer |-> "none", clicked |-> clicked]

Init ==
    /\ run \in {"none", "running"} /\ runs = 0
    /\ button = "free" /\ status = "unknown" /\ failed = 0
    /\ polls = {Poll("first", FALSE)} /\ timer = FALSE /\ late = FALSE

-----------------------------------------------------------------------------
(* The server *)

\* The run that was asked for, or the daily one.
RunBegins ==
    /\ run # "running" /\ runs < MaxRuns
    /\ run' = "running" /\ runs' = runs + 1
    /\ UNCHANGED <<button, status, failed, polls, timer, late>>

RunEnds ==
    /\ run = "running" /\ run' = "none"
    /\ UNCHANGED <<runs, button, status, failed, polls, timer, late>>

Answer(p) ==
    /\ p.answer = "none"
    /\ polls' = (polls \ {p}) \cup {[p EXCEPT !.answer = IF run = "running" THEN "running" ELSE "idle"]}
    /\ UNCHANGED <<run, runs, button, status, failed, timer, late>>

-----------------------------------------------------------------------------
(* The hook *)

\* stop and the first poll of a new chain; rest: the requests under way besides.
Watch(rest, clicked) ==
    /\ polls' = {IF p.kind = "chain" THEN [p EXCEPT !.kind = "old"] ELSE p : p \in rest}
                \cup {Poll("chain", clicked)}
    /\ timer' = FALSE

ShowFirst(p) ==
    /\ p.kind = "first" /\ p.answer # "none"
    /\ status' = p.answer
    /\ IF p.answer = "running" THEN Watch(polls \ {p}, FALSE)
       ELSE polls' = polls \ {p} /\ UNCHANGED timer
    /\ UNCHANGED <<run, runs, button, failed, late>>

\* Optional on the first load.
LoseFirst(p) ==
    /\ p.kind = "first" /\ polls' = polls \ {p}
    /\ UNCHANGED <<run, runs, button, status, failed, timer, late>>

Click ==
    /\ status # "running" /\ button = "free"
    /\ button' = "posting"
    /\ UNCHANGED <<run, runs, status, failed, polls, timer, late>>

Posted ==
    /\ button = "posting"
    /\ run' = IF run = "none" /\ runs < MaxRuns THEN "asked" ELSE run
    /\ button' = "waiting" /\ failed' = 0
    /\ Watch(polls, TRUE)
    /\ UNCHANGED <<runs, status, late>>

PostFails ==
    /\ button = "posting" /\ button' = "free"
    /\ UNCHANGED <<run, runs, status, failed, polls, timer, late>>

\* What follows a poll: the next one in POLL_MS while the answer of the live
\* chain is "running".
Continue(p, running) ==
    /\ polls' = polls \ {p}
    /\ timer' = (timer \/ (p.kind = "chain" /\ running))
    /\ button' = IF p.clicked THEN "free" ELSE button
    /\ UNCHANGED <<run, runs>>

ShowPoll(p) ==
    /\ p.kind # "first" /\ p.answer # "none"
    /\ failed' = 0 /\ status' = p.answer
    /\ late' = (late \/ (p.kind = "old" /\ p.answer = "running" /\ ~timer
                         /\ \A q \in polls : q.kind # "chain"))
    /\ Continue(p, p.answer = "running")

\* Mutant of GivesUp: it never does.
NeverGivesUp == FALSE

GivesUp == failed + 1 >= MaxPollFailures

\* The request or its answer is lost.
LosePoll(p) ==
    /\ p.kind # "first"
    /\ failed' = IF failed = MaxPollFailures THEN failed ELSE failed + 1
    /\ status' = IF GivesUp /\ status = "running" THEN "idle" ELSE status
    /\ Continue(p, ~GivesUp)
    /\ UNCHANGED late

TimerFires ==
    /\ timer /\ Watch(polls, FALSE)
    /\ UNCHANGED <<run, runs, button, status, failed, late>>

Deliver == \E p \in polls : ShowFirst(p) \/ LoseFirst(p) \/ ShowPoll(p) \/ LosePoll(p)

Next == \/ RunBegins \/ RunEnds
        \/ \E p \in polls : Answer(p)
        \/ Deliver \/ Click \/ Posted \/ PostFails \/ TimerFires

Spec == Init /\ [][Next]_watchVars

\* Runs end (ParserRunner: EveryRunEnds), a request is answered or fails, a timer
\* fires.
WatchFairness ==
    /\ WF_watchVars(RunEnds) /\ WF_watchVars(Deliver) /\ WF_watchVars(TimerFires)
    /\ WF_watchVars(Posted \/ PostFails)

-----------------------------------------------------------------------------
(* Properties *)

\* "Unknown # running: release the button so the user is not locked out"
\* (useParse.ts:35): a status "running" on screen does not stay, whether runs
\* end or the server stops answering; unless the answer of a superseded poll
\* came after the watch had ended, which nothing corrects.
StatusIsReleased == (status = "running") ~> (status # "running" \/ late)

=============================================================================
