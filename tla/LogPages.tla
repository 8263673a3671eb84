------------------------------ MODULE LogPages ------------------------------
(***************************************************************************)
(* The admin's log console: the table event_log (app/event_log.py), GET    *)
(* /api/logs (app/logs_api.py) and the hook that keeps the list            *)
(* (frontend/src/hooks/useLogs.ts).                                        *)
(*                                                                         *)
(* The server answers a request at one moment, the answer arrives at a     *)
(* later one, and answers may overtake each other.  Ids are committed in   *)
(* their order; level and category filter nothing, as the page asks.       *)
(***************************************************************************)
EXTENDS Integers, Sequences, FiniteSets, SequencesExt, InOrder

CONSTANTS LogPageSize,  \* PAGE_SIZE
          MaxEvents,    \* bound: events ever recorded
          MaxPruned     \* bound: of them pruned

LogAssumption ==
    /\ LogPageSize \in Nat \ {0} /\ MaxEvents \in Nat /\ MaxPruned \in Nat
    /\ LogPageSize <= MaxEvents

VARIABLES oldest, newest,  \* event_log holds the ids oldest..newest
          shown,           \* events, newest first
          hasMore,
          asked,           \* the requests under way
          torn             \* history variable: an older page was put under a list
                           \* that it does not continue, and the list is still that one

logVars == <<oldest, newest, shown, hasMore, asked, torn>>

\* The first page, refreshes by the timer and by the user or a visible tab, and
\* an older page.
Requests == {"first", "timer", "refresh", "more"}

NoRequest == [pc |-> "none"]

LogTypeOK ==
    /\ oldest \in 1..(newest + 1) /\ newest \in 0..MaxEvents
    /\ \A i \in DOMAIN shown : shown[i] \in 1..newest
    /\ hasMore \in BOOLEAN /\ torn \in BOOLEAN
    /\ \A q \in Requests : asked[q].pc \in {"none", "sent", "answered"}

Init ==
    /\ newest \in 0..LogPageSize /\ oldest = 1
    /\ shown = <<>> /\ hasMore = FALSE
    /\ asked = [q \in Requests |-> IF q = "first" THEN [pc |-> "sent", below |-> 0] ELSE NoRequest]
    /\ torn = FALSE

-----------------------------------------------------------------------------
(* The server *)

Record ==
    /\ newest < MaxEvents
    /\ newest' = newest + 1
    /\ UNCHANGED <<oldest, shown, hasMore, asked, torn>>

\* prune, once a day.
Prune ==
    /\ oldest <= newest /\ oldest <= MaxPruned
    /\ oldest' = oldest + 1
    /\ UNCHANGED <<newest, shown, hasMore, asked, torn>>

\* list_events asks for one more than a page; below = 0 stands for no "before".
Answer(q) ==
    /\ asked[q].pc = "sent"
    /\ LET top  == IF asked[q].below = 0 THEN newest ELSE asked[q].below - 1
           held == IF top < oldest THEN 0 ELSE top - oldest + 1
           n    == IF held > LogPageSize THEN LogPageSize ELSE held
       IN asked' = [asked EXCEPT ![q] = [pc |-> "answered", below |-> @.below, more |-> held > n,
                                         page |-> [i \in 1..n |-> top - i + 1]]]
    /\ UNCHANGED <<oldest, newest, shown, hasMore, torn>>

-----------------------------------------------------------------------------
(* The hook *)

Ask(q) ==
    /\ q # "first" /\ asked[q].pc = "none"
    /\ q = "more" => hasMore /\ shown # <<>>
    /\ asked' = [asked EXCEPT ![q] = [pc |-> "sent", below |-> IF q = "more" THEN Last(shown) ELSE 0]]
    /\ UNCHANGED <<oldest, newest, shown, hasMore, torn>>

Done(q) == asked' = [asked EXCEPT ![q] = NoRequest]

ShowFirst ==
    /\ asked["first"].pc = "answered" /\ Done("first")
    /\ shown' = asked["first"].page /\ hasMore' = asked["first"].more /\ torn' = FALSE
    /\ UNCHANGED <<oldest, newest>>

NewestShown == IF shown = <<>> THEN 0 ELSE Head(shown)

\* Mutant of Apart: an event less than a page is missed without a reset.
FarApart(page) == Len(page) >= LogPageSize /\ Last(page) > NewestShown + LogPageSize

\* There may be events between the page and the list.
Apart(page) == Len(page) >= LogPageSize /\ Last(page) > NewestShown + 1

\* mergeFresh.
ShowFresh(q) ==
    /\ q \in {"timer", "refresh"} /\ asked[q].pc = "answered" /\ Done(q)
    /\ LET page == asked[q].page IN
       IF page = <<>> THEN UNCHANGED <<shown, hasMore, torn>>
       ELSE IF Apart(page)
       THEN shown' = page /\ hasMore' = TRUE /\ torn' = FALSE
       ELSE /\ shown' = page \o Among(shown, 1..(Last(page) - 1))
            /\ UNCHANGED <<hasMore, torn>>
    /\ UNCHANGED <<oldest, newest>>

ShowMore ==
    /\ asked["more"].pc = "answered" /\ Done("more")
    /\ shown' = shown \o Among(asked["more"].page, 1..(asked["more"].below - 1))
    /\ hasMore' = asked["more"].more
    /\ torn' = (torn \/ shown = <<>> \/ Last(shown) # asked["more"].below)
    /\ UNCHANGED <<oldest, newest>>

\* The request fails; the list stays.
FailRequest(q) ==
    /\ asked[q].pc # "none" /\ Done(q)
    /\ UNCHANGED <<oldest, newest, shown, hasMore, torn>>

Next == \/ Record \/ Prune
        \/ \E q \in Requests : Answer(q) \/ Ask(q) \/ ShowFresh(q) \/ FailRequest(q)
        \/ ShowFirst \/ ShowMore

Spec == Init /\ [][Next]_logVars

-----------------------------------------------------------------------------
(* Properties *)

\* The list shows every event of the log between its ends, once and in order,
\* and without a button for more there is nothing older.
Whole ==
    /\ \A i, k \in DOMAIN shown : i < k => shown[k] < shown[i]
    /\ shown # <<>> => \A e \in oldest..newest :
          /\ Last(shown) < e /\ e < Head(shown) => e \in ToSet(shown)
          /\ e < Last(shown) => hasMore

\* The list is whole however answers overtake each other, are lost or find the
\* log pruned; except when the list was replaced while an older page was loading.
ListIsWhole == torn \/ Whole

\* "Instead of silently skipping events" (useLogs.ts:12): the list never has a
\* gap.  Violated: a refresh that starts the list over leaves an older page
\* that is on its way, and that page is put under the new list.
NothingIsSkipped == Whole

=============================================================================
