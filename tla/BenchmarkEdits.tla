--------------------------- MODULE BenchmarkEdits ---------------------------
(***************************************************************************)
(* Overrides of benchmark cells: PUT /api/benchmark/overrides and GET      *)
(* /api/benchmark (app/benchmark_api.py over app/benchmark_repo.py), and   *)
(* the hook that sends them and shows the answers                          *)
(* (frontend/src/hooks/useBenchmark.ts).                                   *)
(*                                                                         *)
(* An answer is the whole matrix; here it is its overrides.                *)
(***************************************************************************)
EXTENDS Naturals, FiniteSets

CONSTANTS Cells,
          MaxEdits      \* bound: writes of the session

EditsAssumption == MaxEdits \in Nat

VARIABLES overrides,    \* table benchmark_overrides, "auto" where there is no row
          writing,      \* writing[c]: the write of cell c under way (savingNow)
          load,         \* the load under way that is not superseded
          lastWrite, shownWrite,
          screen,       \* the overrides shown; the first load is over
          readWrite,    \* history variable: the latest write whose answer was read
          raced         \* history variable: an answer was read out of order or lost,
                        \* since the last request that ran by itself

editVars == <<overrides, writing, load, lastWrite, shownWrite, screen, readWrite, raced>>

Values == {"auto", "yes", "no"}

Matrices == [Cells -> Values]

NoWrite == [pc |-> "idle"]

Saving == {c \in Cells : writing[c].pc # "idle"}

EditsTypeOK ==
    /\ overrides \in Matrices /\ screen \in Matrices
    /\ lastWrite \in 0..MaxEdits /\ shownWrite \in 0..lastWrite
    /\ \A c \in Cells : writing[c].pc \in {"idle", "sent", "stored", "answered"}
    /\ load.pc \in {"idle", "sent", "answered"}

Init ==
    /\ overrides = [c \in Cells |-> "auto"]
    /\ screen = overrides
    /\ writing = [c \in Cells |-> NoWrite] /\ load = NoWrite
    /\ lastWrite = 0 /\ shownWrite = 0 /\ readWrite = 0
    /\ raced = FALSE

\* Whatever is under way does not run by itself any more.
Joined == [c \in Cells |-> IF c \in Saving THEN [writing[c] EXCEPT !.alone = FALSE] ELSE writing[c]]

-----------------------------------------------------------------------------
(* Writes: one at a time for a cell *)

Override(c, v) ==
    /\ c \notin Saving /\ lastWrite < MaxEdits
    /\ lastWrite' = lastWrite + 1
    /\ writing' = [Joined EXCEPT ![c] = [pc |-> "sent", value |-> v, number |-> lastWrite + 1,
                                         alone |-> Saving = {} /\ load.pc = "idle"]]
    /\ load' = IF load.pc = "idle" THEN load ELSE [load EXCEPT !.alone = FALSE]
    /\ raced' = (raced \/ load.pc # "idle")
    /\ UNCHANGED <<overrides, shownWrite, screen, readWrite>>

\* set_override; the table is read by a later statement.
Store(c) ==
    /\ writing[c].pc = "sent"
    /\ overrides' = [overrides EXCEPT ![c] = writing[c].value]
    /\ writing' = [writing EXCEPT ![c].pc = "stored"]
    /\ UNCHANGED <<load, lastWrite, shownWrite, screen, readWrite, raced>>

Read(c) ==
    /\ writing[c].pc = "stored"
    /\ writing' = [writing EXCEPT ![c] = [pc |-> "answered", matrix |-> overrides,
                                          number |-> @.number, alone |-> @.alone]]
    /\ readWrite' = IF writing[c].number > readWrite THEN writing[c].number ELSE readWrite
    /\ raced' = (raced \/ writing[c].number < readWrite)
    /\ UNCHANGED <<overrides, load, lastWrite, shownWrite, screen>>

\* Mutant of Newer: whatever arrives is shown.
Arrived(c) == TRUE

Newer(c) == writing[c].number > shownWrite

Show(c) ==
    /\ writing[c].pc = "answered"
    /\ IF Newer(c) THEN /\ shownWrite' = writing[c].number
                        /\ screen' = writing[c].matrix
                   ELSE UNCHANGED <<shownWrite, screen>>
    /\ raced' = (raced /\ ~writing[c].alone)
    /\ writing' = [writing EXCEPT ![c] = NoWrite]
    /\ UNCHANGED <<overrides, load, lastWrite, readWrite>>

\* The request fails, before or after the override is stored.
FailWrite(c) ==
    /\ c \in Saving
    /\ raced' = (raced \/ writing[c].pc # "sent")
    /\ writing' = [writing EXCEPT ![c] = NoWrite]
    /\ UNCHANGED <<overrides, load, lastWrite, shownWrite, screen, readWrite>>

-----------------------------------------------------------------------------
(* Loads: a reload cancels the one before *)

Reload ==
    /\ load' = [pc |-> "sent", alone |-> Saving = {}]
    /\ writing' = Joined
    /\ raced' = (raced \/ Saving # {})
    /\ UNCHANGED <<overrides, lastWrite, shownWrite, screen, readWrite>>

ReadAll ==
    /\ load.pc = "sent"
    /\ load' = [pc |-> "answered", matrix |-> overrides, alone |-> load.alone]
    /\ UNCHANGED <<overrides, writing, lastWrite, shownWrite, screen, readWrite, raced>>

ShowAll ==
    /\ load.pc = "answered"
    /\ screen' = load.matrix
    /\ raced' = (raced /\ ~load.alone)
    /\ load' = NoWrite
    /\ UNCHANGED <<overrides, writing, lastWrite, shownWrite, readWrite>>

FailLoad ==
    /\ load.pc # "idle" /\ load' = NoWrite
    /\ UNCHANGED <<overrides, writing, lastWrite, shownWrite, screen, readWrite, raced>>

Next == \/ \E c \in Cells : \/ \E v \in Values : Override(c, v)
                            \/ Store(c) \/ Read(c) \/ Show(c) \/ FailWrite(c)
        \/ Reload \/ ReadAll \/ ShowAll \/ FailLoad

Spec == Init /\ [][Next]_editVars

Quiet == Saving = {} /\ load.pc = "idle"

-----------------------------------------------------------------------------
(* Properties *)

\* When nothing is under way the screen shows what is stored, in whatever order
\* the answers of writes came; unless the server read them out of order, a load
\* overlapped a write or the answer of a stored write was lost.  The next write
\* or reload that runs by itself makes the screen right again.
ScreenIsStored == Quiet /\ ~raced => screen = overrides

\* "A response older than the one already shown must not replace it, otherwise
\* a late answer hides a newer edit" (useBenchmark.ts:19-20): no answer takes an
\* edit off the screen that is stored and shown.  Violated: the answer of a load
\* that was read before the edit arrives after it.
EditsStayShown ==
    [][\A c \in Cells : screen[c] = overrides[c] => screen'[c] = screen[c] \/ overrides'[c] # overrides[c]]_editVars

=============================================================================
