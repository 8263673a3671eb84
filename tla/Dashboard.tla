----------------------------- MODULE Dashboard -----------------------------
(***************************************************************************)
(* What the web application reads and shows: the queries behind the        *)
(* dashboard, and the screens of three hooks, the log console, the         *)
(* benchmark and the parse button.  They read tables that others write and *)
(* share no state among themselves, and so do their variables.             *)
(***************************************************************************)
EXTENDS Naturals

CONSTANTS MaxImports, MaxDay, Batches, SnapshotsKept, PageSize,  \* Readers
          LogPageSize, MaxEvents, MaxPruned,                     \* LogPages
          Users, MaxEdits,                                       \* BenchmarkEdits: its cells
          MaxPollFailures, MaxParses                             \* ParseWatch: its runs

VARIABLES day, imports, kept, changes, reader, before,
          oldest, newest, shown, hasMore, asked, torn,
          overrides, writing, load, lastWrite, shownWrite, screen, readWrite, raced,
          run, runs, button, status, failed, polls, timer, late

Reading == INSTANCE Readers WITH Keep <- SnapshotsKept
Logs == INSTANCE LogPages
Edits == INSTANCE BenchmarkEdits WITH Cells <- Users
Watching == INSTANCE ParseWatch WITH MaxRuns <- MaxParses

\* What is assumed of the constants.
ASSUME DashboardAssumptions ==
    /\ Reading!ReadersAssumption /\ Logs!LogAssumption
    /\ Edits!EditsAssumption /\ Watching!WatchAssumption

-----------------------------------------------------------------------------
(* The properties of the components, those of one kind together *)

\* Statements of one request see different moments, and the summary, the list of
\* a service's methods and the pages of the history still fit together.
ReadersSeeOneHistory ==
    /\ Reading!ReadersTypeOK
    /\ Reading!CountsAreOrdered /\ Reading!MethodsAreOfListing /\ Reading!PagesMissNothing

\* The log console and the benchmark show what the server has, in whatever order
\* answers arrive.
ScreensTellTruth ==
    /\ Logs!LogTypeOK /\ Logs!ListIsWhole
    /\ Edits!EditsTypeOK /\ Edits!ScreenIsStored
    /\ Watching!WatchTypeOK

=============================================================================
