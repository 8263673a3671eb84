--------------------------- MODULE PortalReading ---------------------------
(***************************************************************************)
(* Everything that reads the portals: the scan of Alfa's articles, the     *)
(* parsers of OpenAPI files, the walk along $refs and a download.  A parse *)
(* of a bank is one object and one thread, and what its parts share are    *)
(* arguments and results, which each part takes as constants or chooses;   *)
(* so their variables are their own.                                       *)
(***************************************************************************)
EXTENDS Naturals

CONSTANTS Tree, Endpoints, Notes, NoPage, Threads, MaxRedirects,        \* AlfaScan
          Docs, Host, Main, Names, Graphs, Local, MaxDepth, MaxNested,  \* SpecWalk
          Urls, Origin, NoOrigin, MaxHops, MaxBytes, ChunkBytes,        \* GuardedGet
          Described, NoTag, Spaces, Private, Parent, Products, Entry,   \* SpecParsers
          Routes, Slugs, Extra, Title, SpecsOf, NotInMenu

VARIABLES stage, leaves, queue, taken, got, busy, hops, results, snapshot, answers,
          graph, known, body, walk, stack, cache, last, fetches,
          url, current, hopCount, reading, size, asked, requests,
          bank, todo, rows, parsing, plan, read, dropped

Alfa == INSTANCE AlfaScan WITH Workers <- Threads
Walk == INSTANCE SpecWalk
Get == INSTANCE GuardedGet
Port == INSTANCE SpecParsers

ASSUME PortalAssumptions ==
    /\ Alfa!AlfaAssumption /\ Walk!WalkAssumption
    /\ Get!DownloadAssumption /\ Port!PortalAssumption

AlfaVars == <<stage, leaves, queue, taken, got, busy, hops, results, snapshot, answers>>
WalkVars == <<graph, known, body, walk, stack, cache, last, fetches>>
GetVars == <<url, current, hopCount, reading, size, asked, requests>>
PortVars == <<bank, todo, rows, parsing, plan, read, dropped>>

-----------------------------------------------------------------------------
(* The properties of the components, those of one kind together *)

\* Every component's state has its type.
ReadingTypes == Alfa!TypeOK /\ Walk!TypeOK /\ Get!TypeOK /\ Port!TypeOK

\* "A snapshot as a whole or not at all" (README.md:17): Alfa's is made of the
\* last answer for each leaf, the others have every document of the plan but for
\* pages of Tochka's nominal account, of which they have one at least.
WholeOrNothing == Alfa!NoPartialSnapshot /\ Port!WholeOrNothing

\* Of those pages, too, a snapshot has every one with a method.  Violated.
ChainIsWhole == Port!ChainIsWhole

\* A method of Alfa's has one row, however its path is written; a section of
\* Sber's counts a method once, however many documents it has; a service of
\* Tochka's has the methods of one product.
MethodsCountOnce == Alfa!OneRowPerMethod /\ Port!OnceInSection /\ Port!ProductsApart

\* What is shown is described by a public article, or has a page in an open
\* space: also when something private describes the same method.
ShownIsPublic == Alfa!ShownIsPublic /\ Port!ShownHasPage

\* A $ref means a pointer into the file it is written in.
RightDocument == Walk!RightDocument

\* Only the host of the specification is asked, along redirects and $refs.
StaysOnHost == Walk!StaysOnHost /\ Get!AsksOneHost

\* A parse costs a bounded number of requests: a download of so many hops, one
\* download of each sibling file, no $ref twice on a branch.
BoundedReading == Get!Bounded /\ Walk!FetchedOnce /\ Walk!NoRefTwice

\* Within one file only real cycles are cut.
CutsAreCycles == Walk!CutsAreCycles

\* In several files, too.  Violated.
OnlyCyclesAreCut == Walk!OnlyCyclesAreCut

=============================================================================
