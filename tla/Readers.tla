------------------------------ MODULE Readers ------------------------------
(***************************************************************************)
(* What the dashboard reads while imports are stored and old ones pruned   *)
(* (the queries of app/repository.py behind app/main.py and                *)
(* app/hidden_api.py).                                                     *)
(*                                                                         *)
(* An import is one commit here (SnapshotImport has its steps).  Each      *)
(* statement of a reader is a step; between two of them anything may be    *)
(* committed, and days may pass.                                           *)
(***************************************************************************)
EXTENDS Naturals, FiniteSets

CONSTANTS MaxImports,  \* bound: imports
          MaxDay,      \* bound: days
          Batches,     \* sizes of the changes of an import
          Keep,        \* SNAPSHOTS_KEEP
          PageSize     \* of the list of changes

\* Pages have rows, and a snapshot is kept at least until the next one.
ReadersAssumption ==
    /\ MaxImports \in Nat /\ MaxDay \in Nat /\ Batches \subseteq Nat
    /\ Keep \in Nat \ {0} /\ PageSize \in Nat \ {0}

VARIABLES day,
          imports,   \* number of imports committed; import i is snapshot i
          kept,      \* snapshots that are not pruned
          changes,   \* table changes: id, at (the import, which gives all of its
                     \* changes one detected_at), day
          reader,    \* the request under way and what it has read
          before     \* history variable: changes when a reader began to page

readerVars == <<day, imports, kept, changes, reader, before>>

Services == {"visible", "hidden"}

\* A service has another id in every snapshot.
ServiceId(i, s) == [snapshot |-> i, service |-> s]

Idle == [what |-> "none"]

ReadersTypeOK ==
    /\ kept \subseteq 1..imports
    /\ \A c \in changes : c.at \in 1..imports /\ c.day \in 0..day
    /\ reader.what \in {"none", "summary", "services", "methods", "pages"}

Init ==
    /\ day = 0 /\ imports = 0 /\ kept = {} /\ changes = {}
    /\ reader = Idle /\ before = {}

-----------------------------------------------------------------------------
\* Some bank's import; with the oldest snapshots beyond Keep pruned.
Import ==
    /\ imports < MaxImports
    /\ imports' = imports + 1
    /\ kept' = {i \in kept \cup {imports + 1} : i + Keep > imports + 1}
    /\ \E n \in Batches : changes' = changes \cup
          {[id |-> Cardinality(changes) + k, at |-> imports + 1, day |-> day] : k \in 1..n}
    /\ UNCHANGED <<day, reader, before>>

\* At most once while a summary is read.
Midnight ==
    /\ day < MaxDay /\ day' = day + 1
    /\ reader.what = "summary" => reader.since = day
    /\ UNCHANGED <<imports, kept, changes, reader, before>>

-----------------------------------------------------------------------------
(* GET /api/summary: three counts, in this order *)

Today == Cardinality({c \in changes : c.day = day})
Week == Cardinality({c \in changes : c.day + 1 >= day})   \* two days long here
Total == Cardinality(changes)

\* Mutant of Counted: the total is counted first.
CountedDown(n) == CASE n = 0 -> Total [] n = 1 -> Week [] OTHER -> Today

Counted(n) == CASE n = 0 -> Today [] n = 1 -> Week [] OTHER -> Total

AskSummary ==
    /\ reader.what = "none"
    /\ reader' = [what |-> "summary", since |-> day, n |-> 0, counts |-> [k \in {} |-> 0]]
    /\ UNCHANGED <<day, imports, kept, changes, before>>

Count ==
    /\ reader.what = "summary" /\ reader.n < 3
    /\ reader' = [reader EXCEPT !.n = @ + 1,
                                !.counts = [k \in 0..reader.n |->
                                               IF k = reader.n THEN Counted(k) ELSE @[k]]]
    /\ UNCHANGED <<day, imports, kept, changes, before>>

-----------------------------------------------------------------------------
(* GET /api/services, then /api/methods of one of them (or /api/hidden/...) *)

Latest == {i \in kept : \A j \in kept : j <= i}

\* Mutant of MethodsOf: by the name of the service, in the latest snapshot.
MethodsByName(id) == {ServiceId(i, id.service) : i \in Latest}

MethodsOf(id) == {id} \cap {ServiceId(i, s) : i \in kept, s \in Services}

ListServices ==
    /\ reader.what = "none"
    /\ \E s \in Services :
          reader' = [what |-> "services", shown |-> {ServiceId(i, s) : i \in Latest}, since |-> imports]
    /\ UNCHANGED <<day, imports, kept, changes, before>>

ListMethods ==
    /\ reader.what = "services"
    /\ \E id \in reader.shown :
          reader' = [what |-> "methods", id |-> id, of |-> MethodsOf(id), since |-> reader.since]
    /\ UNCHANGED <<day, imports, kept, changes, before>>

-----------------------------------------------------------------------------
(* GET /api/changes: pages by LIMIT and OFFSET, newest first *)

\* Rows that ORDER BY detected_at may put before all others; rows of one import
\* come in any order, and in another one in the next statement.
Prefixes(n) == {s \in SUBSET changes : /\ Cardinality(s) = n
                                       /\ \A c \in s, d \in changes \ s : c.at >= d.at}

AskPages ==
    /\ reader.what = "none"
    /\ reader' = [what |-> "pages", n |-> 0, seen |-> {}, cut |-> {}]
    /\ before' = changes
    /\ UNCHANGED <<day, imports, kept, changes>>

AtMost(n) == IF n <= Total THEN n ELSE Total

\* Mutant of Offset: the page is behind the rows that were shown, by their number.
OffsetByOne == reader.n * PageSize + 1

Offset == reader.n * PageSize

\* cut: the imports a boundary of a page falls into.
NextPage ==
    /\ reader.what = "pages" /\ Offset < Total
    /\ \E p \in Prefixes(Offset), q \in Prefixes(AtMost(Offset + PageSize)) :
          /\ p \subseteq q
          /\ reader' = [reader EXCEPT !.n = @ + 1, !.seen = @ \cup (q \ p),
                            !.cut = @ \cup ({c.at : c \in p} \cap {c.at : c \in changes \ p})]
    /\ UNCHANGED <<day, imports, kept, changes, before>>

\* The answer is shown, or the request fails.
Leave ==
    /\ reader.what # "none"
    /\ reader' = Idle /\ before' = {}
    /\ UNCHANGED <<day, imports, kept, changes>>

Next == \/ Import \/ Midnight
        \/ AskSummary \/ Count \/ ListServices \/ ListMethods \/ AskPages \/ NextPage
        \/ Leave

Spec == Init /\ [][Next]_readerVars

-----------------------------------------------------------------------------
(* Properties *)

\* The three counts of a summary are of three moments, and still the changes of
\* today are not more than those of the week, nor these more than all.
CountsAreOrdered ==
    reader.what = "summary" /\ reader.n = 3 =>
        reader.counts[0] <= reader.counts[1] /\ reader.counts[1] <= reader.counts[2]

\* The methods a reader sees under a service are of the snapshot the service was
\* listed in; there are none only if Keep imports have come in between.
MethodsAreOfListing ==
    reader.what = "methods" =>
        /\ reader.of \subseteq {reader.id}
        /\ reader.of = {} => imports - reader.since >= Keep

\* Paging through the history to its end shows every change that was there when
\* the reader began, although imports push the pages down; except changes of an
\* import that a boundary of a page cuts, whose order is not determined.
PagesMissNothing ==
    reader.what = "pages" /\ Offset >= Total =>
        \A c \in before \ reader.seen : c.at \in reader.cut

=============================================================================
