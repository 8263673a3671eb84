-------------------------- MODULE DashboardProofs ---------------------------
(***************************************************************************)
(* That the queries of the dashboard fit together and that its screens     *)
(* show what the server has, for every value of the constants.             *)
(***************************************************************************)
EXTENDS Dashboard, InOrder, Integers, FiniteSetTheorems, SequenceTheorems,
        WellFoundedInduction, TLAPS

LEMMA PartIsSmaller ==
    ASSUME NEW T, IsFiniteSet(T), NEW S \in SUBSET T
    PROVE  /\ IsFiniteSet(S) /\ Cardinality(S) \in Nat /\ Cardinality(T) \in Nat
           /\ Cardinality(S) <= Cardinality(T)
           /\ S # T => Cardinality(S) < Cardinality(T)
BY FS_Subset, FS_CardinalityType

LEMMA LeastNumber ==
    ASSUME NEW T \in SUBSET Nat, T # {}
    PROVE  \E m \in T : \A k \in T : m <= k
<1>1. \E m \in T : \A k \in T : <<k, m>> \notin OpToRel(<, Nat)
  BY NatLessThanWellFounded, WFMin
<1>2. PICK m \in T : \A k \in T : <<k, m>> \notin OpToRel(<, Nat)
  BY <1>1
<1>3. \A k \in T : ~(k < m)
  BY <1>2 DEF OpToRel
<1>4. QED
  BY <1>3

-----------------------------------------------------------------------------
(* The queries: Readers *)

LEMMA ReadingCardinality == \A S : Reading!Cardinality(S) = Cardinality(S)
BY DEF Reading!Cardinality, Cardinality

OnDay(d) == {c \in changes : c.day = d}

\* A summary: a count stays below those that are still to come.
SummaryIsOrdered ==
    reader.what = "summary" =>
        /\ reader = [what |-> "summary", since |-> reader.since, n |-> reader.n, counts |-> reader.counts]
        /\ reader.since \in Nat /\ reader.since <= day /\ day <= reader.since + 1
        /\ reader.n \in 0..3
        /\ \A k \in 0..(reader.n - 1) : reader.counts[k] \in Nat
        /\ reader.n = 1 => \E d \in Nat : /\ reader.since <= d /\ d <= day
                                          /\ reader.counts[0] <= Cardinality(OnDay(d))
        /\ reader.n >= 2 => reader.counts[0] <= reader.counts[1]
        /\ reader.n = 2 => reader.counts[1] <= Cardinality(changes)
        /\ reader.n = 3 => reader.counts[1] <= reader.counts[2]

\* Services and methods: what is listed is of the newest snapshot at that time.
ListingIsOfSnapshot ==
    /\ reader.what \in {"services", "methods"} => reader.since \in 0..imports
    /\ reader.what = "services" =>
          \A id \in reader.shown : id.snapshot = reader.since /\ id.service \in Reading!Services
                                   /\ id = Reading!ServiceId(id.snapshot, id.service)
                                   /\ reader.since \in 1..imports
    /\ reader.what = "methods" =>
          /\ reader.of \subseteq {reader.id}
          /\ reader.of = {} => imports - reader.since >= SnapshotsKept

NotOlder(c) == {d \in changes : d.at >= c.at}

\* Pages: a change that is still to come has more before it than was paged over.
NothingIsPassedOver ==
    reader.what = "pages" =>
        /\ reader = [what |-> "pages", n |-> reader.n, seen |-> reader.seen, cut |-> reader.cut]
        /\ reader.n \in Nat
        /\ before \subseteq changes
        /\ \A c \in before \ reader.seen :
              c.at \in reader.cut \/ Cardinality(NotOlder(c)) > reader.n * PageSize

TablesAreRight ==
    /\ day \in Nat /\ imports \in Nat
    /\ kept = {i \in 1..imports : i + SnapshotsKept > imports}
    /\ IsFiniteSet(changes)
    /\ \A c \in changes : c.at \in 1..imports /\ c.day \in 0..day

ReadersInv ==
    /\ TablesAreRight
    /\ reader.what \in {"none", "summary", "services", "methods", "pages"}
    /\ SummaryIsOrdered /\ ListingIsOfSnapshot /\ NothingIsPassedOver

\* A part of a finite set has no more members.
LEMMA ReadersInit ==
    ASSUME Reading!ReadersAssumption, Reading!Init
    PROVE  ReadersInv
<1>1. 1..0 = {}
  OBVIOUS
<1>2. TablesAreRight
  BY <1>1, FS_EmptySet DEF Reading!ReadersAssumption, Reading!Init, TablesAreRight
<1>3. reader.what = "none"
  BY DEF Reading!Init, Reading!Idle
<1>4. QED
  BY <1>2, <1>3 DEF ReadersInv, SummaryIsOrdered, ListingIsOfSnapshot, NothingIsPassedOver

\* An import only adds changes, all of them newer, and they are finite.
LEMMA ImportAdds ==
    ASSUME Reading!ReadersAssumption, TablesAreRight, Reading!Import
    PROVE  /\ changes \subseteq changes'
           /\ TablesAreRight'
<1>0. /\ SnapshotsKept \in Nat \ {0} /\ imports \in Nat /\ day \in Nat /\ IsFiniteSet(changes)
      /\ kept = {i \in 1..imports : i + SnapshotsKept > imports}
  BY DEF Reading!ReadersAssumption, TablesAreRight
<1>1. PICK n \in Batches : changes' = changes \cup
          {[id |-> Reading!Cardinality(changes) + k, at |-> imports + 1, day |-> day] : k \in 1..n}
  BY DEF Reading!Import
<1> DEFINE row == [k \in 1..n |-> [id |-> Reading!Cardinality(changes) + k, at |-> imports + 1, day |-> day]]
           added == {row[k] : k \in 1..n}
<1>2. IsFiniteSet(1..n)
  BY FS_Interval DEF Reading!ReadersAssumption
<1>3. IsFiniteSet(added)
  <2>1. row \in Surjection(1..n, added)
    BY DEF Surjection
  <2> HIDE DEF row, added
  <2>2. QED
    BY <1>2, <2>1, FS_Surjection
<1>4. changes' = changes \cup added
  BY <1>1
<1>5. \A c \in added : c.at = imports + 1 /\ c.day = day
  OBVIOUS
<1> HIDE DEF added, row
<1>6. imports' = imports + 1 /\ day' = day /\ kept' = {i \in kept \cup {imports + 1} : i + SnapshotsKept > imports + 1}
  BY DEF Reading!Import
<1>7. kept' = {i \in 1..imports' : i + SnapshotsKept > imports'}
  BY <1>0, <1>6
<1>8. IsFiniteSet(changes')
  BY <1>0, <1>3, <1>4, FS_Union
<1>9. \A c \in changes' : c.at \in 1..imports' /\ c.day \in 0..day'
  BY <1>0, <1>4, <1>5, <1>6 DEF TablesAreRight
<1>10. QED
  BY <1>0, <1>4, <1>6, <1>7, <1>8, <1>9 DEF TablesAreRight

\* Nothing but an import or midnight changes the tables and the day.
LEMMA TablesStay ==
    ASSUME Reading!ReadersAssumption, TablesAreRight, [Reading!Next]_Reading!readerVars
    PROVE  TablesAreRight' /\ changes \subseteq changes' /\ day \in Nat /\ imports \in Nat
           /\ imports <= imports' /\ day <= day' /\ day' \in Nat /\ imports' \in Nat
<1>1. CASE Reading!Import
  BY <1>1, ImportAdds DEF TablesAreRight, Reading!Import
<1>2. CASE Reading!Midnight
  BY <1>2 DEF TablesAreRight, Reading!Midnight
<1>3. CASE UNCHANGED <<day, imports, kept, changes>>
  BY <1>3 DEF TablesAreRight
<1>4. QED
  BY <1>1, <1>2, <1>3 DEF Reading!Next, Reading!readerVars, Reading!AskSummary, Reading!Count,
      Reading!ListServices, Reading!ListMethods, Reading!AskPages, Reading!NextPage, Reading!Leave

\* What else there is to a step: it asks, reads or ends, or leaves the request.
LEMMA ReaderMoves ==
    ASSUME [Reading!Next]_Reading!readerVars
    PROVE  \/ reader' = reader /\ before' = before /\ (Reading!Midnight \/ day' = day)
           \/ Reading!AskSummary \/ Reading!Count \/ Reading!ListServices \/ Reading!ListMethods
           \/ Reading!AskPages \/ Reading!NextPage \/ Reading!Leave
BY DEF Reading!Next, Reading!readerVars, Reading!Import, Reading!Midnight

\* The next page and the next count are of the same request.
LEMMA PagesGoOn ==
    ASSUME NothingIsPassedOver, Reading!NextPage
    PROVE  \E p \in Reading!Prefixes(Reading!Offset),
              q \in Reading!Prefixes(Reading!AtMost(Reading!Offset + PageSize)) :
              /\ p \subseteq q
              /\ reader' = [what |-> "pages", n |-> reader.n + 1, seen |-> reader.seen \cup (q \ p),
                            cut |-> reader.cut \cup ({c.at : c \in p} \cap {c.at : c \in changes \ p})]
<1>1. PICK p \in Reading!Prefixes(Reading!Offset),
           q \in Reading!Prefixes(Reading!AtMost(Reading!Offset + PageSize)) :
              /\ p \subseteq q
              /\ reader' = [reader EXCEPT !.n = @ + 1, !.seen = @ \cup (q \ p),
                                !.cut = @ \cup ({c.at : c \in p} \cap {c.at : c \in changes \ p})]
  BY DEF Reading!NextPage
<1>2. reader = [what |-> "pages", n |-> reader.n, seen |-> reader.seen, cut |-> reader.cut]
  BY DEF Reading!NextPage, NothingIsPassedOver
<1>3. PICK n, seen, cut : reader = [what |-> "pages", n |-> n, seen |-> seen, cut |-> cut]
  BY <1>2
<1>4. reader' = [what |-> "pages", n |-> n + 1, seen |-> seen \cup (q \ p),
                 cut |-> cut \cup ({c.at : c \in p} \cap {c.at : c \in changes \ p})]
  BY <1>1, <1>3
<1>5. QED
  BY <1>1, <1>3, <1>4

LEMMA SummaryGoesOn ==
    ASSUME SummaryIsOrdered, Reading!Count
    PROVE  reader'.what = "summary"
<1>1. reader = [what |-> "summary", since |-> reader.since, n |-> reader.n, counts |-> reader.counts]
  BY DEF SummaryIsOrdered, Reading!Count
<1>2. PICK since, n, counts : reader = [what |-> "summary", since |-> since, n |-> n, counts |-> counts]
  BY <1>1
<1>3. QED
  BY <1>2 DEF Reading!Count

LEMMA SummaryStep ==
    ASSUME Reading!ReadersAssumption, ReadersInv, [Reading!Next]_Reading!readerVars
    PROVE  SummaryIsOrdered'
<1>0. /\ changes \subseteq changes' /\ IsFiniteSet(changes) /\ IsFiniteSet(changes')
      /\ day \in Nat /\ day' \in Nat /\ day <= day'
      /\ \A c \in changes : c.day \in 0..day
  BY TablesStay DEF ReadersInv, TablesAreRight
<1>1. SummaryIsOrdered
  BY DEF ReadersInv
<1>2. CASE reader' = reader /\ (Reading!Midnight \/ day' = day)
  <2> SUFFICES ASSUME reader.what = "summary" PROVE SummaryIsOrdered'
    BY <1>2 DEF SummaryIsOrdered
  <2>1. day' <= reader.since + 1 /\ reader.since <= day'
    BY <1>0, <1>1, <1>2 DEF SummaryIsOrdered, Reading!Midnight
  <2>2. \A d : Cardinality(OnDay(d)) <= Cardinality(OnDay(d)') /\ Cardinality(OnDay(d)) \in Nat
                /\ Cardinality(OnDay(d)') \in Nat
    <3> TAKE d
    <3>1. OnDay(d) \in SUBSET OnDay(d)' /\ OnDay(d)' \in SUBSET changes'
      BY <1>0 DEF OnDay
    <3>2. QED
      BY <1>0, <3>1, PartIsSmaller
  <2>3. /\ Cardinality(changes) <= Cardinality(changes')
        /\ Cardinality(changes) \in Nat /\ Cardinality(changes') \in Nat
    BY <1>0, PartIsSmaller
  <2>4. ASSUME reader.n = 1
        PROVE  \E d \in Nat : /\ reader.since <= d /\ d <= day'
                              /\ reader.counts[0] <= Cardinality(OnDay(d)')
    <3>1. PICK d \in Nat : /\ reader.since <= d /\ d <= day
                           /\ reader.counts[0] <= Cardinality(OnDay(d))
      BY <1>1, <2>4 DEF SummaryIsOrdered
    <3>2. reader.counts[0] \in Nat
      BY <1>1, <2>4 DEF SummaryIsOrdered
    <3>3. d <= day' /\ reader.counts[0] <= Cardinality(OnDay(d)')
      BY <1>0, <2>2, <3>1, <3>2
    <3>4. QED
      BY <3>1, <3>3
  <2>5. ASSUME reader.n = 2 PROVE reader.counts[1] <= Cardinality(changes')
    BY <1>1, <2>3, <2>5 DEF SummaryIsOrdered
  <2>6. QED
    BY <1>1, <1>2, <2>1, <2>4, <2>5 DEF SummaryIsOrdered
<1>3. CASE Reading!AskSummary
  BY <1>0, <1>3 DEF Reading!AskSummary, SummaryIsOrdered
<1>4. CASE Reading!Count
  <2>0. reader.what = "summary" /\ reader.n < 3 /\ day' = day /\ changes' = changes
    BY <1>4 DEF Reading!Count
  <2>1. PICK n, counts, since :
            /\ reader = [what |-> "summary", since |-> since, n |-> n, counts |-> counts]
            /\ n \in 0..2 /\ since \in Nat /\ since <= day /\ day <= since + 1
            /\ \A k \in 0..(n - 1) : counts[k] \in Nat
            /\ n = 1 => \E d \in Nat : /\ since <= d /\ d <= day
                                       /\ counts[0] <= Cardinality(OnDay(d))
            /\ n >= 2 => counts[0] <= counts[1]
            /\ n = 2 => counts[1] <= Cardinality(changes)
    BY <1>1, <2>0 DEF SummaryIsOrdered
  <2> DEFINE after == [k \in 0..n |-> IF k = n THEN Reading!Counted(k) ELSE counts[k]]
  <2>2. reader' = [what |-> "summary", since |-> since, n |-> n + 1, counts |-> after]
    BY <1>4, <2>1 DEF Reading!Count
  <2>3. /\ Reading!Today = Cardinality(OnDay(day)) /\ Reading!Total = Cardinality(changes)
        /\ Reading!Week = Cardinality({c \in changes : c.day + 1 >= day})
    BY ReadingCardinality DEF Reading!Today, Reading!Week, Reading!Total, OnDay
  <2>4. Reading!Today \in Nat /\ Reading!Week \in Nat /\ Reading!Total \in Nat
        /\ Reading!Week <= Reading!Total
    <3>1. OnDay(day) \in SUBSET changes /\ {c \in changes : c.day + 1 >= day} \in SUBSET changes
      BY DEF OnDay
    <3>2. QED
      BY <1>0, <2>3, <3>1, PartIsSmaller
  <2>5. CASE n = 0
    <3>1. after = [k \in 0..0 |-> Reading!Today]
      BY <2>5 DEF Reading!Counted
    <3>2. after[0] = Cardinality(OnDay(day)) /\ after[0] \in Nat /\ after[0] <= Cardinality(OnDay(day))
      BY <2>3, <2>4, <3>1
    <3>3. OnDay(day)' = OnDay(day)
      BY <2>0 DEF OnDay
    <3> HIDE DEF after
    <3>4. QED
      BY <1>0, <2>0, <2>1, <2>2, <2>5, <3>2, <3>3 DEF SummaryIsOrdered
  <2>6. CASE n = 1
    <3>1. after[0] = counts[0] /\ after[1] = Reading!Week
      BY <2>6 DEF Reading!Counted
    <3>2. PICK d \in Nat : since <= d /\ d <= day /\ counts[0] <= Cardinality(OnDay(d))
      BY <2>1, <2>6
    <3>3. OnDay(d) \in SUBSET {c \in changes : c.day + 1 >= day}
      BY <2>1, <3>2, <1>0 DEF OnDay
    <3>4. IsFiniteSet({c \in changes : c.day + 1 >= day})
      BY <1>0, FS_Subset
    <3>5. Cardinality(OnDay(d)) <= Reading!Week /\ Cardinality(OnDay(d)) \in Nat
      BY <2>3, <3>3, <3>4, PartIsSmaller
    <3>6. counts[0] \in Nat
      BY <2>1, <2>6
    <3> HIDE DEF after
    <3>7. after[0] \in Nat /\ after[1] \in Nat /\ after[0] <= after[1] /\ after[1] <= Cardinality(changes)
      BY <2>3, <2>4, <3>1, <3>2, <3>5, <3>6
    <3>8. QED
      BY <2>0, <2>1, <2>2, <2>6, <3>7 DEF SummaryIsOrdered
  <2>7. CASE n = 2
    <3>1. after[0] = counts[0] /\ after[1] = counts[1] /\ after[2] = Reading!Total
      BY <2>7 DEF Reading!Counted
    <3>2. counts[0] \in Nat /\ counts[1] \in Nat /\ counts[0] <= counts[1] /\ counts[1] <= Reading!Total
      BY <2>1, <2>3, <2>7
    <3> HIDE DEF after
    <3>3. QED
      BY <2>0, <2>1, <2>2, <2>4, <2>7, <3>1, <3>2 DEF SummaryIsOrdered
  <2>8. QED
    BY <2>1, <2>5, <2>6, <2>7
<1>5. CASE \/ Reading!ListServices \/ Reading!ListMethods \/ Reading!AskPages \/ Reading!NextPage
           \/ Reading!Leave
  <2>1. reader'.what # "summary"
    BY <1>5, PagesGoOn DEF Reading!ListServices, Reading!ListMethods, Reading!AskPages, Reading!Leave,
        Reading!Idle, ReadersInv
  <2>2. QED
    BY <2>1 DEF SummaryIsOrdered
<1>6. QED
  BY <1>2, <1>3, <1>4, <1>5, ReaderMoves

LEMMA ListingStep ==
    ASSUME Reading!ReadersAssumption, ReadersInv, [Reading!Next]_Reading!readerVars
    PROVE  ListingIsOfSnapshot'
<1>0. /\ imports \in Nat /\ imports' \in Nat /\ imports <= imports'
      /\ SnapshotsKept \in Nat \ {0} /\ kept = {i \in 1..imports : i + SnapshotsKept > imports}
  BY TablesStay DEF ReadersInv, TablesAreRight, Reading!ReadersAssumption
<1>1. ListingIsOfSnapshot
  BY DEF ReadersInv
<1>2. CASE reader' = reader
  <2>1. reader.what \in {"services", "methods"} => reader.since \in 0..imports'
    BY <1>0, <1>1 DEF ListingIsOfSnapshot
  <2>2. reader.what = "methods" /\ reader.of = {} => imports' - reader.since >= SnapshotsKept
    BY <1>0, <1>1 DEF ListingIsOfSnapshot
  <2>3. QED
    BY <1>1, <1>2, <2>1, <2>2 DEF ListingIsOfSnapshot, Reading!ServiceId
<1>3. CASE Reading!ListServices
  <2>1. PICK s \in Reading!Services :
            reader' = [what |-> "services", shown |-> {Reading!ServiceId(i, s) : i \in Reading!Latest},
                       since |-> imports]
    BY <1>3 DEF Reading!ListServices
  <2>2. \A i \in Reading!Latest : i = imports /\ imports \in 1..imports
    BY <1>0 DEF Reading!Latest
  <2>3. \A id \in reader'.shown : id = Reading!ServiceId(imports, s) /\ imports \in 1..imports
    BY <2>1, <2>2
  <2>4. imports' = imports
    BY <1>3 DEF Reading!ListServices
  <2>5. QED
    BY <1>0, <2>1, <2>3, <2>4 DEF ListingIsOfSnapshot, Reading!ServiceId
<1>4. CASE Reading!ListMethods
  <2>1. PICK id \in reader.shown :
            reader' = [what |-> "methods", id |-> id, of |-> Reading!MethodsOf(id), since |-> reader.since]
    BY <1>4 DEF Reading!ListMethods
  <2>2. /\ reader.since \in 1..imports /\ id.service \in Reading!Services
        /\ id = Reading!ServiceId(reader.since, id.service)
    BY <1>1, <1>4, <2>1 DEF Reading!ListMethods, ListingIsOfSnapshot
  <2>3. Reading!MethodsOf(id) \subseteq {id}
    BY DEF Reading!MethodsOf
  <2>4. reader.since \in kept => id \in Reading!MethodsOf(id)
    BY <2>2 DEF Reading!MethodsOf
  <2>5. ASSUME reader.since \notin kept
        PROVE  imports - reader.since >= SnapshotsKept
    BY <1>0, <2>2, <2>5
  <2>6. imports' = imports
    BY <1>4 DEF Reading!ListMethods
  <2>7. QED
    BY <2>1, <2>2, <2>3, <2>4, <2>5, <2>6 DEF ListingIsOfSnapshot
<1>5. CASE \/ Reading!AskSummary \/ Reading!Count \/ Reading!AskPages \/ Reading!NextPage
           \/ Reading!Leave
  <2>1. reader'.what \notin {"services", "methods"}
    BY <1>5, PagesGoOn, SummaryGoesOn DEF Reading!AskSummary, Reading!AskPages, Reading!Leave,
        Reading!Idle, ReadersInv
  <2>2. QED
    BY <2>1 DEF ListingIsOfSnapshot
<1>6. QED
  BY <1>2, <1>3, <1>4, <1>5, ReaderMoves

\* Rows that may come first: as many as were asked for, none newer is missing.
LEMMA FirstRows ==
    ASSUME TablesAreRight, NEW n \in Nat, NEW p \in Reading!Prefixes(n)
    PROVE  /\ p \subseteq changes /\ IsFiniteSet(p) /\ Cardinality(p) = n
           /\ \A c \in p, d \in changes \ p : c.at >= d.at
BY ReadingCardinality, FS_Subset DEF TablesAreRight, Reading!Prefixes

LEMMA PagesStep ==
    ASSUME Reading!ReadersAssumption, ReadersInv, [Reading!Next]_Reading!readerVars
    PROVE  NothingIsPassedOver'
<1>0. /\ changes \subseteq changes' /\ IsFiniteSet(changes) /\ IsFiniteSet(changes')
      /\ PageSize \in Nat \ {0} /\ TablesAreRight
      /\ \A c \in changes : c.at \in Nat
  BY TablesStay DEF ReadersInv, TablesAreRight, Reading!ReadersAssumption
<1>1. NothingIsPassedOver
  BY DEF ReadersInv
<1>2. ASSUME NEW c
      PROVE  /\ Cardinality(NotOlder(c)) \in Nat /\ Cardinality(NotOlder(c)') \in Nat
             /\ Cardinality(NotOlder(c)) <= Cardinality(NotOlder(c)')
  <2>1. NotOlder(c) \in SUBSET NotOlder(c)' /\ NotOlder(c)' \in SUBSET changes'
    BY <1>0 DEF NotOlder
  <2>2. QED
    BY <1>0, <2>1, PartIsSmaller
<1>3. CASE reader' = reader /\ before' = before
  <2> SUFFICES ASSUME reader.what = "pages" PROVE NothingIsPassedOver'
    BY <1>3 DEF NothingIsPassedOver
  <2>1. reader.n * PageSize \in Nat
    BY <1>0, <1>1 DEF NothingIsPassedOver
  <2>2. ASSUME NEW c \in before \ reader.seen, c.at \notin reader.cut
        PROVE  Cardinality(NotOlder(c)') > reader.n * PageSize
    BY <1>1, <1>2, <2>1, <2>2 DEF NothingIsPassedOver
  <2>3. QED
    BY <1>0, <1>1, <1>3, <2>2 DEF NothingIsPassedOver
<1>4. CASE Reading!AskPages
  <2>1. /\ reader' = [what |-> "pages", n |-> 0, seen |-> {}, cut |-> {}]
        /\ before' = changes /\ changes' = changes
    BY <1>4 DEF Reading!AskPages
  <2>2. ASSUME NEW c \in changes
        PROVE  Cardinality(NotOlder(c)') > 0
    <3>1. c \in NotOlder(c)' /\ NotOlder(c)' \in SUBSET changes
      BY <1>0, <2>1 DEF NotOlder
    <3>2. Cardinality(NotOlder(c)') # 0
      BY <1>0, <3>1, FS_EmptySet, FS_Subset
    <3>3. QED
      BY <1>2, <3>2
  <2>3. 0 * PageSize = 0
    BY <1>0
  <2>4. QED
    BY <2>1, <2>2, <2>3 DEF NothingIsPassedOver
<1>5. CASE Reading!NextPage
  <2>1. PICK p \in Reading!Prefixes(Reading!Offset),
             q \in Reading!Prefixes(Reading!AtMost(Reading!Offset + PageSize)) :
              /\ p \subseteq q
              /\ reader' = [what |-> "pages", n |-> reader.n + 1, seen |-> reader.seen \cup (q \ p),
                            cut |-> reader.cut \cup ({c.at : c \in p} \cap {c.at : c \in changes \ p})]
    BY <1>1, <1>5, PagesGoOn
  <2>2. /\ reader.what = "pages" /\ before' = before /\ changes' = changes
    BY <1>5 DEF Reading!NextPage
  <2>3. PICK n \in Nat : n = reader.n
    BY <1>1, <2>2 DEF NothingIsPassedOver
  <2>4. Reading!Offset = n * PageSize /\ n * PageSize \in Nat /\ (n + 1) * PageSize = n * PageSize + PageSize
    BY <1>0, <2>3 DEF Reading!Offset
  <2>5. PICK total \in Nat : total = Reading!Total /\ total = Cardinality(changes)
    BY <1>0, ReadingCardinality, FS_CardinalityType DEF Reading!Total
  <2>6. PICK first, upto \in Nat : /\ first = Reading!Offset /\ upto = Reading!AtMost(Reading!Offset + PageSize)
                                   /\ first + PageSize <= total => upto = first + PageSize
                                   /\ first + PageSize > total => upto = total
    BY <1>0, <2>4, <2>5 DEF Reading!AtMost
  <2>7. /\ p \subseteq changes /\ IsFiniteSet(p) /\ Cardinality(p) = first
        /\ \A c \in p, d \in changes \ p : c.at >= d.at
    BY <1>0, <2>6, FirstRows
  <2>8. /\ q \subseteq changes /\ IsFiniteSet(q) /\ Cardinality(q) = upto
        /\ \A c \in q, d \in changes \ q : c.at >= d.at
    BY <1>0, <2>6, FirstRows
  <2>9. ASSUME NEW c \in before, c \notin reader'.seen, c.at \notin reader'.cut
        PROVE  Cardinality(NotOlder(c)') > (n + 1) * PageSize
    <3>1. /\ c \in changes /\ c \notin reader.seen /\ c.at \notin reader.cut /\ c \notin q \ p
          /\ ~(c.at \in {d.at : d \in p} /\ c.at \in {d.at : d \in changes \ p})
      BY <1>1, <2>1, <2>2, <2>9 DEF NothingIsPassedOver
    <3>2. Cardinality(NotOlder(c)) > first
      BY <1>1, <2>2, <2>3, <2>4, <2>6, <2>9, <3>1 DEF NothingIsPassedOver
    <3>3. c \notin p
      <4> SUFFICES ASSUME c \in p PROVE FALSE
        OBVIOUS
      <4>1. \A d \in changes : d.at = c.at => d \in p
        BY <3>1
      <4>2. \A d \in changes : d.at > c.at => d \in p
        BY <1>0, <2>7, <3>1
      <4>3. NotOlder(c) \in SUBSET p
        BY <1>0, <3>1, <4>1, <4>2 DEF NotOlder
      <4>4. Cardinality(NotOlder(c)) <= first
        BY <2>7, <4>3, PartIsSmaller
      <4>5. QED
        BY <1>2, <2>6, <3>2, <4>4
    <3>4. c \notin q /\ q # changes
      BY <3>1, <3>3
    <3>5. upto < total
      BY <1>0, <2>5, <2>8, <3>4, PartIsSmaller
    <3>6. upto = (n + 1) * PageSize
      BY <1>0, <2>4, <2>6, <3>5
    <3>7. q \in SUBSET NotOlder(c) /\ c \in NotOlder(c) /\ c \notin q
      BY <1>0, <2>8, <3>1, <3>4 DEF NotOlder
    <3>8. IsFiniteSet(NotOlder(c))
      <4>1. NotOlder(c) \in SUBSET changes
        BY DEF NotOlder
      <4>2. QED
        BY <1>0, <4>1, FS_Subset
    <3>9. Cardinality(q) < Cardinality(NotOlder(c))
      BY <3>7, <3>8, PartIsSmaller
    <3>10. NotOlder(c)' = NotOlder(c)
      BY <2>2 DEF NotOlder
    <3>11. QED
      BY <1>2, <2>6, <2>8, <3>6, <3>9, <3>10
  <2>10. QED
    BY <1>1, <2>1, <2>2, <2>3, <2>9 DEF NothingIsPassedOver
<1>6. CASE \/ Reading!AskSummary \/ Reading!Count \/ Reading!ListServices \/ Reading!ListMethods
           \/ Reading!Leave
  <2>1. reader'.what # "pages"
    BY <1>6, SummaryGoesOn DEF Reading!AskSummary, Reading!ListServices, Reading!ListMethods,
        Reading!Leave, Reading!Idle, ReadersInv
  <2>2. QED
    BY <2>1 DEF NothingIsPassedOver
<1>7. QED
  BY <1>3, <1>4, <1>5, <1>6, ReaderMoves

LEMMA ReadersStep ==
    ASSUME Reading!ReadersAssumption, ReadersInv, [Reading!Next]_Reading!readerVars
    PROVE  ReadersInv'
<1>1. reader'.what \in {"none", "summary", "services", "methods", "pages"}
  BY ReaderMoves, PagesGoOn, SummaryGoesOn DEF ReadersInv, Reading!AskSummary, Reading!ListServices,
      Reading!ListMethods, Reading!AskPages, Reading!Leave, Reading!Idle
<1>2. QED
  BY <1>1, TablesStay, SummaryStep, ListingStep, PagesStep DEF ReadersInv

LEMMA ReadersGive ==
    ASSUME Reading!ReadersAssumption, ReadersInv
    PROVE  ReadersSeeOneHistory
<1>1. Reading!ReadersTypeOK
  BY DEF ReadersInv, TablesAreRight, Reading!ReadersTypeOK
<1>2. Reading!CountsAreOrdered
  BY DEF ReadersInv, SummaryIsOrdered, Reading!CountsAreOrdered
<1>3. Reading!MethodsAreOfListing
  BY DEF ReadersInv, ListingIsOfSnapshot, Reading!MethodsAreOfListing
<1>4. Reading!PagesMissNothing
  <2> SUFFICES ASSUME reader.what = "pages", Reading!Offset >= Reading!Total,
                      NEW c \in before \ reader.seen, c.at \notin reader.cut
               PROVE  FALSE
    BY DEF Reading!PagesMissNothing
  <2>1. IsFiniteSet(changes) /\ NotOlder(c) \in SUBSET changes
    BY DEF ReadersInv, TablesAreRight, NotOlder
  <2>2. Cardinality(NotOlder(c)) > reader.n * PageSize /\ reader.n \in Nat /\ PageSize \in Nat
    BY DEF ReadersInv, NothingIsPassedOver, Reading!ReadersAssumption
  <2>3. reader.n * PageSize >= Cardinality(changes) /\ reader.n * PageSize \in Nat
    BY <2>2, ReadingCardinality DEF Reading!Offset, Reading!Total
  <2>4. QED
    BY <2>1, <2>2, <2>3, PartIsSmaller
<1>5. QED
  BY <1>1, <1>2, <1>3, <1>4 DEF ReadersSeeOneHistory

\* The queries of the dashboard fit together (ReadersSeeOneHistory) for any
\* number of imports, days and rows of a page, but for the changes of an import
\* that a page boundary cuts.
THEOREM ReadersSeeOneHistoryTheorem == Reading!Spec => []ReadersSeeOneHistory
<1>1. Reading!ReadersAssumption
  BY DashboardAssumptions
<1>2. Reading!Init => ReadersInv
  BY <1>1, ReadersInit
<1>3. ReadersInv /\ [Reading!Next]_Reading!readerVars => ReadersInv'
  BY <1>1, ReadersStep
<1>4. ReadersInv => ReadersSeeOneHistory
  BY <1>1, ReadersGive
<1>5. QED
  BY <1>2, <1>3, <1>4, PTL DEF Reading!Spec

-----------------------------------------------------------------------------
(* Lists, and what is selected of them *)

\* Every place of a list's selection holds a member of the selection.
LEMMA AscendingStays ==
    ASSUME NEW n \in Nat, NEW S \in SUBSET (1..n)
    PROVE  /\ Cardinality(S) \in Nat
           /\ \A k \in 1..Cardinality(S) : Ascending(S)[k] \in S
           /\ DOMAIN Ascending(S) = 1..Cardinality(S)
<1> DEFINE Upto(i) == {j \in S : j <= i}
<1>0. \A i \in S : i \in 1..n
  OBVIOUS
<1>1. IsFiniteSet(S) /\ Cardinality(S) \in Nat
  <2>1. IsFiniteSet(1..n)
    BY FS_Interval
  <2>2. QED
    BY <2>1, PartIsSmaller
<1>2. ASSUME NEW i PROVE IsFiniteSet(Upto(i)) /\ Cardinality(Upto(i)) \in Nat
  <2>1. Upto(i) \in SUBSET S
    OBVIOUS
  <2> HIDE DEF Upto
  <2>2. QED
    BY <1>1, <2>1, PartIsSmaller
<1>3. ASSUME NEW k \in 1..Cardinality(S)
      PROVE  \E i \in S : Cardinality(Upto(i)) = k
  <2> DEFINE T == {i \in 0..n : Cardinality(Upto(i)) >= k}
  <2>0. \A j \in S : j <= n /\ ~(j <= 0)
    BY <1>0
  <2>1. Upto(n) = S /\ Upto(0) = {}
    BY <2>0
  <2>2. n \in T
    BY <1>1, <2>1
  <2>3. Cardinality(Upto(0)) = 0
    BY <2>1, FS_EmptySet
  <2> HIDE DEF Upto
  <2>4. PICK m \in T : \A i \in T : m <= i
    <3>1. T \in SUBSET Nat /\ T # {}
      BY <2>2
    <3> HIDE DEF T
    <3>2. QED
      BY <3>1, LeastNumber
  <2>5. m \in 1..n
    BY <1>1, <2>3
  <2>6. m - 1 \in 0..n /\ Cardinality(Upto(m - 1)) < k
    BY <1>1, <1>2, <2>4, <2>5
  <2>7. CASE m \in S
    <3>0. \A j \in S : j <= m <=> j <= m - 1 \/ j = m
      BY <1>0, <2>5
    <3>1. Upto(m) = Upto(m - 1) \cup {m} /\ m \notin Upto(m - 1)
      <4>1. ~(m <= m - 1) /\ m <= m
        BY <2>5
      <4>2. QED
        BY <2>7, <3>0, <4>1 DEF Upto
    <3>2. Cardinality(Upto(m)) = Cardinality(Upto(m - 1)) + 1
      BY <1>2, <3>1, FS_AddElement
    <3>3. Cardinality(Upto(m)) = k
      BY <1>1, <1>2, <2>4, <2>6, <3>2
    <3>4. QED
      BY <2>7, <3>3
  <2>8. CASE m \notin S
    <3>0. \A j \in S : j <= m <=> j <= m - 1 \/ j = m
      BY <1>0, <2>5
    <3>1. Upto(m) = Upto(m - 1)
      BY <2>8, <3>0 DEF Upto
    <3>2. QED
      BY <1>1, <1>2, <2>4, <2>6, <3>1
  <2>9. QED
    BY <2>7, <2>8
<1>4. ASSUME NEW k \in 1..Cardinality(S)
      PROVE  Ascending(S)[k] \in S
  <2>1. Ascending(S)[k] = CHOOSE i \in S : Cardinality(Upto(i)) = k
    BY DEF Ascending
  <2>2. QED
    BY <1>3, <2>1
<1>5. QED
  BY <1>1, <1>4 DEF Ascending

\* What is selected of a list is a list of its members.
LEMMA AmongStays ==
    ASSUME NEW list \in Seq(Nat), NEW set
    PROVE  /\ Among(list, set) \in Seq(Nat)
           /\ \A k \in DOMAIN Among(list, set) : \E i \in DOMAIN list : Among(list, set)[k] = list[i]
<1>1. PICK n \in Nat : n = Len(list) /\ DOMAIN list = 1..n
  BY LenProperties
<1> DEFINE S == {k \in DOMAIN list : list[k] \in set}
<1>2. /\ Cardinality(S) \in Nat /\ DOMAIN Ascending(S) = 1..Cardinality(S)
      /\ \A k \in 1..Cardinality(S) : Ascending(S)[k] \in S
  BY <1>1, AscendingStays
<1>3. Among(list, set) = [k \in 1..Cardinality(S) |-> list[Ascending(S)[k]]]
  BY <1>2 DEF Among
<1> HIDE DEF S
<1>4. PICK c \in Nat : c = Cardinality(S)
  BY <1>2
<1>5. \A k \in 1..c : Ascending(S)[k] \in DOMAIN list /\ list[Ascending(S)[k]] \in Nat
  BY <1>2, <1>4, ElementOfSeq, <1>1 DEF S
<1>6. Among(list, set) \in [1..c -> Nat]
  BY <1>3, <1>4, <1>5
<1>7. QED
  BY <1>3, <1>4, <1>5, <1>6, SeqDef

\* Of a list that falls, what is below a number is the end of the list.
LEMMA OlderIsTheEnd ==
    ASSUME NEW list \in Seq(Nat), \A i \in DOMAIN list : list[i] >= 1,
           \A i, k \in DOMAIN list : i < k => list[k] < list[i],
           NEW x \in Nat
    PROVE  \E m \in 0..Len(list) :
              /\ Among(list, 1..(x - 1)) = [k \in 1..(Len(list) - m) |-> list[m + k]]
              /\ \A i \in 1..m : list[i] >= x
              /\ \A i \in (m + 1)..Len(list) : list[i] < x
<1>1. PICK n \in Nat : n = Len(list) /\ DOMAIN list = 1..n
  BY LenProperties
<1>2. \A i \in 1..n : list[i] \in Nat
  BY <1>1, ElementOfSeq
<1> DEFINE T == {i \in 0..n : \A k \in (i + 1)..n : list[k] < x}
<1>3. n \in T
  OBVIOUS
<1>4. PICK m \in T : \A i \in T : m <= i
  <2>0. \A i \in T : i \in 0..n
    OBVIOUS
  <2> HIDE DEF T
  <2>1. T \in SUBSET Nat /\ T # {}
    BY <1>3, <2>0
  <2>2. QED
    BY <2>1, LeastNumber
<1>7. m \in 0..n
  OBVIOUS
<1>5. \A i \in (m + 1)..n : list[i] < x
  OBVIOUS
<1>6. \A i \in 1..m : list[i] >= x
  <2> SUFFICES ASSUME NEW i \in 1..m, list[i] < x PROVE FALSE
    BY <1>2
  <2>1. i - 1 \in 0..n /\ i - 1 < m
    OBVIOUS
  <2>2. ASSUME NEW k \in i..n PROVE list[k] < x
    <3>1. i \in 1..n /\ k \in 1..n /\ list[i] \in Nat /\ list[k] \in Nat /\ (k = i \/ i < k)
      BY <1>2, <1>7
    <3>2. k = i \/ list[k] < list[i]
      BY <1>1, <3>1
    <3>3. QED
      BY <3>1, <3>2
  <2>3. i - 1 \in T
    BY <2>1, <2>2
  <2>4. QED
    BY <1>4, <2>1, <2>3
<1> HIDE DEF T
<1> DEFINE S == {k \in DOMAIN list : list[k] \in 1..(x - 1)}
<1>8. S = (m + 1)..n
  BY <1>1, <1>2, <1>5, <1>6, <1>7
<1> HIDE DEF S
<1>9. Cardinality(S) = n - m
  <2>1. Cardinality((m + 1)..n) = IF m + 1 > n THEN 0 ELSE n - (m + 1) + 1
    BY <1>7, FS_Interval
  <2>2. QED
    BY <1>7, <1>8, <2>1
<1>10. ASSUME NEW k \in 1..(n - m)
       PROVE  Ascending(S)[k] = m + k
  <2>1. ASSUME NEW i \in S PROVE Cardinality({j \in S : j <= i}) = i - m
    <3>1. {j \in S : j <= i} = (m + 1)..i
      BY <1>7, <1>8
    <3>2. Cardinality((m + 1)..i) = IF m + 1 > i THEN 0 ELSE i - (m + 1) + 1
      BY <1>7, <1>8, FS_Interval
    <3>3. i \in Int /\ m \in Int /\ m + 1 <= i
      BY <1>7, <1>8
    <3>4. i - (m + 1) + 1 = i - m /\ ~(m + 1 > i)
      BY <3>3
    <3>5. QED
      BY <3>1, <3>2, <3>4
  <2>2. m + k \in S /\ \A i \in S : (i - m = k <=> i = m + k)
    BY <1>7, <1>8
  <2>3. Ascending(S)[k] = CHOOSE i \in S : Cardinality({j \in S : j <= i}) = k
    BY <1>9 DEF Ascending
  <2>4. QED
    BY <2>1, <2>2, <2>3
<1>11. Among(list, 1..(x - 1)) = [k \in 1..(n - m) |-> list[m + k]]
  <2>1. Among(list, 1..(x - 1)) = [k \in DOMAIN Ascending(S) |-> list[Ascending(S)[k]]]
    BY DEF Among, S
  <2>2. DOMAIN Ascending(S) = 1..(n - m)
    BY <1>9 DEF Ascending
  <2>3. QED
    BY <1>10, <2>1, <2>2
<1>12. QED
  BY <1>1, <1>5, <1>6, <1>7, <1>11

\* What a list and the list put under it hold, place by place.
LEMMA PutUnder ==
    ASSUME NEW s \in Seq(Nat), NEW t \in Seq(Nat)
    PROVE  /\ s \o t \in Seq(Nat)
           /\ Len(s \o t) = Len(s) + Len(t) /\ DOMAIN (s \o t) = 1..(Len(s) + Len(t))
           /\ Len(s) \in Nat /\ Len(t) \in Nat
           /\ \A i \in 1..Len(s) : (s \o t)[i] = s[i]
           /\ \A i \in 1..Len(t) : (s \o t)[Len(s) + i] = t[i]
<1>1. PICK n \in Nat, m \in Nat : n = Len(s) /\ m = Len(t)
  BY LenProperties
<1>2. /\ s \o t \in Seq(Nat) /\ Len(s \o t) = n + m
      /\ \A i \in 1..(n + m) : (s \o t)[i] = IF i <= n THEN s[i] ELSE t[i - n]
  BY <1>1, ConcatProperties
<1>3. DOMAIN (s \o t) = 1..(n + m)
  BY <1>2, LenProperties
<1>4. \A i \in 1..m : n + i \in 1..(n + m) /\ ~(n + i <= n) /\ n + i - n = i
  BY <1>1
<1>5. \A i \in 1..m : (s \o t)[n + i] = t[i]
  BY <1>2, <1>4
<1>6. QED
  BY <1>1, <1>2, <1>3, <1>5

LEMMA PutUnderStays ==
    ASSUME NEW s \in Seq(Nat), NEW t \in Seq(Nat), NEW T,
           \A i \in DOMAIN s : s[i] \in T, \A i \in DOMAIN t : t[i] \in T
    PROVE  s \o t \in Seq(Nat) /\ \A i \in DOMAIN (s \o t) : (s \o t)[i] \in T
<1>1. PICK n \in Nat, m \in Nat : n = Len(s) /\ m = Len(t) /\ DOMAIN s = 1..n /\ DOMAIN t = 1..m
  BY LenProperties
<1>2. /\ s \o t \in Seq(Nat) /\ DOMAIN (s \o t) = 1..(n + m)
      /\ \A i \in 1..n : (s \o t)[i] = s[i]
      /\ \A i \in 1..m : (s \o t)[n + i] = t[i]
  BY <1>1, PutUnder
<1>3. ASSUME NEW i \in 1..(n + m) PROVE i \in 1..n \/ \E k \in 1..m : i = n + k
  <2>1. i > n => i - n \in 1..m /\ i = n + (i - n)
    OBVIOUS
  <2>2. QED
    BY <2>1
<1>4. /\ \A i \in 1..n : (s \o t)[i] \in T
      /\ \A k \in 1..m : (s \o t)[n + k] \in T
  <2>1. \A i \in 1..n : s[i] \in T
    BY <1>1
  <2>2. \A k \in 1..m : t[k] \in T
    BY <1>1
  <2>3. QED
    BY <1>2, <2>1, <2>2
<1>5. \A i \in 1..(n + m) : (s \o t)[i] \in T
  BY <1>3, <1>4
<1>6. QED
  BY <1>2, <1>5

-----------------------------------------------------------------------------
(* The log console: LogPages *)

LEMMA LogAmong == \A list, set : Logs!Among(list, set) = Among(list, set)
BY DEF Logs!Among, Among, Logs!Ascending, Ascending, Logs!Cardinality, Cardinality

AskRecords ==
    {Logs!NoRequest} \cup [pc : {"sent"}, below : Nat]
    \cup [pc : {"answered"}, below : Nat, more : BOOLEAN, page : Seq(Nat)]

LogTypes ==
    /\ newest \in Nat /\ newest <= MaxEvents /\ oldest \in Nat /\ 1 <= oldest /\ oldest <= newest + 1
    /\ shown \in Seq(Nat) /\ \A i \in DOMAIN shown : shown[i] \in 1..newest
    /\ hasMore \in BOOLEAN /\ torn \in BOOLEAN
    /\ asked \in [Logs!Requests -> AskRecords]
    /\ \A q \in Logs!Requests : asked[q].pc # "none" =>
          asked[q].below <= newest /\ (q = "more" => asked[q].below >= 1)

\* A page is the events below top, and says so if it leaves older ones out.
PageIsRight(answer) ==
    \E top \in Nat, n \in Nat :
        /\ n <= LogPageSize /\ n <= top /\ top <= newest
        /\ answer.page = [i \in 1..n |-> top - i + 1]
        /\ answer.below # 0 => top = answer.below - 1
        /\ n < LogPageSize => ~answer.more
        /\ \A e \in oldest..newest : e <= top - n => answer.more

PagesAreRight == \A q \in Logs!Requests : asked[q].pc = "answered" => PageIsRight(asked[q])

\* Logs!Whole, for any list.
Unbroken(list, more) ==
    /\ \A i, k \in DOMAIN list : i < k => list[k] < list[i]
    /\ list # <<>> => \A e \in oldest..newest :
          /\ list[Len(list)] < e /\ e < list[1] => \E i \in DOMAIN list : list[i] = e
          /\ e < list[Len(list)] => more

LogInv == LogTypes /\ PagesAreRight /\ (torn \/ Unbroken(shown, hasMore))

LEMMA WholeIsUnbroken ==
    ASSUME shown \in Seq(Nat)
    PROVE  Logs!Whole <=> Unbroken(shown, hasMore)
<1>1. shown # <<>> => Logs!Last(shown) = shown[Len(shown)] /\ Head(shown) = shown[1]
  BY DEF Logs!Last
<1>2. \A e : e \in Logs!ToSet(shown) <=> \E i \in DOMAIN shown : shown[i] = e
  BY DEF Logs!ToSet
<1>3. QED
  BY <1>1, <1>2 DEF Logs!Whole, Unbroken

LEMMA LogInit ==
    ASSUME Logs!LogAssumption, Logs!Init
    PROVE  LogInv
<1>1. shown = <<>> /\ <<>> \in Seq(Nat) /\ DOMAIN <<>> = {}
  BY EmptySeq DEF Logs!Init
<1>2. newest \in 0..LogPageSize /\ oldest = 1 /\ hasMore = FALSE /\ torn = FALSE
  BY DEF Logs!Init
<1>3. asked \in [Logs!Requests -> AskRecords] /\ \A q \in Logs!Requests :
          asked[q].pc # "none" => asked[q].pc = "sent" /\ asked[q].below = 0 /\ q = "first"
  BY DEF Logs!Init, AskRecords, Logs!NoRequest
<1>4. LogTypes
  <2>1. newest \in Nat /\ newest <= MaxEvents /\ oldest \in Nat /\ 1 <= oldest /\ oldest <= newest + 1
    BY <1>2 DEF Logs!LogAssumption
  <2>2. \A q \in Logs!Requests : asked[q].pc # "none" =>
          asked[q].below <= newest /\ (q = "more" => asked[q].below >= 1)
    BY <1>3, <2>1
  <2>3. QED
    BY <1>1, <1>2, <1>3, <2>1, <2>2 DEF LogTypes
<1>5. PagesAreRight
  BY <1>3 DEF PagesAreRight
<1>6. Unbroken(shown, hasMore)
  BY <1>1 DEF Unbroken
<1>7. QED
  BY <1>4, <1>5, <1>6 DEF LogInv

\* The log grows at one end and shrinks at the other; what was right stays right.
LEMMA ServerKeeps ==
    ASSUME Logs!LogAssumption, LogInv, Logs!Record \/ Logs!Prune
    PROVE  LogInv'
<1>0. LogTypes /\ PagesAreRight
  BY DEF LogInv
<1>1. /\ newest \in Nat /\ oldest \in Nat /\ 1 <= oldest /\ oldest <= newest + 1
      /\ newest' \in Nat /\ oldest' \in Nat /\ oldest <= oldest' /\ newest <= newest'
      /\ 1 <= oldest' /\ oldest' <= newest' + 1 /\ newest' <= MaxEvents
      /\ \A e \in oldest'..newest' : e \in oldest..newest \/ e > newest
      /\ UNCHANGED <<shown, hasMore, asked, torn>>
  BY <1>0 DEF Logs!Record, Logs!Prune, LogTypes, Logs!LogAssumption
<1>2. LogTypes'
  <2>1. \A i \in DOMAIN shown : shown[i] \in 1..newest'
    BY <1>0, <1>1 DEF LogTypes
  <2>2. \A q \in Logs!Requests : asked[q].pc # "none" =>
          asked[q].below <= newest' /\ (q = "more" => asked[q].below >= 1)
    <3> SUFFICES ASSUME NEW q \in Logs!Requests, asked[q].pc # "none"
                 PROVE  asked[q].below <= newest' /\ (q = "more" => asked[q].below >= 1)
      OBVIOUS
    <3>1. asked[q].below \in Nat
      BY <1>0 DEF LogTypes, AskRecords, Logs!NoRequest
    <3>2. QED
      BY <1>0, <1>1, <3>1 DEF LogTypes
  <2>3. shown' = shown /\ hasMore' = hasMore /\ asked' = asked /\ torn' = torn
    BY <1>1
  <2>4. /\ shown \in Seq(Nat) /\ hasMore \in BOOLEAN /\ torn \in BOOLEAN
        /\ asked \in [Logs!Requests -> AskRecords]
    BY <1>0 DEF LogTypes
  <2>5. QED
    BY <1>1, <2>1, <2>2, <2>3, <2>4 DEF LogTypes
<1>3. ASSUME NEW answer, PageIsRight(answer) PROVE PageIsRight(answer)'
  <2>1. PICK top \in Nat, n \in Nat :
        /\ n <= LogPageSize /\ n <= top /\ top <= newest
        /\ answer.page = [i \in 1..n |-> top - i + 1]
        /\ answer.below # 0 => top = answer.below - 1
        /\ n < LogPageSize => ~answer.more
        /\ \A e \in oldest..newest : e <= top - n => answer.more
    BY <1>3 DEF PageIsRight
  <2>2. top <= newest' /\ \A e \in oldest'..newest' : e <= top - n => answer.more
    <3>1. top <= newest'
      BY <1>1, <2>1
    <3>2. ASSUME NEW e \in oldest'..newest', e <= top - n PROVE answer.more
      <4>1. e \in Nat /\ ~(e > newest)
        BY <1>1, <2>1, <3>2
      <4>2. e \in oldest..newest
        BY <1>1, <4>1
      <4>3. QED
        BY <2>1, <3>2, <4>2
    <3>3. QED
      BY <3>1, <3>2
  <2>3. QED
    BY <2>1, <2>2 DEF PageIsRight
<1>4. PagesAreRight'
  BY <1>0, <1>1, <1>3 DEF PagesAreRight, PageIsRight
<1>5. ASSUME ~torn PROVE Unbroken(shown, hasMore)'
  <2>1. shown # <<>> => shown[1] \in 1..newest /\ shown[Len(shown)] \in 1..newest
    <3>1. shown # <<>> => 1 \in DOMAIN shown /\ Len(shown) \in DOMAIN shown
      BY <1>0, EmptySeq, LenProperties DEF LogTypes
    <3>2. QED
      BY <1>0, <3>1 DEF LogTypes
  <2>2. Unbroken(shown, hasMore)
    BY <1>5 DEF LogInv
  <2>3. QED
    BY <1>1, <2>1, <2>2 DEF Unbroken
<1>6. QED
  BY <1>1, <1>2, <1>4, <1>5 DEF LogInv

\* One request moves on to a right one.
LEMMA AskMoves ==
    ASSUME LogInv, NEW q \in Logs!Requests, NEW r \in AskRecords,
           r.pc # "none" => r.below <= newest /\ (q = "more" => r.below >= 1),
           r.pc = "answered" => PageIsRight(r),
           asked' = [asked EXCEPT ![q] = r], oldest' = oldest, newest' = newest
    PROVE  /\ asked' \in [Logs!Requests -> AskRecords]
           /\ \A p \in Logs!Requests : asked'[p].pc # "none" =>
                 asked'[p].below <= newest' /\ (p = "more" => asked'[p].below >= 1)
           /\ PagesAreRight'
<1>1. asked \in [Logs!Requests -> AskRecords] /\ PagesAreRight
  BY DEF LogInv, LogTypes
<1>2. asked' \in [Logs!Requests -> AskRecords] /\ asked'[q] = r
      /\ \A p \in Logs!Requests : p # q => asked'[p] = asked[p]
  BY <1>1
<1>3. \A p \in Logs!Requests : asked'[p].pc # "none" =>
          asked'[p].below <= newest' /\ (p = "more" => asked'[p].below >= 1)
  BY <1>2 DEF LogInv, LogTypes
<1>4. \A a : PageIsRight(a) => PageIsRight(a)'
  BY DEF PageIsRight
<1>5. \A p \in Logs!Requests : asked'[p].pc = "answered" => PageIsRight(asked'[p])
  BY <1>1, <1>2 DEF PagesAreRight
<1>6. QED
  BY <1>2, <1>3, <1>4, <1>5 DEF PagesAreRight, PageIsRight

\* The list is as before, and the requests are right.
LEMMA ListStays ==
    ASSUME LogInv, shown' = shown, hasMore' = hasMore, torn' = torn,
           oldest' = oldest, newest' = newest,
           asked' \in [Logs!Requests -> AskRecords],
           \A p \in Logs!Requests : asked'[p].pc # "none" =>
                 asked'[p].below <= newest' /\ (p = "more" => asked'[p].below >= 1),
           PagesAreRight'
    PROVE  LogInv'
<1>1. LogTypes'
  BY DEF LogInv, LogTypes
<1>2. Unbroken(shown, hasMore) => Unbroken(shown, hasMore)'
  BY DEF Unbroken
<1>3. QED
  BY <1>1, <1>2 DEF LogInv

LEMMA AnswerKeeps ==
    ASSUME Logs!LogAssumption, LogInv, NEW q \in Logs!Requests, Logs!Answer(q)
    PROVE  LogInv'
<1> DEFINE top  == IF asked[q].below = 0 THEN newest ELSE asked[q].below - 1
           held == IF top < oldest THEN 0 ELSE top - oldest + 1
           n    == IF held > LogPageSize THEN LogPageSize ELSE held
           r    == [pc |-> "answered", below |-> asked[q].below, more |-> held > n,
                    page |-> [i \in 1..n |-> top - i + 1]]
<1>1. /\ asked' = [asked EXCEPT ![q] = r] /\ asked[q].pc = "sent"
      /\ oldest' = oldest /\ newest' = newest /\ shown' = shown /\ hasMore' = hasMore /\ torn' = torn
  BY DEF Logs!Answer
<1>2. /\ asked[q].below \in Nat /\ asked[q].below <= newest /\ (q = "more" => asked[q].below >= 1)
      /\ newest \in Nat /\ oldest \in Nat /\ 1 <= oldest /\ LogPageSize \in Nat \ {0}
  BY <1>1 DEF LogInv, LogTypes, AskRecords, Logs!NoRequest, Logs!LogAssumption
<1>3. /\ top \in Nat /\ n \in Nat /\ held \in Nat /\ n <= LogPageSize /\ n <= top /\ top <= newest
      /\ n < LogPageSize => ~(held > n)
      /\ asked[q].below # 0 => top = asked[q].below - 1
  BY <1>2
<1>4. \A e \in oldest..newest : e <= top - n => held > n
  BY <1>2, <1>3
<1>5. (held > n) \in BOOLEAN
  OBVIOUS
<1> HIDE DEF top, held, n
<1>6. /\ r.pc = "answered" /\ r.below = asked[q].below /\ (r.more <=> held > n)
      /\ r.page = [i \in 1..n |-> top - i + 1]
  OBVIOUS
<1>7. [i \in 1..n |-> top - i + 1] \in Seq(Nat)
  <2>1. \A i \in 1..n : top - i + 1 \in Nat
    BY <1>3
  <2>2. [i \in 1..n |-> top - i + 1] \in [1..n -> Nat]
    BY <2>1
  <2>3. QED
    BY <1>3, <2>2, SeqDef
<1>8. r \in AskRecords
  BY <1>2, <1>5, <1>7 DEF AskRecords
<1> HIDE DEF r
<1>9. PageIsRight(r)
  BY <1>3, <1>4, <1>6 DEF PageIsRight
<1>10. QED
  BY <1>1, <1>2, <1>6, <1>8, <1>9, AskMoves, ListStays

LEMMA AskKeeps ==
    ASSUME LogInv, NEW q \in Logs!Requests, Logs!Ask(q) \/ Logs!FailRequest(q)
    PROVE  LogInv'
<1>1. oldest' = oldest /\ newest' = newest /\ shown' = shown /\ hasMore' = hasMore /\ torn' = torn
  BY DEF Logs!Ask, Logs!FailRequest
<1>2. CASE Logs!FailRequest(q)
  <2>1. asked' = [asked EXCEPT ![q] = Logs!NoRequest]
    BY <1>2 DEF Logs!FailRequest, Logs!Done
  <2>2. Logs!NoRequest \in AskRecords /\ Logs!NoRequest.pc = "none"
    BY DEF AskRecords, Logs!NoRequest
  <2>3. QED
    BY <1>1, <2>1, <2>2, AskMoves, ListStays
<1>3. CASE Logs!Ask(q)
  <2> DEFINE below == IF q = "more" THEN Logs!Last(shown) ELSE 0
             r == [pc |-> "sent", below |-> below]
  <2>1. asked' = [asked EXCEPT ![q] = r] /\ (q = "more" => shown # <<>>)
    BY <1>3 DEF Logs!Ask
  <2>2. shown # <<>> => Logs!Last(shown) \in 1..newest
    <3>1. shown \in Seq(Nat) /\ \A i \in DOMAIN shown : shown[i] \in 1..newest
      BY DEF LogInv, LogTypes
    <3>2. shown # <<>> => Len(shown) \in DOMAIN shown
      BY <3>1, EmptySeq, LenProperties
    <3>3. QED
      BY <3>1, <3>2 DEF Logs!Last
  <2>3. below \in Nat /\ below <= newest /\ (q = "more" => below >= 1)
    BY <2>1, <2>2 DEF LogInv, LogTypes
  <2> HIDE DEF below
  <2>4. r \in AskRecords /\ r.pc = "sent" /\ r.below = below
    BY <2>3 DEF AskRecords
  <2> HIDE DEF r
  <2>5. QED
    BY <1>1, <2>1, <2>3, <2>4, AskMoves, ListStays
<1>4. QED
  BY <1>2, <1>3

\* A page that has arrived: a list that falls by one from top.
LEMMA ArrivedPage ==
    ASSUME LogInv, NEW q \in Logs!Requests, asked[q].pc = "answered"
    PROVE  /\ asked[q].page \in Seq(Nat) /\ asked[q].more \in BOOLEAN
           /\ \E top \in Nat, n \in Nat :
                 /\ n <= LogPageSize /\ n <= top /\ top <= newest
                 /\ Len(asked[q].page) = n /\ DOMAIN asked[q].page = 1..n
                 /\ \A i \in 1..n : asked[q].page[i] = top - i + 1
                 /\ asked[q].below # 0 => top = asked[q].below - 1
                 /\ n < LogPageSize => ~asked[q].more
                 /\ \A e \in oldest..newest : e <= top - n => asked[q].more
<1>1. asked[q].page \in Seq(Nat) /\ asked[q].more \in BOOLEAN
  BY DEF LogInv, LogTypes, AskRecords, Logs!NoRequest
<1>2. PICK top \in Nat, n \in Nat :
        /\ n <= LogPageSize /\ n <= top /\ top <= newest
        /\ asked[q].page = [i \in 1..n |-> top - i + 1]
        /\ asked[q].below # 0 => top = asked[q].below - 1
        /\ n < LogPageSize => ~asked[q].more
        /\ \A e \in oldest..newest : e <= top - n => asked[q].more
  BY DEF LogInv, PagesAreRight, PageIsRight
<1>3. DOMAIN asked[q].page = 1..n /\ \A i \in 1..n : asked[q].page[i] = top - i + 1
  BY <1>2
<1>4. Len(asked[q].page) = n
  BY <1>1, <1>3, LenProperties
<1>5. QED
  BY <1>1, <1>2, <1>3, <1>4

\* A right list takes the place of the one before, and its request is done.
LEMMA ListChanges ==
    ASSUME LogInv, NEW q \in Logs!Requests, Logs!Done(q),
           oldest' = oldest, newest' = newest,
           shown' \in Seq(Nat), \A i \in DOMAIN shown' : shown'[i] \in 1..newest,
           hasMore' \in BOOLEAN, torn' \in BOOLEAN,
           torn' \/ Unbroken(shown', hasMore')
    PROVE  LogInv'
<1>1. asked' = [asked EXCEPT ![q] = Logs!NoRequest]
  BY DEF Logs!Done
<1>2. Logs!NoRequest \in AskRecords /\ Logs!NoRequest.pc = "none"
  BY DEF AskRecords, Logs!NoRequest
<1>3. /\ asked' \in [Logs!Requests -> AskRecords]
      /\ \A p \in Logs!Requests : asked'[p].pc # "none" =>
            asked'[p].below <= newest' /\ (p = "more" => asked'[p].below >= 1)
      /\ PagesAreRight'
  BY <1>1, <1>2, AskMoves
<1>4. LogTypes'
  BY <1>3 DEF LogInv, LogTypes
<1>5. Unbroken(shown', hasMore') => Unbroken(shown, hasMore)'
  BY DEF Unbroken
<1>6. QED
  BY <1>3, <1>4, <1>5 DEF LogInv

\* A page by itself is a right list.
LEMMA PageIsUnbroken ==
    ASSUME LogInv, NEW q \in Logs!Requests, asked[q].pc = "answered",
           NEW more \in BOOLEAN, asked[q].more => more
    PROVE  /\ \A i \in DOMAIN asked[q].page : asked[q].page[i] \in 1..newest
           /\ Unbroken(asked[q].page, more)
<1>1. PICK page \in Seq(Nat) : page = asked[q].page
  BY ArrivedPage
<1>2. PICK top \in Nat, n \in Nat :
                 /\ n <= LogPageSize /\ n <= top /\ top <= newest
                 /\ Len(page) = n /\ DOMAIN page = 1..n
                 /\ \A i \in 1..n : page[i] = top - i + 1
                 /\ \A e \in oldest..newest : e <= top - n => asked[q].more
  BY <1>1, ArrivedPage
<1>0. newest \in Nat /\ oldest \in Nat
  BY DEF LogInv, LogTypes
<1>3. \A i \in 1..n : page[i] \in 1..newest
  BY <1>0, <1>2
<1>4. \A i, k \in 1..n : i < k => page[k] < page[i]
  BY <1>2
<1>5. ASSUME page # <<>>, NEW e \in oldest..newest
      PROVE  /\ page[n] < e /\ e < page[1] => \E i \in 1..n : page[i] = e
             /\ e < page[n] => more
  <2>1. n \in 1..n /\ 1 \in 1..n
    BY <1>1, <1>2, <1>5, EmptySeq
  <2>2. page[n] = top - n + 1 /\ page[1] = top
    BY <1>2, <2>1
  <2>3. ASSUME page[n] < e, e < page[1] PROVE \E i \in 1..n : page[i] = e
    <3>1. top - e + 1 \in 1..n
      BY <1>0, <1>2, <2>2, <2>3
    <3>2. page[top - e + 1] = e
      BY <1>0, <1>2, <3>1
    <3>3. QED
      BY <3>1, <3>2
  <2>4. ASSUME e < page[n] PROVE more
    <3>1. e <= top - n
      BY <1>0, <1>2, <2>2, <2>4
    <3>2. QED
      BY <1>2, <3>1
  <2>5. QED
    BY <2>3, <2>4
<1>6. QED
  BY <1>1, <1>2, <1>3, <1>4, <1>5 DEF Unbroken

LEMMA ShowFirstKeeps ==
    ASSUME LogInv, Logs!ShowFirst
    PROVE  LogInv'
<1>1. "first" \in Logs!Requests
  BY DEF Logs!Requests
<1>2. /\ asked["first"].pc = "answered" /\ Logs!Done("first")
      /\ shown' = asked["first"].page /\ hasMore' = asked["first"].more /\ torn' = FALSE
      /\ oldest' = oldest /\ newest' = newest
  BY DEF Logs!ShowFirst
<1>3. asked["first"].page \in Seq(Nat) /\ asked["first"].more \in BOOLEAN
  BY <1>1, <1>2, ArrivedPage
<1>4. /\ \A i \in DOMAIN asked["first"].page : asked["first"].page[i] \in 1..newest
      /\ Unbroken(asked["first"].page, asked["first"].more)
  BY <1>1, <1>2, <1>3, PageIsUnbroken
<1>5. torn' \in BOOLEAN
  BY <1>2
<1>6. QED
  BY <1>1, <1>2, <1>3, <1>4, <1>5, ListChanges

\* A fresh page over what is older in an unbroken list, if it reaches the list
\* or the log has nothing below it, is an unbroken list.
LEMMA FreshIsUnbroken ==
    ASSUME Logs!LogAssumption, LogInv, NEW q \in Logs!Requests, asked[q].pc = "answered",
           asked[q].page # <<>>, ~Logs!Apart(asked[q].page), ~torn,
           NEW older, older = Among(shown, 1..(Logs!Last(asked[q].page) - 1))
    PROVE  Unbroken(asked[q].page \o older, hasMore)
<1>0. /\ newest \in Nat /\ oldest \in Nat /\ 1 <= oldest
      /\ shown \in Seq(Nat) /\ \A i \in DOMAIN shown : shown[i] \in 1..newest
      /\ Unbroken(shown, hasMore) /\ LogPageSize \in Nat
  BY DEF LogInv, LogTypes, Logs!LogAssumption
<1>1. PICK page \in Seq(Nat) : page = asked[q].page
  BY ArrivedPage
<1>2. PICK top \in Nat, n \in Nat :
                 /\ n <= LogPageSize /\ n <= top /\ top <= newest
                 /\ Len(page) = n /\ DOMAIN page = 1..n
                 /\ \A i \in 1..n : page[i] = top - i + 1
                 /\ n < LogPageSize => ~asked[q].more
                 /\ \A e \in oldest..newest : e <= top - n => asked[q].more
  BY <1>1, ArrivedPage
<1>3. n >= 1
  BY <1>1, <1>2, EmptySeq
<1>4. PICK x \in Nat : x = top - n + 1 /\ x >= 1 /\ x = Logs!Last(page) /\ page[n] = x /\ page[1] = top
  <2>1. Logs!Last(page) = page[n]
    BY <1>2 DEF Logs!Last
  <2>2. n \in 1..n /\ 1 \in 1..n
    BY <1>3
  <2>3. page[n] = top - n + 1 /\ page[1] = top
    BY <1>2, <2>2
  <2>4. top - n + 1 \in Nat /\ top - n + 1 >= 1
    BY <1>2
  <2>5. QED
    BY <2>1, <2>3, <2>4
<1>5. PICK len \in Nat : len = Len(shown) /\ DOMAIN shown = 1..len
  BY <1>0, LenProperties
<1>6. PICK m \in 0..len :
              /\ older = [k \in 1..(len - m) |-> shown[m + k]]
              /\ \A i \in 1..m : shown[i] >= x
              /\ \A i \in (m + 1)..len : shown[i] < x
  <2>1. \A i \in DOMAIN shown : shown[i] >= 1
    BY <1>0
  <2>2. \A i, k \in DOMAIN shown : i < k => shown[k] < shown[i]
    BY <1>0 DEF Unbroken
  <2>3. older = Among(shown, 1..(x - 1))
    BY <1>1, <1>4
  <2>4. QED
    BY <1>0, <1>5, <2>1, <2>2, <2>3, OlderIsTheEnd
<1>7. PICK l \in Nat : l = len - m
  BY <1>6
<1>8. /\ older \in Seq(Nat) /\ Len(older) = l /\ \A k \in 1..l : older[k] = shown[m + k] /\ m + k \in 1..len
  <2>1. \A k \in 1..l : m + k \in 1..len /\ shown[m + k] \in Nat
    BY <1>0, <1>5, <1>7
  <2>2. older \in [1..l -> Nat]
    BY <1>6, <1>7, <2>1
  <2>3. older \in Seq(Nat)
    BY <2>2, SeqDef
  <2>4. DOMAIN older = 1..l
    BY <2>2
  <2>5. Len(older) = l
    BY <2>3, <2>4, LenProperties
  <2>6. QED
    BY <1>6, <1>7, <2>1, <2>3, <2>5
<1>9. PICK list : list = page \o older
  OBVIOUS
<1>10. /\ list \in Seq(Nat) /\ Len(list) = n + l /\ DOMAIN list = 1..(n + l)
       /\ \A i \in 1..n : list[i] = top - i + 1
       /\ \A k \in 1..l : list[n + k] = shown[m + k]
  <2>1. /\ page \o older \in Seq(Nat) /\ Len(page \o older) = n + l
        /\ DOMAIN (page \o older) = 1..(n + l)
        /\ \A i \in 1..n : (page \o older)[i] = page[i]
        /\ \A k \in 1..l : (page \o older)[n + k] = older[k]
    BY <1>2, <1>8, PutUnder
  <2>2. QED
    BY <1>2, <1>8, <1>9, <2>1
<1>11. ASSUME NEW i \in 1..(n + l), NEW k \in 1..(n + l), i < k
       PROVE  list[k] < list[i]
  <2>1. CASE k <= n
    BY <1>10, <1>11, <2>1
  <2>2. CASE i <= n /\ k > n
    <3>1. PICK k0 \in 1..l : k = n + k0
      <4>1. k - n \in 1..l /\ k = n + (k - n)
        BY <2>2
      <4>2. QED
        BY <4>1
    <3>2. m + k0 \in (m + 1)..len /\ m + k0 \in 1..len
      BY <1>6, <1>7
    <3>3. list[k] = shown[m + k0] /\ shown[m + k0] < x /\ shown[m + k0] \in Nat
      BY <1>0, <1>5, <1>6, <1>10, <3>1, <3>2
    <3>4. i \in 1..n
      BY <2>2
    <3>5. list[i] = top - i + 1 /\ top - i + 1 >= x
      BY <1>2, <1>4, <1>10, <3>4
    <3>6. QED
      BY <1>2, <1>4, <3>3, <3>5
  <2>3. CASE i > n
    <3>1. PICK k0 \in 1..l, i0 \in 1..l : k = n + k0 /\ i = n + i0 /\ i0 < k0
      <4>1. k - n \in 1..l /\ k = n + (k - n) /\ i - n \in 1..l /\ i = n + (i - n) /\ i - n < k - n
        BY <1>11, <2>3
      <4>2. QED
        BY <4>1
    <3>2. m + k0 \in 1..len /\ m + i0 \in 1..len /\ m + i0 < m + k0
      BY <1>6, <1>7, <3>1
    <3>3. shown[m + k0] < shown[m + i0]
      BY <1>0, <1>5, <3>2 DEF Unbroken
    <3>4. QED
      BY <1>10, <3>1, <3>3
  <2>4. QED
    BY <2>1, <2>2, <2>3
<1>12. list[1] = top /\ (l = 0 => list[Len(list)] = x) /\ (l > 0 => list[Len(list)] = shown[len])
  <2>1. list[1] = top
    BY <1>2, <1>3, <1>10
  <2>2. l = 0 => list[n + l] = x
    BY <1>2, <1>3, <1>4, <1>10
  <2>3. l > 0 => l \in 1..l /\ m + l = len
    BY <1>6, <1>7
  <2>4. QED
    BY <1>10, <2>1, <2>2, <2>3
\* Below the page the log has nothing, or nothing that the list does not reach.
<1>13. ASSUME NEW e \in oldest..newest, e < x
       PROVE  len > 0 /\ e <= shown[1]
  <2>1. ~(n < LogPageSize)
    BY <1>2, <1>4, <1>13
  <2>2. ~(x > Logs!NewestShown + 1)
    <3>1. Len(page) >= LogPageSize
      BY <1>0, <1>2, <2>1
    <3>2. ~Logs!Apart(page)
      BY <1>1
    <3>3. ~(Logs!Last(page) > Logs!NewestShown + 1)
      BY <3>1, <3>2 DEF Logs!Apart
    <3>4. QED
      BY <1>4, <3>3
  <2>3. len > 0
    <3> SUFFICES ASSUME len = 0 PROVE FALSE
      BY <1>5
    <3>1. Logs!NewestShown = 0
      BY <1>0, <1>5, EmptySeq DEF Logs!NewestShown
    <3>2. QED
      BY <1>0, <1>13, <2>2, <3>1
  <2>4. Logs!NewestShown = shown[1] /\ shown[1] \in Nat
    <3>1. shown # <<>> /\ 1 \in 1..len
      BY <1>5, <2>3, EmptySeq
    <3>2. Head(shown) = shown[1]
      BY <1>0, <3>1
    <3>3. QED
      BY <1>0, <1>5, <3>1, <3>2 DEF Logs!NewestShown
  <2>5. QED
    BY <1>0, <1>13, <2>2, <2>3, <2>4
<1>14. ASSUME NEW e \in oldest..newest, list[Len(list)] < e, e < list[1]
       PROVE  \E i \in DOMAIN list : list[i] = e
  <2>1. CASE e >= x
    <3>1. top - e + 1 \in 1..n
      BY <1>0, <1>2, <1>4, <1>12, <1>14, <2>1
    <3>2. list[top - e + 1] = e
      BY <1>0, <1>2, <1>10, <3>1
    <3>3. top - e + 1 \in DOMAIN list
      BY <1>2, <1>7, <1>10, <3>1
    <3>4. QED
      BY <3>2, <3>3
  <2>2. CASE e < x
    <3>1. l > 0 /\ shown[len] < e
      BY <1>0, <1>4, <1>7, <1>12, <1>14, <2>2
    <3>2. len > 0 /\ e <= shown[1]
      BY <1>13, <2>2
    <3>3. \E i \in 1..len : shown[i] = e
      <4>1. 1 \in 1..len /\ shown # <<>> /\ shown[1] \in Nat
        BY <1>0, <1>5, <3>2, EmptySeq
      <4>2. e = shown[1] \/ e < shown[1]
        BY <1>0, <3>2, <4>1
      <4>3. e < shown[1] => \E i \in 1..len : shown[i] = e
        BY <1>0, <1>5, <3>1, <4>1 DEF Unbroken
      <4>4. QED
        BY <4>1, <4>2, <4>3
    <3>4. PICK i \in 1..len : shown[i] = e
      BY <3>3
    <3>5. PICK k \in 1..l : i = m + k
      <4>1. i - m \in 1..l /\ i = m + (i - m)
        BY <1>0, <1>4, <1>6, <1>7, <2>2, <3>4
      <4>2. QED
        BY <4>1
    <3>6. list[n + k] = e /\ n + k \in 1..(n + l)
      BY <1>2, <1>7, <1>10, <3>4, <3>5
    <3>7. QED
      BY <1>10, <3>6
  <2>3. QED
    BY <1>0, <1>4, <2>1, <2>2
<1>15. ASSUME NEW e \in oldest..newest, e < list[Len(list)]
       PROVE  hasMore
  <2>1. len > 0 /\ e < shown[len]
    <3>1. CASE l > 0
      BY <1>6, <1>7, <1>12, <1>15, <3>1
    <3>2. CASE l = 0
      <4>1. e < x
        BY <1>12, <1>15, <3>2
      <4>2. len > 0 /\ m = len
        BY <1>6, <1>7, <1>13, <3>2, <4>1
      <4>3. shown[len] >= x /\ shown[len] \in Nat
        BY <1>0, <1>5, <1>6, <4>2
      <4>4. QED
        BY <1>0, <1>4, <4>1, <4>2, <4>3
    <3>3. QED
      BY <1>7, <3>1, <3>2
  <2>2. shown # <<>>
    BY <1>5, <2>1, EmptySeq
  <2>3. QED
    BY <1>0, <1>5, <2>1, <2>2 DEF Unbroken
<1>16. QED
  BY <1>1, <1>9, <1>10, <1>11, <1>14, <1>15 DEF Unbroken

LEMMA ShowFreshKeeps ==
    ASSUME Logs!LogAssumption, LogInv, NEW q \in Logs!Requests, Logs!ShowFresh(q)
    PROVE  LogInv'
<1>0. /\ shown \in Seq(Nat) /\ \A i \in DOMAIN shown : shown[i] \in 1..newest
      /\ hasMore \in BOOLEAN /\ torn \in BOOLEAN /\ newest \in Nat
  BY DEF LogInv, LogTypes
<1>1. /\ asked[q].pc = "answered" /\ Logs!Done(q) /\ oldest' = oldest /\ newest' = newest
  BY DEF Logs!ShowFresh
<1>2. asked[q].page \in Seq(Nat)
  BY <1>1, ArrivedPage
<1>3. CASE asked[q].page = <<>>
  <2>1. shown' = shown /\ hasMore' = hasMore /\ torn' = torn
    BY <1>3 DEF Logs!ShowFresh
  <2>2. torn \/ Unbroken(shown, hasMore)
    BY DEF LogInv
  <2>3. QED
    BY <1>0, <1>1, <2>1, <2>2, ListChanges
<1>4. CASE asked[q].page # <<>> /\ Logs!Apart(asked[q].page)
  <2>1. shown' = asked[q].page /\ hasMore' = TRUE /\ torn' = FALSE
    BY <1>4 DEF Logs!ShowFresh
  <2>2. /\ \A i \in DOMAIN asked[q].page : asked[q].page[i] \in 1..newest
        /\ Unbroken(asked[q].page, TRUE)
    BY <1>1, PageIsUnbroken
  <2>3. TRUE \in BOOLEAN /\ FALSE \in BOOLEAN
    OBVIOUS
  <2>4. QED
    BY <1>1, <1>2, <2>1, <2>2, <2>3, ListChanges
<1>5. CASE asked[q].page # <<>> /\ ~Logs!Apart(asked[q].page)
  <2>1. PICK older : older = Among(shown, 1..(Logs!Last(asked[q].page) - 1))
    OBVIOUS
  <2>2. shown' = asked[q].page \o older /\ hasMore' = hasMore /\ torn' = torn
    BY <1>5, <2>1, LogAmong DEF Logs!ShowFresh
  <2>3. older \in Seq(Nat) /\ \A k \in DOMAIN older : older[k] \in 1..newest
    BY <1>0, <2>1, AmongStays
  <2>4. \A i \in DOMAIN asked[q].page : asked[q].page[i] \in 1..newest
    BY <1>1, PageIsUnbroken
  <2>5. /\ asked[q].page \o older \in Seq(Nat)
        /\ \A i \in DOMAIN (asked[q].page \o older) : (asked[q].page \o older)[i] \in 1..newest
    BY <1>2, <2>3, <2>4, PutUnderStays
  <2>6. torn \/ Unbroken(asked[q].page \o older, hasMore)
    BY <1>1, <1>5, <2>1, FreshIsUnbroken
  <2>7. QED
    BY <1>0, <1>1, <2>2, <2>5, <2>6, ListChanges
<1>6. QED
  BY <1>3, <1>4, <1>5

\* An older page under the list it continues is an unbroken list.
LEMMA MoreIsUnbroken ==
    ASSUME LogInv, asked["more"].pc = "answered", ~torn, shown # <<>>,
           Logs!Last(shown) = asked["more"].below,
           NEW older, older = Among(asked["more"].page, 1..(asked["more"].below - 1))
    PROVE  Unbroken(shown \o older, asked["more"].more)
<1>0. /\ newest \in Nat /\ oldest \in Nat /\ 1 <= oldest /\ "more" \in Logs!Requests
      /\ shown \in Seq(Nat) /\ \A i \in DOMAIN shown : shown[i] \in 1..newest
      /\ Unbroken(shown, hasMore)
  BY DEF LogInv, LogTypes, Logs!Requests
<1>1. PICK page \in Seq(Nat) : page = asked["more"].page
  BY <1>0, ArrivedPage
<1>2. PICK b \in Nat : b = asked["more"].below /\ b >= 1
  <2>1. asked["more"] \in AskRecords /\ asked["more"].pc # "none"
    BY <1>0 DEF LogInv, LogTypes
  <2>2. asked["more"].below \in Nat
    BY <2>1 DEF AskRecords, Logs!NoRequest
  <2>3. asked["more"].below >= 1
    BY <1>0, <2>1 DEF LogInv, LogTypes
  <2>4. QED
    BY <2>2, <2>3
<1>3. PICK n \in Nat :
                 /\ n <= b - 1
                 /\ Len(page) = n /\ DOMAIN page = 1..n
                 /\ \A i \in 1..n : page[i] = b - i
                 /\ \A e \in oldest..newest : e < b - n => asked["more"].more
  <2>1. PICK top \in Nat, n \in Nat :
                 /\ n <= top
                 /\ Len(asked["more"].page) = n /\ DOMAIN asked["more"].page = 1..n
                 /\ \A i \in 1..n : asked["more"].page[i] = top - i + 1
                 /\ asked["more"].below # 0 => top = asked["more"].below - 1
                 /\ \A e \in oldest..newest : e <= top - n => asked["more"].more
    BY <1>0, ArrivedPage
  <2>2. top = b - 1
    BY <1>2, <2>1
  <2>3. \A i \in 1..n : page[i] = b - i
    <3>1. \A i \in 1..n : top - i + 1 = b - i
      BY <1>2, <2>2
    <3>2. QED
      BY <1>1, <2>1, <3>1
  <2>4. \A e \in oldest..newest : e < b - n => asked["more"].more
    BY <1>0, <1>2, <2>1, <2>2
  <2>5. QED
    BY <1>1, <1>2, <2>1, <2>2, <2>3, <2>4
<1>4. older = page
  <2>1. \A i \in DOMAIN page : page[i] >= 1 /\ page[i] < b
    BY <1>2, <1>3
  <2>2. \A i, k \in DOMAIN page : i < k => page[k] < page[i]
    BY <1>2, <1>3
  <2>3. PICK m \in 0..n :
              /\ older = [k \in 1..(n - m) |-> page[m + k]]
              /\ \A i \in 1..m : page[i] >= b
    BY <1>1, <1>2, <1>3, <2>1, <2>2, OlderIsTheEnd
  <2>4. m = 0
    <3> SUFFICES ASSUME m > 0 PROVE FALSE
      BY <2>3
    <3>1. 1 \in 1..m /\ 1 \in 1..n
      OBVIOUS
    <3>2. page[1] >= b /\ page[1] < b /\ page[1] = b - 1
      BY <1>3, <2>1, <2>3, <3>1
    <3>3. QED
      BY <1>2, <3>2
  <2>5. older = [k \in 1..n |-> page[k]]
    <3>1. n - 0 = n /\ \A k \in 1..n : 0 + k = k
      OBVIOUS
    <3>2. QED
      BY <2>3, <2>4, <3>1
  <2>6. QED
    BY <1>1, <1>3, <2>5
<1>5. PICK len \in Nat : len = Len(shown) /\ DOMAIN shown = 1..len
  BY <1>0, LenProperties
<1>6. len >= 1 /\ 1 \in 1..len /\ len \in 1..len /\ shown[len] = b /\ shown[1] \in Nat
  <2>1. len >= 1
    BY <1>0, <1>5, EmptySeq
  <2>2. shown[len] = b
    BY <1>2, <1>5 DEF Logs!Last
  <2>3. QED
    BY <1>0, <1>5, <2>1, <2>2
<1>7. PICK list : list = shown \o older
  OBVIOUS
<1>8. /\ Len(list) = len + n /\ DOMAIN list = 1..(len + n)
      /\ \A i \in 1..len : list[i] = shown[i]
      /\ \A k \in 1..n : list[len + k] = b - k
  <2>1. /\ Len(shown \o page) = len + n /\ DOMAIN (shown \o page) = 1..(len + n)
        /\ \A i \in 1..len : (shown \o page)[i] = shown[i]
        /\ \A k \in 1..n : (shown \o page)[len + k] = page[k]
    BY <1>0, <1>3, <1>5, PutUnder
  <2>2. QED
    BY <1>3, <1>4, <1>7, <2>1
<1>9. \A i \in 1..len : shown[i] \in Nat /\ shown[i] >= b
  <2> TAKE i \in 1..len
  <2>1. i < len => shown[len] < shown[i]
    BY <1>0, <1>5, <1>6 DEF Unbroken
  <2>2. shown[i] \in Nat
    BY <1>0, <1>5
  <2>3. QED
    BY <1>2, <1>6, <2>1, <2>2
<1>10. ASSUME NEW i \in 1..(len + n), NEW k \in 1..(len + n), i < k
       PROVE  list[k] < list[i]
  <2>1. CASE k <= len
    <3>1. i \in 1..len /\ k \in 1..len
      BY <1>10, <2>1
    <3>2. shown[k] < shown[i] /\ list[k] = shown[k] /\ list[i] = shown[i]
      BY <1>0, <1>5, <1>8, <1>10, <3>1 DEF Unbroken
    <3>3. QED
      BY <3>2
  <2>2. CASE i <= len /\ k > len
    <3>1. PICK k0 \in 1..n : k = len + k0
      <4>1. k - len \in 1..n /\ k = len + (k - len)
        BY <2>2
      <4>2. QED
        BY <4>1
    <3>2. list[k] = b - k0 /\ list[i] = shown[i] /\ shown[i] \in Nat /\ shown[i] >= b
      BY <1>8, <1>9, <2>2, <3>1
    <3>3. QED
      BY <1>2, <3>2
  <2>3. CASE i > len
    <3>1. PICK k0 \in 1..n, i0 \in 1..n : k = len + k0 /\ i = len + i0 /\ i0 < k0
      <4>1. k - len \in 1..n /\ k = len + (k - len) /\ i - len \in 1..n /\ i = len + (i - len) /\ i - len < k - len
        BY <1>10, <2>3
      <4>2. QED
        BY <4>1
    <3>2. list[k] = b - k0 /\ list[i] = b - i0
      BY <1>8, <3>1
    <3>3. QED
      BY <1>2, <3>1, <3>2
  <2>4. QED
    BY <2>1, <2>2, <2>3
<1>11. list[1] = shown[1] /\ list[Len(list)] = b - n
  <2>1. list[1] = shown[1]
    BY <1>6, <1>8
  <2>2. n = 0 => list[len + n] = b - n
    BY <1>2, <1>6, <1>8
  <2>3. n > 0 => list[len + n] = b - n
    BY <1>8
  <2>4. QED
    BY <1>8, <2>1, <2>2, <2>3
<1>12. ASSUME NEW e \in oldest..newest, list[Len(list)] < e, e < list[1]
       PROVE  \E i \in DOMAIN list : list[i] = e
  <2>1. CASE e < b
    <3>1. b - e \in 1..n /\ b - (b - e) = e
      <4>1. e \in Nat /\ b - n < e
        BY <1>0, <1>11, <1>12
      <4>2. QED
        BY <1>2, <1>3, <2>1, <4>1
    <3>2. PICK k \in 1..n : k = b - e
      BY <3>1
    <3>3. list[len + k] = b - k /\ len + k \in 1..(len + n)
      BY <1>8
    <3>4. QED
      BY <1>8, <3>1, <3>2, <3>3
  <2>2. CASE e >= b
    <3>1. PICK i \in 1..len : shown[i] = e
      <4>1. e = b => shown[len] = e
        BY <1>6
      <4>2. e > b => \E i \in 1..len : shown[i] = e
        BY <1>0, <1>2, <1>5, <1>6, <1>11, <1>12 DEF Unbroken
      <4>3. QED
        BY <1>0, <1>2, <1>6, <2>2, <4>1, <4>2
    <3>2. i \in 1..(len + n)
      OBVIOUS
    <3>3. QED
      BY <1>8, <3>1, <3>2
  <2>3. QED
    BY <1>0, <1>2, <2>1, <2>2
<1>13. ASSUME NEW e \in oldest..newest, e < list[Len(list)]
       PROVE  asked["more"].more
  BY <1>3, <1>11, <1>13
<1>14. QED
  BY <1>7, <1>8, <1>10, <1>12, <1>13 DEF Unbroken

LEMMA ShowMoreKeeps ==
    ASSUME LogInv, Logs!ShowMore
    PROVE  LogInv'
<1>0. /\ shown \in Seq(Nat) /\ \A i \in DOMAIN shown : shown[i] \in 1..newest
      /\ newest \in Nat /\ "more" \in Logs!Requests /\ torn \in BOOLEAN
  BY DEF LogInv, LogTypes, Logs!Requests
<1>1. PICK older : older = Among(asked["more"].page, 1..(asked["more"].below - 1))
  OBVIOUS
<1>2. /\ asked["more"].pc = "answered" /\ Logs!Done("more") /\ oldest' = oldest /\ newest' = newest
      /\ shown' = shown \o older /\ hasMore' = asked["more"].more
      /\ torn' = (torn \/ shown = <<>> \/ Logs!Last(shown) # asked["more"].below)
  BY <1>1, LogAmong DEF Logs!ShowMore
<1>3. asked["more"].page \in Seq(Nat) /\ asked["more"].more \in BOOLEAN
  BY <1>0, <1>2, ArrivedPage
<1>4. \A i \in DOMAIN asked["more"].page : asked["more"].page[i] \in 1..newest
  BY <1>0, <1>2, PageIsUnbroken
<1>5. older \in Seq(Nat) /\ \A k \in DOMAIN older : older[k] \in 1..newest
  BY <1>1, <1>3, <1>4, AmongStays
<1>6. /\ shown \o older \in Seq(Nat)
      /\ \A i \in DOMAIN (shown \o older) : (shown \o older)[i] \in 1..newest
  BY <1>0, <1>5, PutUnderStays
<1>7. torn' \in BOOLEAN
  BY <1>2
<1>8. torn' \/ Unbroken(shown \o older, asked["more"].more)
  BY <1>1, <1>2, MoreIsUnbroken
<1>9. QED
  BY <1>0, <1>2, <1>3, <1>6, <1>7, <1>8, ListChanges

LEMMA LogStep ==
    ASSUME Logs!LogAssumption, LogInv, [Logs!Next]_Logs!logVars
    PROVE  LogInv'
<1>1. CASE UNCHANGED Logs!logVars
  <2>1. /\ oldest' = oldest /\ newest' = newest /\ shown' = shown /\ hasMore' = hasMore
        /\ asked' = asked /\ torn' = torn
    BY <1>1 DEF Logs!logVars
  <2>2. \A a : PageIsRight(a) => PageIsRight(a)'
    BY <2>1 DEF PageIsRight
  <2>3. PagesAreRight'
    <3>1. \A q \in Logs!Requests : asked'[q].pc = "answered" => PageIsRight(asked'[q])
      BY <2>1 DEF LogInv, PagesAreRight
    <3>2. QED
      BY <2>2, <3>1 DEF PagesAreRight, PageIsRight
  <2>4. QED
    BY <2>1, <2>3, ListStays DEF LogInv, LogTypes
<1>2. CASE Logs!Record \/ Logs!Prune
  BY <1>2, ServerKeeps
<1>3. ASSUME NEW q \in Logs!Requests,
             Logs!Answer(q) \/ Logs!Ask(q) \/ Logs!ShowFresh(q) \/ Logs!FailRequest(q)
      PROVE  LogInv'
  BY <1>3, AnswerKeeps, AskKeeps, ShowFreshKeeps
<1>4. CASE Logs!ShowFirst \/ Logs!ShowMore
  BY <1>4, ShowFirstKeeps, ShowMoreKeeps
<1>5. QED
  BY <1>1, <1>2, <1>3, <1>4 DEF Logs!Next

LEMMA LogGives ==
    ASSUME LogInv
    PROVE  Logs!LogTypeOK /\ Logs!ListIsWhole
<1>1. Logs!ListIsWhole
  BY WholeIsUnbroken DEF LogInv, LogTypes, Logs!ListIsWhole
<1>2. \A q \in Logs!Requests : asked[q].pc \in {"none", "sent", "answered"}
  BY DEF LogInv, LogTypes, AskRecords, Logs!NoRequest
<1>3. oldest \in 1..(newest + 1) /\ newest \in 0..MaxEvents
  BY DEF LogInv, LogTypes
<1>4. QED
  BY <1>1, <1>2, <1>3 DEF LogInv, LogTypes, Logs!LogTypeOK

-----------------------------------------------------------------------------
(* The cells of the benchmark: BenchmarkEdits *)

WriteRecords ==
    {Edits!NoWrite}
    \cup [pc : {"sent", "stored"}, value : Edits!Values, number : Nat, alone : BOOLEAN]
    \cup [pc : {"answered"}, matrix : Edits!Matrices, number : Nat, alone : BOOLEAN]

LoadRecords ==
    {Edits!NoWrite} \cup [pc : {"sent"}, alone : BOOLEAN]
    \cup [pc : {"answered"}, matrix : Edits!Matrices, alone : BOOLEAN]

EditsTypes ==
    /\ overrides \in Edits!Matrices /\ screen \in Edits!Matrices
    /\ writing \in [Users -> WriteRecords] /\ load \in LoadRecords
    /\ lastWrite \in Nat /\ readWrite \in Nat /\ shownWrite \in Nat /\ lastWrite <= MaxEdits

\* The numbers tell the writes apart; a write is shown after it was read.
NumbersAreRight ==
    /\ shownWrite <= readWrite /\ readWrite <= lastWrite
    /\ \A c \in Edits!Saving :
          /\ writing[c].number <= lastWrite /\ writing[c].number # shownWrite
          /\ writing[c].pc # "answered" => writing[c].number # readWrite
          /\ writing[c].pc = "answered" => writing[c].number <= readWrite
    /\ \A c, d \in Edits!Saving : writing[c].number = writing[d].number => c = d

\* A request that is alone is the only one, and its answer is what is stored;
\* unless something raced, loads and writes take turns.
RequestsAreAlone ==
    /\ \A c \in Edits!Saving : writing[c].alone =>
          /\ Edits!Saving = {c} /\ load.pc = "idle" /\ writing[c].number = lastWrite
          /\ writing[c].pc = "answered" => writing[c].matrix = overrides
    /\ load.pc # "idle" /\ load.alone => Edits!Saving = {}
    /\ ~raced => Edits!Saving = {} \/ load.pc = "idle"
    /\ load.pc = "answered" /\ (load.alone \/ ~raced) => load.matrix = overrides

AgreesButStored(matrix) == \A d \in Users : writing[d].pc # "stored" => matrix[d] = overrides[d]

LatestUnderWay == {c \in Users : writing[c].pc = "answered" /\ writing[c].number = readWrite}

\* The answer that was read last is right but for what was stored since; it is
\* on its way, or it is on screen and what is older will not be shown.
LatestIsRight ==
    /\ \A c \in LatestUnderWay : AgreesButStored(writing[c].matrix)
    /\ LatestUnderWay = {} =>
          /\ AgreesButStored(screen)
          /\ \A c \in Users : writing[c].pc = "answered" => writing[c].number <= shownWrite

EditsInv ==
    /\ EditsTypes /\ NumbersAreRight /\ RequestsAreAlone
    /\ ~raced => LatestIsRight

LEMMA EditsInit ==
    ASSUME Edits!EditsAssumption, Edits!Init
    PROVE  EditsInv
<1>1. EditsTypes
  <2>1. overrides \in Edits!Matrices /\ screen \in Edits!Matrices
    BY DEF Edits!Init, Edits!Matrices, Edits!Values
  <2>2. writing \in [Users -> WriteRecords] /\ load \in LoadRecords
    BY DEF Edits!Init, WriteRecords, LoadRecords
  <2>3. QED
    BY <2>1, <2>2 DEF Edits!EditsAssumption, Edits!Init, EditsTypes
<1>2. Edits!Saving = {} /\ load.pc = "idle" /\ \A c \in Users : writing[c].pc = "idle"
  BY DEF Edits!Init, Edits!Saving, Edits!NoWrite
<1>3. QED
  BY <1>1, <1>2 DEF Edits!Init, EditsInv, NumbersAreRight, RequestsAreAlone, LatestIsRight,
      LatestUnderWay, AgreesButStored

\* What a write under way is, and that Joined changes only whether it is alone.
LEMMA WritesUnderWay ==
    ASSUME EditsTypes
    PROVE  /\ \A c \in Users :
                /\ c \in Edits!Saving <=> writing[c].pc # "idle"
                /\ writing[c].pc = "idle" => writing[c] = Edits!NoWrite
                /\ writing[c].pc \in {"idle", "sent", "stored", "answered"}
                /\ writing[c].pc # "idle" => writing[c].number \in Nat /\ writing[c].alone \in BOOLEAN
                /\ writing[c].pc \in {"sent", "stored"} => writing[c].value \in Edits!Values
                /\ writing[c].pc = "answered" => writing[c].matrix \in Edits!Matrices
                /\ Edits!Joined[c] \in WriteRecords /\ Edits!Joined[c].pc = writing[c].pc
                /\ writing[c].pc # "idle" => Edits!Joined[c].number = writing[c].number
                                             /\ Edits!Joined[c].alone = FALSE
                /\ writing[c].pc = "answered" => Edits!Joined[c].matrix = writing[c].matrix
           /\ Edits!Saving \subseteq Users /\ DOMAIN Edits!Joined = Users
<1>1. ASSUME NEW c \in Users
      PROVE  /\ c \in Edits!Saving <=> writing[c].pc # "idle"
             /\ writing[c].pc = "idle" => writing[c] = Edits!NoWrite
             /\ writing[c].pc \in {"idle", "sent", "stored", "answered"}
             /\ writing[c].pc # "idle" => writing[c].number \in Nat /\ writing[c].alone \in BOOLEAN
             /\ writing[c].pc \in {"sent", "stored"} => writing[c].value \in Edits!Values
             /\ writing[c].pc = "answered" => writing[c].matrix \in Edits!Matrices
  <2>1. writing[c] \in WriteRecords
    BY DEF EditsTypes
  <2>2. QED
    BY <2>1 DEF WriteRecords, Edits!NoWrite, Edits!Saving
<1>2. ASSUME NEW c \in Users
      PROVE  /\ Edits!Joined[c] \in WriteRecords /\ Edits!Joined[c].pc = writing[c].pc
             /\ writing[c].pc # "idle" => Edits!Joined[c].number = writing[c].number
                                             /\ Edits!Joined[c].alone = FALSE
             /\ writing[c].pc = "answered" => Edits!Joined[c].matrix = writing[c].matrix
  <2>1. writing[c] \in WriteRecords
    BY DEF EditsTypes
  <2>2. CASE writing[c].pc = "idle"
    BY <1>1, <2>1, <2>2 DEF Edits!Joined
  <2>3. CASE writing[c].pc \in {"sent", "stored"}
    <3>1. writing[c] \in [pc : {"sent", "stored"}, value : Edits!Values, number : Nat, alone : BOOLEAN]
      BY <2>1, <2>3 DEF WriteRecords, Edits!NoWrite
    <3>2. Edits!Joined[c] = [writing[c] EXCEPT !.alone = FALSE]
      BY <1>1, <2>3 DEF Edits!Joined
    <3>3. QED
      BY <2>3, <3>1, <3>2 DEF WriteRecords
  <2>4. CASE writing[c].pc = "answered"
    <3>1. writing[c] \in [pc : {"answered"}, matrix : Edits!Matrices, number : Nat, alone : BOOLEAN]
      BY <2>1, <2>4 DEF WriteRecords, Edits!NoWrite
    <3>2. Edits!Joined[c] = [writing[c] EXCEPT !.alone = FALSE]
      BY <1>1, <2>4 DEF Edits!Joined
    <3>3. QED
      BY <2>4, <3>1, <3>2 DEF WriteRecords
  <2>5. QED
    BY <1>1, <2>2, <2>3, <2>4
<1>3. QED
  BY <1>1, <1>2 DEF Edits!Saving, Edits!Joined

LEMMA LoadUnderWay ==
    ASSUME EditsTypes
    PROVE  /\ load.pc \in {"idle", "sent", "answered"}
           /\ load.pc = "idle" => load = Edits!NoWrite
           /\ load.pc # "idle" => load.alone \in BOOLEAN
           /\ load.pc = "sent" => load \in [pc : {"sent"}, alone : BOOLEAN]
           /\ load.pc = "answered" => load \in [pc : {"answered"}, matrix : Edits!Matrices, alone : BOOLEAN]
BY DEF EditsTypes, LoadRecords, Edits!NoWrite

LEMMA OverrideKeeps ==
    ASSUME Edits!EditsAssumption, EditsInv, NEW c \in Users, NEW v \in Edits!Values,
           Edits!Override(c, v)
    PROVE  EditsInv'
<1>0. EditsTypes /\ NumbersAreRight /\ RequestsAreAlone
  BY DEF EditsInv
<1> DEFINE new == [pc |-> "sent", value |-> v, number |-> lastWrite + 1,
                   alone |-> Edits!Saving = {} /\ load.pc = "idle"]
<1>1. /\ c \notin Edits!Saving /\ lastWrite < MaxEdits /\ lastWrite' = lastWrite + 1
      /\ writing' = [Edits!Joined EXCEPT ![c] = new]
      /\ load' = IF load.pc = "idle" THEN load ELSE [load EXCEPT !.alone = FALSE]
      /\ raced' = (raced \/ load.pc # "idle")
      /\ UNCHANGED <<overrides, shownWrite, screen, readWrite>>
  BY DEF Edits!Override
<1>2. /\ writing'[c] = new
      /\ \A d \in Users \ {c} : writing'[d] = Edits!Joined[d]
      /\ DOMAIN writing' = Users
  BY <1>0, <1>1, WritesUnderWay
<1>3. new \in WriteRecords /\ new.pc = "sent" /\ new.number = lastWrite + 1
      /\ (new.alone <=> Edits!Saving = {} /\ load.pc = "idle")
  <2>2. (Edits!Saving = {} /\ load.pc = "idle") \in BOOLEAN
    OBVIOUS
  <2>3. new \in [pc : {"sent", "stored"}, value : Edits!Values, number : Nat, alone : BOOLEAN]
    BY <1>0, <2>2 DEF EditsTypes
  <2>4. QED
    BY <2>3 DEF WriteRecords
<1> HIDE DEF new
<1>4. \A d \in Users \ {c} :
          /\ writing'[d].pc = writing[d].pc
          /\ writing[d].pc # "idle" => writing'[d].number = writing[d].number /\ ~writing'[d].alone
          /\ writing[d].pc = "answered" => writing'[d].matrix = writing[d].matrix
  BY <1>0, <1>2, WritesUnderWay
<1>5. /\ load' \in LoadRecords /\ load'.pc = load.pc
      /\ load.pc # "idle" => ~load'.alone
      /\ load.pc = "answered" => load'.matrix = load.matrix
  <2>1. CASE load.pc = "idle"
    BY <1>0, <1>1, <2>1, LoadUnderWay DEF EditsTypes
  <2>2. CASE load.pc = "sent"
    BY <1>0, <1>1, <2>2, LoadUnderWay DEF LoadRecords
  <2>3. CASE load.pc = "answered"
    BY <1>0, <1>1, <2>3, LoadUnderWay DEF LoadRecords
  <2>4. QED
    BY <1>0, <2>1, <2>2, <2>3, LoadUnderWay
<1>6. EditsTypes'
  <2>1. \A d \in Users : writing'[d] \in WriteRecords
    BY <1>0, <1>2, <1>3, WritesUnderWay
  <2>2. writing' = [d \in Users |-> writing'[d]]
    BY <1>1, <1>2, <1>0, WritesUnderWay
  <2>3. writing' \in [Users -> WriteRecords]
    BY <2>1, <2>2
  <2>4. QED
    BY <1>0, <1>1, <1>5, <2>3 DEF EditsTypes, Edits!EditsAssumption
<1>7. Edits!Saving' = Edits!Saving \cup {c} /\ writing[c].pc = "idle"
  BY <1>0, <1>1, <1>2, <1>3, <1>4, WritesUnderWay DEF Edits!Saving
<1>8. \A d \in Edits!Saving : d # c /\ d \in Users
  BY <1>0, <1>1, WritesUnderWay
<1>9. NumbersAreRight'
  <2>0. lastWrite \in Nat /\ readWrite \in Nat /\ shownWrite \in Nat /\ shownWrite <= readWrite /\ readWrite <= lastWrite
        /\ \A d \in Edits!Saving : writing[d].number \in Nat /\ writing[d].number <= lastWrite
    BY <1>0, WritesUnderWay DEF NumbersAreRight, EditsTypes
  <2>1. writing'[c].number = lastWrite + 1 /\ writing'[c].pc = "sent"
    BY <1>2, <1>3
  <2>2. \A d \in Edits!Saving : writing'[d].number = writing[d].number /\ writing'[d].pc = writing[d].pc
    BY <1>0, <1>4, <1>8, WritesUnderWay
  <2>3. \A d \in Edits!Saving' :
          /\ writing'[d].number <= lastWrite' /\ writing'[d].number # shownWrite'
          /\ writing'[d].pc # "answered" => writing'[d].number # readWrite'
          /\ writing'[d].pc = "answered" => writing'[d].number <= readWrite'
    BY <1>0, <1>1, <1>7, <2>0, <2>1, <2>2 DEF NumbersAreRight
  <2>4. \A d, e \in Edits!Saving' : writing'[d].number = writing'[e].number => d = e
    BY <1>0, <1>7, <2>0, <2>1, <2>2 DEF NumbersAreRight
  <2>5. QED
    BY <1>1, <2>0, <2>3, <2>4 DEF NumbersAreRight
<1>10. RequestsAreAlone'
  <2>1. \A d \in Edits!Saving' : writing'[d].alone => d = c /\ Edits!Saving = {} /\ load.pc = "idle"
    BY <1>0, <1>2, <1>3, <1>4, <1>7, <1>8, WritesUnderWay
  <2>2. writing'[c].pc = "sent" /\ writing'[c].number = lastWrite'
    BY <1>1, <1>2, <1>3
  <2>3. ~raced' => load'.pc = "idle"
    BY <1>1, <1>5
  <2>4. load.pc # "idle" => ~load'.alone
    BY <1>5
  <2>5. ASSUME NEW d \in Edits!Saving', writing'[d].alone
        PROVE  Edits!Saving' = {d} /\ load'.pc = "idle" /\ writing'[d].number = lastWrite'
               /\ writing'[d].pc # "answered"
    BY <1>5, <1>7, <2>1, <2>2, <2>5
  <2>6. ~(load'.pc # "idle" /\ (load'.alone \/ ~raced'))
    BY <1>5, <2>3, <2>4
  <2>7. QED
    BY <2>5, <2>6 DEF RequestsAreAlone
<1>11. ASSUME ~raced' PROVE LatestIsRight'
  <2>1. LatestIsRight
    BY <1>1, <1>11 DEF EditsInv
  <2>2. \A d \in Users : /\ (writing'[d].pc = "stored") <=> (writing[d].pc = "stored")
                         /\ (writing'[d].pc = "answered") <=> (writing[d].pc = "answered")
                         /\ writing[d].pc = "answered" => /\ writing'[d].number = writing[d].number
                                                          /\ writing'[d].matrix = writing[d].matrix
    BY <1>2, <1>3, <1>4, <1>7
  <2>3. LatestUnderWay' = LatestUnderWay
    BY <1>1, <2>2 DEF LatestUnderWay
  <2>4. \A matrix : AgreesButStored(matrix) => AgreesButStored(matrix)'
    BY <1>1, <2>2 DEF AgreesButStored
  <2>5. QED
    BY <1>1, <2>1, <2>2, <2>3, <2>4 DEF LatestIsRight, LatestUnderWay, AgreesButStored
<1>12. QED
  BY <1>6, <1>9, <1>10, <1>11 DEF EditsInv

\* A write moves on and the others stay.
LEMMA WriteMoves ==
    ASSUME EditsTypes, NEW c \in Users, NEW r \in WriteRecords,
           writing' = [writing EXCEPT ![c] = r]
    PROVE  /\ writing' \in [Users -> WriteRecords]
           /\ writing'[c] = r /\ \A d \in Users \ {c} : writing'[d] = writing[d]
           /\ \A d \in Edits!Saving' : d \in Users /\ (d # c => d \in Edits!Saving)
           /\ \A d \in Edits!Saving : d \in Users /\ (d # c => d \in Edits!Saving')
           /\ c \in Edits!Saving' <=> r.pc # "idle"
<1>1. writing \in [Users -> WriteRecords]
  BY DEF EditsTypes
<1>2. writing' \in [Users -> WriteRecords] /\ writing'[c] = r /\ \A d \in Users \ {c} : writing'[d] = writing[d]
  BY <1>1
<1>3. QED
  BY <1>2 DEF Edits!Saving

LEMMA StoreKeeps ==
    ASSUME EditsInv, NEW c \in Users, Edits!Store(c)
    PROVE  EditsInv'
<1>0. EditsTypes /\ NumbersAreRight /\ RequestsAreAlone
  BY DEF EditsInv
<1>1. /\ writing[c].pc = "sent"
      /\ overrides' = [overrides EXCEPT ![c] = writing[c].value]
      /\ writing' = [writing EXCEPT ![c] = [writing[c] EXCEPT !.pc = "stored"]]
      /\ UNCHANGED <<load, lastWrite, shownWrite, screen, readWrite, raced>>
  BY DEF Edits!Store
<1>2. PICK r : /\ r = [writing[c] EXCEPT !.pc = "stored"] /\ r \in WriteRecords
               /\ r.pc = "stored" /\ r.number = writing[c].number /\ r.alone = writing[c].alone
  <2>1. writing[c] \in [pc : {"sent", "stored"}, value : Edits!Values, number : Nat, alone : BOOLEAN]
    BY <1>0, <1>1 DEF EditsTypes, WriteRecords, Edits!NoWrite
  <2>2. PICK w \in [pc : {"sent", "stored"}, value : Edits!Values, number : Nat, alone : BOOLEAN] :
            w = writing[c]
    BY <2>1
  <2> DEFINE r == [w EXCEPT !.pc = "stored"]
  <2>3. r \in [pc : {"sent", "stored"}, value : Edits!Values, number : Nat, alone : BOOLEAN]
    OBVIOUS
  <2>4. r.pc = "stored" /\ r.number = w.number /\ r.alone = w.alone
    OBVIOUS
  <2> HIDE DEF r
  <2>5. r \in WriteRecords
    BY <2>3 DEF WriteRecords
  <2>6. r = [writing[c] EXCEPT !.pc = "stored"]
    BY <2>2 DEF r
  <2>7. QED
    BY <2>2, <2>4, <2>5, <2>6
<1>3. /\ writing' \in [Users -> WriteRecords]
      /\ writing'[c] = r /\ \A d \in Users \ {c} : writing'[d] = writing[d]
      /\ Edits!Saving' = Edits!Saving /\ c \in Edits!Saving /\ Edits!Saving \subseteq Users
  <2>1. c \in Edits!Saving
    BY <1>0, <1>1, WritesUnderWay
  <2>2. \A d : d \in Edits!Saving' <=> d \in Edits!Saving
    BY <1>0, <1>1, <1>2, <2>1, WriteMoves
  <2>3. QED
    BY <1>0, <1>1, <1>2, <2>1, <2>2, WriteMoves
<1>4. EditsTypes'
  <2>1. writing[c].value \in Edits!Values
    BY <1>0, <1>1, WritesUnderWay
  <2>2. overrides' \in Edits!Matrices
    BY <1>0, <1>1, <2>1 DEF EditsTypes, Edits!Matrices
  <2>3. QED
    BY <1>0, <1>1, <1>3, <2>2 DEF EditsTypes
<1>5. \A d \in Users : /\ writing'[d].number = writing[d].number /\ writing'[d].alone = writing[d].alone
                       /\ writing'[d].pc = "answered" <=> writing[d].pc = "answered"
                       /\ writing[d].pc = "answered" => writing'[d].matrix = writing[d].matrix
                       /\ writing'[d].pc = "stored" <=> d = c \/ writing[d].pc = "stored"
  BY <1>1, <1>2, <1>3
<1>6. NumbersAreRight'
  BY <1>0, <1>1, <1>3, <1>5 DEF NumbersAreRight
<1>7. RequestsAreAlone'
  <2>1. ASSUME NEW d \in Edits!Saving, writing[d].alone
        PROVE  d = c /\ writing'[d].pc = "stored"
    <3>1. Edits!Saving = {d}
      BY <1>0, <2>1 DEF RequestsAreAlone
    <3>2. QED
      BY <1>2, <1>3, <3>1
  <2>2. ~(load.pc # "idle" /\ (load.alone \/ ~raced))
    BY <1>0, <1>3 DEF RequestsAreAlone
  <2>3. QED
    BY <1>0, <1>1, <1>3, <1>5, <2>1, <2>2 DEF RequestsAreAlone
<1>8. ASSUME ~raced' PROVE LatestIsRight'
  <2>1. LatestIsRight
    BY <1>1, <1>8 DEF EditsInv
  <2>2. LatestUnderWay' = LatestUnderWay
    BY <1>1, <1>5 DEF LatestUnderWay
  <2>3. \A d \in Users : d # c => overrides'[d] = overrides[d]
    BY <1>0, <1>1 DEF EditsTypes, Edits!Matrices
  <2>4. \A matrix : AgreesButStored(matrix) => AgreesButStored(matrix)'
    BY <1>5, <2>3 DEF AgreesButStored
  <2>5. QED
    BY <1>1, <1>5, <2>1, <2>2, <2>4 DEF LatestIsRight, LatestUnderWay, AgreesButStored
<1>9. QED
  BY <1>4, <1>6, <1>7, <1>8 DEF EditsInv

LEMMA ReadKeeps ==
    ASSUME EditsInv, NEW c \in Users, Edits!Read(c)
    PROVE  EditsInv'
<1>0. EditsTypes /\ NumbersAreRight /\ RequestsAreAlone
  BY DEF EditsInv
<1> DEFINE r == [pc |-> "answered", matrix |-> overrides,
                 number |-> writing[c].number, alone |-> writing[c].alone]
<1>1. /\ writing[c].pc = "stored"
      /\ writing' = [writing EXCEPT ![c] = r]
      /\ readWrite' = IF writing[c].number > readWrite THEN writing[c].number ELSE readWrite
      /\ raced' = (raced \/ writing[c].number < readWrite)
      /\ UNCHANGED <<overrides, load, lastWrite, shownWrite, screen>>
  BY DEF Edits!Read
<1>2. r \in WriteRecords /\ r.pc = "answered" /\ r.number = writing[c].number
      /\ r.alone = writing[c].alone /\ r.matrix = overrides
  BY <1>0, <1>1, WritesUnderWay DEF WriteRecords, EditsTypes
<1> HIDE DEF r
<1>3. /\ writing' \in [Users -> WriteRecords]
      /\ writing'[c] = r /\ \A d \in Users \ {c} : writing'[d] = writing[d]
      /\ Edits!Saving' = Edits!Saving /\ c \in Edits!Saving /\ Edits!Saving \subseteq Users
  <2>1. c \in Edits!Saving
    BY <1>0, <1>1, WritesUnderWay
  <2>2. \A d : d \in Edits!Saving' <=> d \in Edits!Saving
    BY <1>0, <1>1, <1>2, <2>1, WriteMoves
  <2>3. QED
    BY <1>0, <1>1, <1>2, <2>1, <2>2, WriteMoves
<1>4. /\ readWrite \in Nat /\ lastWrite \in Nat /\ shownWrite \in Nat /\ readWrite' \in Nat
      /\ writing[c].number \in Nat /\ writing[c].number <= lastWrite /\ writing[c].number # readWrite
      /\ readWrite <= readWrite' /\ readWrite' <= lastWrite /\ writing[c].number <= readWrite'
      /\ shownWrite <= readWrite
      /\ readWrite' = writing[c].number \/ readWrite' = readWrite
  <2>1. readWrite \in Nat /\ lastWrite \in Nat /\ shownWrite \in Nat /\ writing[c].number \in Nat
    BY <1>0, <1>1, WritesUnderWay DEF EditsTypes
  <2>2. /\ writing[c].number <= lastWrite /\ writing[c].number # readWrite
        /\ shownWrite <= readWrite /\ readWrite <= lastWrite
    BY <1>0, <1>1, <1>3 DEF NumbersAreRight
  <2>3. readWrite' = IF writing[c].number > readWrite THEN writing[c].number ELSE readWrite
    BY <1>1
  <2>4. QED
    BY <2>1, <2>2, <2>3
<1>5. EditsTypes'
  BY <1>0, <1>1, <1>3, <1>4 DEF EditsTypes
<1>6. \A d \in Users : /\ writing'[d].number = writing[d].number /\ writing'[d].alone = writing[d].alone
                       /\ d # c => writing'[d] = writing[d]
  BY <1>2, <1>3
<1>7. NumbersAreRight'
  <2>1. \A d \in Edits!Saving : writing[d].number \in Nat
    BY <1>0, WritesUnderWay
  <2>2. ASSUME NEW d \in Edits!Saving
        PROVE  /\ writing'[d].number <= lastWrite' /\ writing'[d].number # shownWrite'
               /\ writing'[d].pc # "answered" => writing'[d].number # readWrite'
               /\ writing'[d].pc = "answered" => writing'[d].number <= readWrite'
    <3>1. CASE d = c
      BY <1>0, <1>1, <1>2, <1>3, <1>4, <3>1 DEF NumbersAreRight
    <3>2. CASE d # c
      BY <1>0, <1>1, <1>3, <1>4, <1>6, <2>1, <3>2 DEF NumbersAreRight
    <3>3. QED
      BY <3>1, <3>2
  <2>3. QED
    BY <1>0, <1>1, <1>3, <1>4, <1>6, <2>2 DEF NumbersAreRight
<1>8. RequestsAreAlone'
  BY <1>0, <1>1, <1>2, <1>3, <1>6 DEF RequestsAreAlone
<1>9. ASSUME ~raced' PROVE LatestIsRight'
  <2>0. ~(writing[c].number < readWrite)
    BY <1>1, <1>9
  <2>1. readWrite' = writing[c].number /\ readWrite < readWrite'
    BY <1>1, <1>4, <2>0
  <2>2. LatestUnderWay' = {c}
    <3>1. \A d \in Users : d # c /\ writing[d].pc = "answered" => writing[d].number <= readWrite /\ writing[d].number \in Nat
      BY <1>0, WritesUnderWay DEF NumbersAreRight
    <3>2. QED
      BY <1>2, <1>3, <1>4, <2>1, <3>1 DEF LatestUnderWay
  <2>3. AgreesButStored(writing[c].matrix)'
    BY <1>1, <1>2, <1>3 DEF AgreesButStored
  <2>4. QED
    BY <2>2, <2>3 DEF LatestIsRight
<1>10. QED
  BY <1>5, <1>7, <1>8, <1>9 DEF EditsInv

LEMMA ShowKeeps ==
    ASSUME EditsInv, NEW c \in Users, Edits!Show(c)
    PROVE  EditsInv'
<1>0. EditsTypes /\ NumbersAreRight /\ RequestsAreAlone
  BY DEF EditsInv
<1>1. /\ writing[c].pc = "answered"
      /\ writing[c].number > shownWrite => shownWrite' = writing[c].number /\ screen' = writing[c].matrix
      /\ ~(writing[c].number > shownWrite) => shownWrite' = shownWrite /\ screen' = screen
      /\ raced' = (raced /\ ~writing[c].alone)
      /\ writing' = [writing EXCEPT ![c] = Edits!NoWrite]
      /\ UNCHANGED <<overrides, load, lastWrite, readWrite>>
  BY DEF Edits!Show, Edits!Newer
<1>2. Edits!NoWrite \in WriteRecords /\ Edits!NoWrite.pc = "idle"
  BY DEF WriteRecords, Edits!NoWrite
<1>3. /\ writing' \in [Users -> WriteRecords] /\ writing'[c].pc = "idle"
      /\ \A d \in Users \ {c} : writing'[d] = writing[d]
      /\ Edits!Saving' = Edits!Saving \ {c} /\ c \in Edits!Saving /\ Edits!Saving \subseteq Users
  <2>1. c \in Edits!Saving
    BY <1>0, <1>1, WritesUnderWay
  <2>2. \A d : d \in Edits!Saving' <=> d \in Edits!Saving \ {c}
    BY <1>0, <1>1, <1>2, <2>1, WriteMoves
  <2>3. QED
    BY <1>0, <1>1, <1>2, <2>1, <2>2, WriteMoves
<1>4. /\ readWrite \in Nat /\ lastWrite \in Nat /\ shownWrite \in Nat
      /\ writing[c].number \in Nat /\ writing[c].number <= readWrite /\ writing[c].number # shownWrite
      /\ shownWrite <= readWrite /\ readWrite <= lastWrite
      /\ writing[c].matrix \in Edits!Matrices
      /\ \A d \in Edits!Saving : writing[d].number \in Nat
  BY <1>0, <1>1, <1>3, WritesUnderWay DEF EditsTypes, NumbersAreRight
<1>5. EditsTypes'
  <2>1. shownWrite' \in Nat /\ screen' \in Edits!Matrices
    BY <1>0, <1>1, <1>4 DEF EditsTypes
  <2>2. QED
    BY <1>0, <1>1, <1>3, <2>1 DEF EditsTypes
<1>6. NumbersAreRight'
  <2>1. shownWrite' <= readWrite
    BY <1>1, <1>4
  <2>2. \A d \in Edits!Saving' : d # c /\ d \in Edits!Saving /\ writing'[d] = writing[d]
    BY <1>3
  <2>3. \A d \in Edits!Saving' : writing[d].number # shownWrite'
    BY <1>0, <1>1, <1>3, <2>2 DEF NumbersAreRight
  <2>4. QED
    BY <1>0, <1>1, <2>1, <2>2, <2>3 DEF NumbersAreRight
<1>7. ASSUME ~raced' PROVE Edits!Saving' = {} \/ load.pc = "idle"
  BY <1>0, <1>1, <1>3, <1>7 DEF RequestsAreAlone
<1>8. RequestsAreAlone'
  <2>1. \A d \in Edits!Saving' : d # c /\ d \in Edits!Saving /\ writing'[d] = writing[d]
    BY <1>3
  <2>2. ASSUME load.pc # "idle", ~raced' PROVE ~raced
    BY <1>0, <1>1, <1>3, <2>2 DEF RequestsAreAlone
  <2>3. \A d \in Edits!Saving' : ~writing'[d].alone
    BY <1>0, <1>3, <2>1 DEF RequestsAreAlone
  <2>4. load.pc # "idle" => ~load.alone
    BY <1>0, <1>3 DEF RequestsAreAlone
  <2>5. load'.pc = "answered" /\ (load'.alone \/ ~raced') => load'.matrix = overrides'
    BY <1>0, <1>1, <2>2 DEF RequestsAreAlone
  <2>6. QED
    BY <1>1, <1>7, <2>3, <2>4, <2>5 DEF RequestsAreAlone
<1>9. ASSUME ~raced' PROVE LatestIsRight'
  <2>1. \A d \in Users : (writing'[d].pc = "stored" <=> writing[d].pc = "stored")
    BY <1>1, <1>3
  <2>2. \A matrix : AgreesButStored(matrix)' <=> AgreesButStored(matrix)
    BY <1>1, <2>1 DEF AgreesButStored
  <2>3. LatestUnderWay' = LatestUnderWay \ {c}
    BY <1>1, <1>3 DEF LatestUnderWay
  <2>4. CASE ~raced /\ c \in LatestUnderWay
    <3>1. LatestIsRight /\ writing[c].number = readWrite
      BY <2>4 DEF EditsInv, LatestUnderWay
    <3>2. shownWrite' = readWrite /\ AgreesButStored(screen)'
      BY <1>1, <1>4, <2>2, <2>4, <3>1 DEF LatestIsRight, AgreesButStored
    <3>3. LatestUnderWay' = {}
      BY <1>0, <1>3, <2>3, <3>1, WritesUnderWay DEF LatestUnderWay, NumbersAreRight
    <3>4. \A d \in Users : writing'[d].pc = "answered" => writing'[d].number <= shownWrite'
      BY <1>0, <1>3, <3>2, WritesUnderWay DEF NumbersAreRight
    <3>5. QED
      BY <3>2, <3>3, <3>4 DEF LatestIsRight
  <2>5. CASE ~raced /\ c \notin LatestUnderWay
    <3>1. LatestIsRight /\ LatestUnderWay' = LatestUnderWay
      BY <2>3, <2>5 DEF EditsInv
    <3>2. \A d \in LatestUnderWay : writing'[d] = writing[d]
      BY <1>3, <2>5 DEF LatestUnderWay
    <3>3. LatestUnderWay = {} => screen' = screen /\ shownWrite' = shownWrite
      BY <1>1, <1>4, <3>1 DEF LatestIsRight
    <3>4. \A d \in Users : writing'[d].pc = "answered" => writing'[d] = writing[d]
      BY <1>3
    <3>5. ASSUME NEW d \in LatestUnderWay' PROVE AgreesButStored(writing[d].matrix)'
      BY <2>2, <3>1, <3>2, <3>5 DEF LatestIsRight, AgreesButStored
    <3>6. ASSUME LatestUnderWay' = {}
          PROVE  /\ AgreesButStored(screen)'
                 /\ \A d \in Users : writing'[d].pc = "answered" => writing'[d].number <= shownWrite'
      BY <2>2, <3>1, <3>3, <3>4, <3>6 DEF LatestIsRight, AgreesButStored
    <3>7. QED
      BY <3>5, <3>6 DEF LatestIsRight
  <2>6. CASE raced
    <3>1. writing[c].alone
      BY <1>1, <1>9, <2>6
    <3>2. Edits!Saving = {c} /\ writing[c].number = lastWrite /\ writing[c].matrix = overrides
      BY <1>0, <1>1, <1>3, <3>1 DEF RequestsAreAlone
    <3>3. screen' = overrides
      BY <1>1, <1>4, <3>2
    <3>4. \A d \in Users : writing'[d].pc # "answered"
      BY <1>0, <1>3, <3>2, WritesUnderWay
    <3>5. QED
      BY <1>1, <3>3, <3>4 DEF LatestIsRight, LatestUnderWay, AgreesButStored
  <2>7. QED
    BY <2>4, <2>5, <2>6
<1>10. QED
  BY <1>5, <1>6, <1>8, <1>9 DEF EditsInv

LEMMA FailWriteKeeps ==
    ASSUME EditsInv, NEW c \in Users, Edits!FailWrite(c)
    PROVE  EditsInv'
<1>0. EditsTypes /\ NumbersAreRight /\ RequestsAreAlone
  BY DEF EditsInv
<1>1. /\ c \in Edits!Saving
      /\ raced' = (raced \/ writing[c].pc # "sent")
      /\ writing' = [writing EXCEPT ![c] = Edits!NoWrite]
      /\ UNCHANGED <<overrides, load, lastWrite, shownWrite, screen, readWrite>>
  BY DEF Edits!FailWrite
<1>2. Edits!NoWrite \in WriteRecords /\ Edits!NoWrite.pc = "idle"
  BY DEF WriteRecords, Edits!NoWrite
<1>3. /\ writing' \in [Users -> WriteRecords] /\ writing'[c].pc = "idle"
      /\ \A d \in Users \ {c} : writing'[d] = writing[d]
      /\ Edits!Saving' = Edits!Saving \ {c} /\ Edits!Saving \subseteq Users
  <2>1. \A d : d \in Edits!Saving' <=> d \in Edits!Saving \ {c}
    BY <1>0, <1>1, <1>2, WriteMoves
  <2>2. QED
    BY <1>0, <1>1, <1>2, <2>1, WriteMoves
<1>4. EditsTypes'
  BY <1>0, <1>1, <1>3 DEF EditsTypes
<1>5. \A d \in Edits!Saving' : d # c /\ d \in Edits!Saving /\ writing'[d] = writing[d]
  BY <1>3
<1>6. NumbersAreRight'
  BY <1>0, <1>1, <1>5 DEF NumbersAreRight
<1>7. RequestsAreAlone'
  <2>1. \A d \in Edits!Saving' : ~writing'[d].alone
    BY <1>0, <1>1, <1>5 DEF RequestsAreAlone
  <2>2. load.pc # "idle" => ~load.alone
    BY <1>0, <1>1 DEF RequestsAreAlone
  <2>3. ~raced' => ~raced
    BY <1>1
  <2>4. ~raced' => load'.pc = "idle"
    BY <1>0, <1>1, <2>3 DEF RequestsAreAlone
  <2>5. load'.pc # "idle" => ~load'.alone
    BY <1>1, <2>2
  <2>6. QED
    BY <2>1, <2>4, <2>5 DEF RequestsAreAlone
<1>8. ASSUME ~raced' PROVE LatestIsRight'
  <2>1. LatestIsRight /\ writing[c].pc = "sent"
    BY <1>1, <1>8 DEF EditsInv
  <2>2. \A d \in Users : /\ writing'[d].pc = "stored" <=> writing[d].pc = "stored"
                         /\ writing'[d].pc = "answered" <=> writing[d].pc = "answered"
                         /\ writing[d].pc = "answered" => writing'[d] = writing[d]
    BY <1>3, <2>1
  <2>3. LatestUnderWay' = LatestUnderWay
    BY <1>1, <2>2 DEF LatestUnderWay
  <2>4. \A matrix : AgreesButStored(matrix)' <=> AgreesButStored(matrix)
    BY <1>1, <2>2 DEF AgreesButStored
  <2>5. QED
    BY <1>1, <2>1, <2>2, <2>3, <2>4 DEF LatestIsRight, LatestUnderWay, AgreesButStored
<1>9. QED
  BY <1>4, <1>6, <1>7, <1>8 DEF EditsInv

LEMMA ReloadKeeps ==
    ASSUME EditsInv, Edits!Reload
    PROVE  EditsInv'
<1>0. EditsTypes /\ NumbersAreRight /\ RequestsAreAlone
  BY DEF EditsInv
<1>1. /\ load' = [pc |-> "sent", alone |-> Edits!Saving = {}]
      /\ writing' = Edits!Joined
      /\ raced' = (raced \/ Edits!Saving # {})
      /\ UNCHANGED <<overrides, lastWrite, shownWrite, screen, readWrite>>
  BY DEF Edits!Reload
<1>2. load' \in LoadRecords /\ load'.pc = "sent" /\ (load'.alone <=> Edits!Saving = {})
  <2>1. (Edits!Saving = {}) \in BOOLEAN
    OBVIOUS
  <2>2. load' \in [pc : {"sent"}, alone : BOOLEAN]
    BY <1>1, <2>1
  <2>3. QED
    BY <1>1, <2>2 DEF LoadRecords
<1>3. \A d \in Users :
          /\ writing'[d] \in WriteRecords /\ writing'[d].pc = writing[d].pc
          /\ writing[d].pc # "idle" => writing'[d].number = writing[d].number /\ ~writing'[d].alone
          /\ writing[d].pc = "answered" => writing'[d].matrix = writing[d].matrix
  BY <1>0, <1>1, WritesUnderWay
<1>4. writing' \in [Users -> WriteRecords]
  <2>1. writing' = [d \in Users |-> writing'[d]]
    BY <1>0, <1>1 DEF Edits!Joined
  <2>2. QED
    BY <1>3, <2>1
<1>5. EditsTypes'
  BY <1>0, <1>1, <1>2, <1>4 DEF EditsTypes
<1>6. Edits!Saving' = Edits!Saving
  BY <1>3 DEF Edits!Saving
<1>7. \A d \in Edits!Saving : /\ d \in Users /\ writing'[d].number = writing[d].number /\ ~writing'[d].alone
                              /\ writing'[d].pc = writing[d].pc
  BY <1>0, <1>3, WritesUnderWay
<1>8. NumbersAreRight'
  BY <1>0, <1>1, <1>6, <1>7 DEF NumbersAreRight
<1>9. RequestsAreAlone'
  BY <1>1, <1>2, <1>6, <1>7 DEF RequestsAreAlone
<1>10. ASSUME ~raced' PROVE LatestIsRight'
  <2>1. LatestIsRight
    BY <1>1, <1>10 DEF EditsInv
  <2>2. LatestUnderWay' = LatestUnderWay
    BY <1>1, <1>3 DEF LatestUnderWay
  <2>3. \A matrix : AgreesButStored(matrix)' <=> AgreesButStored(matrix)
    BY <1>1, <1>3 DEF AgreesButStored
  <2>4. QED
    BY <1>1, <1>3, <2>1, <2>2, <2>3 DEF LatestIsRight, LatestUnderWay, AgreesButStored
<1>11. QED
  BY <1>5, <1>8, <1>9, <1>10 DEF EditsInv

LEMMA LoadKeeps ==
    ASSUME EditsInv, Edits!ReadAll \/ Edits!ShowAll \/ Edits!FailLoad
    PROVE  EditsInv'
<1>0. EditsTypes /\ NumbersAreRight /\ RequestsAreAlone
  BY DEF EditsInv
<1>1. UNCHANGED <<overrides, writing, lastWrite, shownWrite, readWrite>> /\ load.pc # "idle"
  BY DEF Edits!ReadAll, Edits!ShowAll, Edits!FailLoad
<1>2. /\ Edits!Saving' = Edits!Saving /\ LatestUnderWay' = LatestUnderWay /\ NumbersAreRight'
      /\ \A matrix : AgreesButStored(matrix)' <=> AgreesButStored(matrix)
  BY <1>0, <1>1 DEF Edits!Saving, LatestUnderWay, AgreesButStored, NumbersAreRight
<1>3. \A d \in Edits!Saving : ~writing[d].alone
  BY <1>0, <1>1 DEF RequestsAreAlone
<1>4. Edits!NoWrite \in LoadRecords /\ Edits!NoWrite.pc = "idle"
  BY DEF LoadRecords, Edits!NoWrite
<1>5. CASE Edits!ReadAll
  <2>1. load' = [pc |-> "answered", matrix |-> overrides, alone |-> load.alone]
        /\ raced' = raced /\ screen' = screen /\ load.pc = "sent"
    BY <1>5 DEF Edits!ReadAll
  <2>2. load.alone \in BOOLEAN /\ overrides \in Edits!Matrices
    BY <1>0, <1>1, LoadUnderWay DEF EditsTypes
  <2>3. load' \in LoadRecords /\ load'.pc = "answered" /\ load'.alone = load.alone /\ load'.matrix = overrides
    BY <2>1, <2>2 DEF LoadRecords
  <2>4. EditsTypes'
    BY <1>0, <1>1, <2>1, <2>3 DEF EditsTypes
  <2>5. RequestsAreAlone'
    BY <1>0, <1>1, <1>2, <1>3, <2>1, <2>3 DEF RequestsAreAlone
  <2>6. LatestIsRight => LatestIsRight'
    BY <1>1, <1>2, <2>1 DEF LatestIsRight, AgreesButStored
  <2>7. QED
    BY <1>2, <2>1, <2>4, <2>5, <2>6 DEF EditsInv
<1>6. CASE Edits!FailLoad
  <2>1. load' = Edits!NoWrite /\ raced' = raced /\ screen' = screen
    BY <1>6 DEF Edits!FailLoad
  <2>2. EditsTypes'
    BY <1>0, <1>1, <1>4, <2>1 DEF EditsTypes
  <2>3. RequestsAreAlone'
    BY <1>2, <1>1, <1>3, <1>4, <2>1 DEF RequestsAreAlone
  <2>4. LatestIsRight => LatestIsRight'
    BY <1>1, <1>2, <2>1 DEF LatestIsRight, AgreesButStored
  <2>5. QED
    BY <1>2, <2>1, <2>2, <2>3, <2>4 DEF EditsInv
<1>7. CASE Edits!ShowAll
  <2>1. load' = Edits!NoWrite /\ raced' = (raced /\ ~load.alone) /\ screen' = load.matrix
        /\ load.pc = "answered"
    BY <1>7 DEF Edits!ShowAll
  <2>2. load.matrix \in Edits!Matrices
    BY <1>0, <2>1, LoadUnderWay
  <2>3. EditsTypes'
    BY <1>0, <1>1, <1>4, <2>1, <2>2 DEF EditsTypes
  <2>4. RequestsAreAlone'
    BY <1>2, <1>1, <1>3, <1>4, <2>1 DEF RequestsAreAlone
  <2>5. ASSUME ~raced' PROVE LatestIsRight'
    <3>1. load.alone \/ ~raced
      BY <2>1, <2>5
    <3>2. screen' = overrides /\ Edits!Saving = {}
      BY <1>0, <1>1, <2>1, <3>1 DEF RequestsAreAlone
    <3>3. \A d \in Users : writing[d].pc # "answered"
      BY <1>0, <3>2, WritesUnderWay
    <3>4. QED
      BY <1>1, <3>2, <3>3 DEF LatestIsRight, LatestUnderWay, AgreesButStored
  <2>6. QED
    BY <1>2, <2>3, <2>4, <2>5 DEF EditsInv
<1>8. QED
  BY <1>5, <1>6, <1>7

LEMMA EditsStep ==
    ASSUME Edits!EditsAssumption, EditsInv, [Edits!Next]_Edits!editVars
    PROVE  EditsInv'
<1>1. CASE UNCHANGED Edits!editVars
  <2>1. UNCHANGED <<overrides, writing, load, lastWrite, shownWrite, screen, readWrite, raced>>
    BY <1>1 DEF Edits!editVars
  <2>2. EditsTypes' /\ NumbersAreRight' /\ RequestsAreAlone'
    BY <2>1 DEF EditsInv, EditsTypes, NumbersAreRight, RequestsAreAlone, Edits!Saving
  <2>3. LatestIsRight => LatestIsRight'
    BY <2>1 DEF LatestIsRight, LatestUnderWay, AgreesButStored
  <2>4. QED
    BY <2>1, <2>2, <2>3 DEF EditsInv
<1>2. CASE \E c \in Users : \/ \E v \in Edits!Values : Edits!Override(c, v)
                            \/ Edits!Store(c) \/ Edits!Read(c) \/ Edits!Show(c) \/ Edits!FailWrite(c)
  BY <1>2, OverrideKeeps, StoreKeeps, ReadKeeps, ShowKeeps, FailWriteKeeps
<1>3. CASE Edits!Reload \/ Edits!ReadAll \/ Edits!ShowAll \/ Edits!FailLoad
  BY <1>3, ReloadKeeps, LoadKeeps
<1>4. QED
  BY <1>1, <1>2, <1>3 DEF Edits!Next

LEMMA EditsGive ==
    ASSUME EditsInv, Edits!EditsAssumption
    PROVE  Edits!EditsTypeOK /\ Edits!ScreenIsStored
<1>0. EditsTypes /\ NumbersAreRight
  BY DEF EditsInv
<1>1. Edits!EditsTypeOK
  <2>1. lastWrite \in 0..MaxEdits /\ shownWrite \in 0..lastWrite
    BY <1>0 DEF EditsTypes, NumbersAreRight, Edits!EditsAssumption
  <2>2. QED
    BY <1>0, <2>1, WritesUnderWay, LoadUnderWay DEF EditsTypes, Edits!EditsTypeOK
<1>2. ASSUME Edits!Quiet, ~raced
      PROVE  screen = overrides
  <2>1. \A d \in Users : writing[d].pc = "idle"
    BY <1>0, <1>2, WritesUnderWay DEF Edits!Quiet
  <2>2. \A d \in Users : screen[d] = overrides[d]
    BY <1>2, <2>1 DEF EditsInv, LatestIsRight, LatestUnderWay, AgreesButStored
  <2>3. screen \in Edits!Matrices /\ overrides \in Edits!Matrices
    BY <1>0 DEF EditsTypes
  <2>4. QED
    BY <2>2, <2>3 DEF Edits!Matrices
<1>3. QED
  BY <1>1, <1>2 DEF Edits!ScreenIsStored

-----------------------------------------------------------------------------
(* The button: ParseWatch *)

PollRecords ==
    [kind : Watching!Kinds, answer : {"none", "running", "idle"}, clicked : BOOLEAN]

WatchInv == polls \subseteq PollRecords /\ Watching!WatchTypeOK

LEMMA NewPoll ==
    ASSUME NEW kind \in Watching!Kinds, NEW clicked \in BOOLEAN
    PROVE  Watching!Poll(kind, clicked) \in PollRecords
BY DEF Watching!Poll, PollRecords

\* A poll stays a poll when a new chain begins.
LEMMA WatchKeepsPolls ==
    ASSUME NEW rest \in SUBSET PollRecords, NEW clicked \in BOOLEAN, Watching!Watch(rest, clicked)
    PROVE  polls' \subseteq PollRecords /\ timer' = FALSE
<1>1. "chain" \in Watching!Kinds
  BY DEF Watching!Kinds
<1>2. Watching!Poll("chain", clicked) \in PollRecords
  BY <1>1, NewPoll
<1>3. ASSUME NEW p \in rest
      PROVE  (IF p.kind = "chain" THEN [p EXCEPT !.kind = "old"] ELSE p) \in PollRecords
  BY DEF PollRecords, Watching!Kinds
<1>4. polls' = {IF p.kind = "chain" THEN [p EXCEPT !.kind = "old"] ELSE p : p \in rest}
               \cup {Watching!Poll("chain", clicked)} /\ timer' = FALSE
  BY DEF Watching!Watch
<1>5. QED
  BY <1>2, <1>3, <1>4

LEMMA WatchInit ==
    ASSUME Watching!WatchAssumption, Watching!Init
    PROVE  WatchInv
<1>1. polls = {Watching!Poll("first", FALSE)} /\ Watching!Poll("first", FALSE) \in PollRecords
  BY NewPoll DEF Watching!Init, Watching!Kinds
<1>2. \A p \in polls : p.kind \in Watching!Kinds /\ p.answer \in {"none", "running", "idle"}
  BY <1>1 DEF PollRecords
<1>3. /\ run \in {"none", "asked", "running"} /\ runs \in 0..MaxParses
      /\ button \in {"free", "posting", "waiting"} /\ status \in {"unknown", "running", "idle"}
      /\ failed \in 0..MaxPollFailures
  BY DEF Watching!Init, Watching!WatchAssumption
<1>4. timer \in BOOLEAN /\ late \in BOOLEAN
  BY DEF Watching!Init
<1>5. QED
  BY <1>1, <1>2, <1>3, <1>4 DEF WatchInv, Watching!WatchTypeOK

LEMMA WatchStep ==
    ASSUME Watching!WatchAssumption, WatchInv, [Watching!Next]_Watching!watchVars
    PROVE  WatchInv'
<1> DEFINE Rest ==
        /\ run \in {"none", "asked", "running"}
        /\ runs \in 0..MaxParses
        /\ button \in {"free", "posting", "waiting"}
        /\ status \in {"unknown", "running", "idle"}
        /\ failed \in 0..MaxPollFailures
        /\ timer \in BOOLEAN /\ late \in BOOLEAN
<1>0. /\ polls \subseteq PollRecords /\ Rest /\ MaxPollFailures \in Nat \ {0} /\ MaxParses \in Nat
      /\ \A p \in PollRecords : p.clicked \in BOOLEAN /\ p.answer \in {"none", "running", "idle"}
  BY DEF WatchInv, Watching!WatchTypeOK, Watching!WatchAssumption, PollRecords
<1> SUFFICES polls' \subseteq PollRecords /\ Rest'
  BY DEF WatchInv, Watching!WatchTypeOK, PollRecords
<1>1. CASE UNCHANGED Watching!watchVars
  BY <1>0, <1>1 DEF Watching!watchVars
<1>2. CASE Watching!RunBegins \/ Watching!RunEnds \/ Watching!Click \/ Watching!PostFails
  BY <1>0, <1>2 DEF Watching!RunBegins, Watching!RunEnds, Watching!Click, Watching!PostFails
<1>3. ASSUME NEW p \in polls, Watching!Answer(p)
      PROVE  polls' \subseteq PollRecords /\ Rest'
  <2>1. [p EXCEPT !.answer = IF run = "running" THEN "running" ELSE "idle"] \in PollRecords
    BY <1>0 DEF PollRecords
  <2>2. QED
    BY <1>0, <1>3, <2>1 DEF Watching!Answer
<1>4. CASE Watching!Posted
  <2>1. polls' \subseteq PollRecords /\ timer' = FALSE
    BY <1>0, <1>4, WatchKeepsPolls DEF Watching!Posted
  <2>2. /\ run' \in {"none", "asked", "running"} /\ button' = "waiting" /\ failed' = 0
        /\ UNCHANGED <<runs, status, late>>
    BY <1>0, <1>4 DEF Watching!Posted
  <2>3. failed' \in 0..MaxPollFailures
    BY <1>0, <2>2
  <2>4. QED
    BY <1>0, <2>1, <2>2, <2>3
<1>5. CASE Watching!TimerFires
  <2>1. polls' \subseteq PollRecords /\ timer' = FALSE
    BY <1>0, <1>5, WatchKeepsPolls DEF Watching!TimerFires
  <2>2. QED
    BY <1>0, <1>5, <2>1 DEF Watching!TimerFires
<1>6. ASSUME NEW p \in polls, Watching!ShowFirst(p)
      PROVE  polls' \subseteq PollRecords /\ Rest'
  <2>1. p.answer \in {"running", "idle"}
    BY <1>0, <1>6 DEF Watching!ShowFirst
  <2>2. polls' \subseteq PollRecords /\ timer' \in BOOLEAN
    <3>1. CASE p.answer = "running"
      <4>1. polls \ {p} \in SUBSET PollRecords /\ Watching!Watch(polls \ {p}, FALSE)
        BY <1>0, <1>6, <3>1 DEF Watching!ShowFirst
      <4>2. QED
        BY <4>1, WatchKeepsPolls
    <3>2. CASE p.answer # "running"
      BY <1>0, <1>6, <3>2 DEF Watching!ShowFirst
    <3>3. QED
      BY <3>1, <3>2
  <2>3. QED
    BY <1>0, <1>6, <2>1, <2>2 DEF Watching!ShowFirst
<1>7. ASSUME NEW p \in polls, Watching!LoseFirst(p)
      PROVE  polls' \subseteq PollRecords /\ Rest'
  BY <1>0, <1>7 DEF Watching!LoseFirst
<1>8. ASSUME NEW p \in polls, NEW running \in BOOLEAN, Watching!Continue(p, running)
      PROVE  /\ polls' \subseteq PollRecords /\ timer' \in BOOLEAN
             /\ button' \in {"free", "posting", "waiting"} /\ run' = run /\ runs' = runs
  BY <1>0, <1>8 DEF Watching!Continue
<1>9. ASSUME NEW p \in polls, Watching!ShowPoll(p)
      PROVE  polls' \subseteq PollRecords /\ Rest'
  <2>1. (p.answer = "running") \in BOOLEAN /\ p.answer \in {"running", "idle"}
    BY <1>0, <1>9 DEF Watching!ShowPoll
  <2>2. /\ polls' \subseteq PollRecords /\ timer' \in BOOLEAN
        /\ button' \in {"free", "posting", "waiting"} /\ run' = run /\ runs' = runs
    BY <1>8, <1>9, <2>1 DEF Watching!ShowPoll
  <2>3. late' \in BOOLEAN
    BY <1>9 DEF Watching!ShowPoll
  <2>4. QED
    BY <1>0, <1>9, <2>1, <2>2, <2>3 DEF Watching!ShowPoll
<1>10. ASSUME NEW p \in polls, Watching!LosePoll(p)
       PROVE  polls' \subseteq PollRecords /\ Rest'
  <2>1. (~Watching!GivesUp) \in BOOLEAN
    OBVIOUS
  <2>2. /\ polls' \subseteq PollRecords /\ timer' \in BOOLEAN
        /\ button' \in {"free", "posting", "waiting"} /\ run' = run /\ runs' = runs
    BY <1>8, <1>10, <2>1 DEF Watching!LosePoll
  <2>3. QED
    BY <1>0, <1>10, <2>2 DEF Watching!LosePoll
<1>11. QED
  BY <1>1, <1>2, <1>3, <1>4, <1>5, <1>6, <1>7, <1>9, <1>10 DEF Watching!Next, Watching!Deliver

-----------------------------------------------------------------------------

\* The log console, the benchmark and the button show what the server has
\* (ScreensTellTruth), for any length of a page, any cells, any number of events,
\* edits and parses.
THEOREM ScreensTellTruthTheorem ==
    Logs!Spec /\ Edits!Spec /\ Watching!Spec => []ScreensTellTruth
<1>0. Logs!LogAssumption /\ Edits!EditsAssumption /\ Watching!WatchAssumption
  BY DashboardAssumptions
<1>1. Logs!Spec => [](Logs!LogTypeOK /\ Logs!ListIsWhole)
  <2>1. Logs!Init => LogInv
    BY <1>0, LogInit
  <2>2. LogInv /\ [Logs!Next]_Logs!logVars => LogInv'
    BY <1>0, LogStep
  <2>3. LogInv => Logs!LogTypeOK /\ Logs!ListIsWhole
    BY LogGives
  <2>4. QED
    BY <2>1, <2>2, <2>3, PTL DEF Logs!Spec
<1>2. Edits!Spec => [](Edits!EditsTypeOK /\ Edits!ScreenIsStored)
  <2>1. Edits!Init => EditsInv
    BY <1>0, EditsInit
  <2>2. EditsInv /\ [Edits!Next]_Edits!editVars => EditsInv'
    BY <1>0, EditsStep
  <2>3. EditsInv => Edits!EditsTypeOK /\ Edits!ScreenIsStored
    BY <1>0, EditsGive
  <2>4. QED
    BY <2>1, <2>2, <2>3, PTL DEF Edits!Spec
<1>3. Watching!Spec => []Watching!WatchTypeOK
  <2>1. Watching!Init => WatchInv
    BY <1>0, WatchInit
  <2>2. WatchInv /\ [Watching!Next]_Watching!watchVars => WatchInv'
    BY <1>0, WatchStep
  <2>3. WatchInv => Watching!WatchTypeOK
    BY DEF WatchInv
  <2>4. QED
    BY <2>1, <2>2, <2>3, PTL DEF Watching!Spec
<1>4. /\ Logs!LogTypeOK /\ Logs!ListIsWhole
      /\ Edits!EditsTypeOK /\ Edits!ScreenIsStored
      /\ Watching!WatchTypeOK
      => ScreensTellTruth
  BY DEF ScreensTellTruth
<1>5. QED
  BY <1>1, <1>2, <1>3, <1>4, PTL

=============================================================================
