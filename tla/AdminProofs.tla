---------------------------- MODULE AdminProofs ----------------------------
(***************************************************************************)
(* Theorems about the parts of Administration and about ProxyAdmin: for    *)
(* any number of requests and processes and any value of their parameters. *)
(***************************************************************************)
EXTENDS Administration, ProxyAdmin, Integers, FiniteSetTheorems, SequenceTheorems,
        WellFoundedInduction, TLAPS

-----------------------------------------------------------------------------
(* The settings.  A PUT that never had company while it ran leaves the      *)
(* scheduler at the time it stored; only such a PUT ends a disturbance.     *)

LEMMA SameCardinality == \A S : Setting!Cardinality(S) = Cardinality(S)
BY DEF Setting!Cardinality, Cardinality

PutRecords ==
    {Setting!NoPut} \cup [pc : {"load"}, patch : Setting!Patches, alone : BOOLEAN]
    \cup [pc : {"store", "reschedule"}, alone : BOOLEAN,
          current : Setting!Settings, updated : Setting!Settings]

RowsType == rows = {} \/ \E s \in Setting!Settings : rows = {s}

\* A request that is alone is the only one, and all are where nothing disturbs.
AloneMeansAlone ==
    \A a \in Setting!Busy :
        /\ put[a].alone => Setting!Busy = {a}
        /\ disturbed = {} => put[a].alone

\* What is left to do before the scheduler agrees with the table again.
StoredIsNext ==
    /\ disturbed = {} /\ (\A a \in Admins : put[a].pc # "reschedule") => scheduled = Setting!Loaded.time
    /\ \A a \in Admins : put[a].pc = "reschedule" /\ put[a].alone => rows = {put[a].updated}

SettingsInv ==
    /\ put \in [Admins -> PutRecords]
    /\ RowsType
    /\ scheduled \in Times /\ disturbed \subseteq Setting!Disturbances
    /\ AloneMeansAlone
    /\ StoredIsNext

LEMMA LoadedType ==
    ASSUME Setting!SettingsAssumption, RowsType
    PROVE  Setting!Loaded \in Setting!Settings
BY DEF Setting!SettingsAssumption, RowsType, Setting!Loaded, Setting!Settings

LEMMA SettingsInit ==
    ASSUME Setting!SettingsAssumption, Setting!Init
    PROVE  SettingsInv
<1>1. put \in [Admins -> PutRecords] /\ RowsType /\ scheduled \in Times /\ disturbed \subseteq Setting!Disturbances
  BY DEF Setting!SettingsAssumption, Setting!Init, PutRecords, RowsType
<1>2. \A a \in Admins : put[a].pc = "idle"
  BY DEF Setting!Init, Setting!NoPut
<1>3. scheduled = Setting!Loaded.time
  BY DEF Setting!Init, Setting!Loaded
<1>4. QED
  BY <1>1, <1>2, <1>3 DEF SettingsInv, AloneMeansAlone, StoredIsNext, Setting!Busy

LEMMA SettingsStep ==
    ASSUME Setting!SettingsAssumption, SettingsInv, [Setting!Next]_Setting!settingsVars
    PROVE  SettingsInv'
<1> USE DEF SettingsInv
<1>0. Setting!Loaded \in Setting!Settings
  BY LoadedType
<1>1. ASSUME NEW a \in Admins, NEW patch \in Setting!Patches, Setting!Begin(a, patch)
      PROVE  SettingsInv'
  <2>1. /\ put[a].pc = "idle" /\ UNCHANGED <<rows, scheduled>>
        /\ put'[a] = [pc |-> "load", patch |-> patch, alone |-> Setting!Busy = {}]
        /\ \A b \in Admins : b # a /\ b \notin Setting!Busy => put'[b] = put[b]
        /\ \A b \in Setting!Busy : put'[b] = [put[b] EXCEPT !.alone = FALSE]
        /\ disturbed' = IF Setting!Busy = {} THEN disturbed ELSE disturbed \cup {"overlap"}
    BY <1>1 DEF Setting!Begin, Setting!Busy
  <2>2. ASSUME NEW b \in Setting!Busy
        PROVE  put'[b] \in PutRecords /\ put'[b].pc = put[b].pc /\ ~put'[b].alone
    <3>1. put[b] \in PutRecords /\ put[b].pc # "idle" /\ put'[b] = [put[b] EXCEPT !.alone = FALSE]
      BY <2>1 DEF Setting!Busy
    <3>2. CASE put[b] \in [pc : {"load"}, patch : Setting!Patches, alone : BOOLEAN]
      BY <3>1, <3>2 DEF PutRecords
    <3>3. CASE put[b] \in [pc : {"store", "reschedule"}, alone : BOOLEAN,
                           current : Setting!Settings, updated : Setting!Settings]
      BY <3>1, <3>3 DEF PutRecords
    <3>4. QED
      BY <3>1, <3>2, <3>3 DEF PutRecords, Setting!NoPut
  <2>3. put'[a] \in PutRecords
    BY <2>1 DEF PutRecords
  <2>4. put' \in [Admins -> PutRecords]
    <3>1. put' = [b \in Admins |-> put'[b]]
      BY <1>1 DEF Setting!Begin
    <3>2. QED
      BY <2>1, <2>2, <2>3, <3>1
  <2>5. Setting!Busy' = Setting!Busy \cup {a}
    BY <2>1, <2>2 DEF Setting!Busy
  <2>6. AloneMeansAlone'
    <3>1. ASSUME NEW b \in Setting!Busy'
          PROVE  /\ put'[b].alone => Setting!Busy' = {b}
                 /\ disturbed' = {} => put'[b].alone
      <4>1. CASE b \in Setting!Busy
        <5>1. ~put'[b].alone
          BY <2>2, <4>1
        <5>2. disturbed' # {}
          BY <2>1, <4>1, Zenon
        <5>3. QED
          BY <5>1, <5>2
      <4>2. CASE b = a
        <5>1. put'[a].alone = (Setting!Busy = {})
          BY <2>1
        <5>2. CASE Setting!Busy = {}
          <6>1. put'[b].alone = TRUE /\ Setting!Busy' = {b}
            BY <2>5, <4>2, <5>1, <5>2
          <6>2. QED
            BY <6>1
        <5>3. CASE Setting!Busy # {}
          <6>1. disturbed' # {}
            BY <2>1, <5>3, Zenon
          <6>2. put'[b].alone = FALSE
            BY <4>2, <5>1, <5>3
          <6>3. QED
            BY <6>1, <6>2
        <5>4. QED
          BY <5>2, <5>3
      <4>3. QED
        BY <2>5, <4>1, <4>2
    <3>2. QED
      BY <3>1 DEF AloneMeansAlone
  <2>7. StoredIsNext'
    <3>1. Setting!Loaded' = Setting!Loaded
      BY <2>1 DEF Setting!Loaded
    <3>2. disturbed' = {} => Setting!Busy = {} /\ disturbed = {}
      BY <2>1
    <3>3. \A b \in Admins : put'[b].pc = "reschedule" => ~put'[b].alone
      BY <2>1, <2>2 DEF Setting!Busy
    <3>4. QED
      BY <2>1, <3>1, <3>2, <3>3 DEF StoredIsNext, Setting!Busy
  <2>8. disturbed' \subseteq Setting!Disturbances
    BY <2>1 DEF Setting!Disturbances
  <2>9. QED
    BY <2>1, <2>4, <2>6, <2>7, <2>8 DEF RowsType
<1>2. ASSUME NEW a \in Admins, Setting!Load(a)
      PROVE  SettingsInv'
  <2> DEFINE p == [pc |-> "store", alone |-> put[a].alone, current |-> Setting!Loaded,
                   updated |-> Setting!Updated(Setting!Loaded, put[a].patch)]
  <2>1. put' = [put EXCEPT ![a] = p] /\ put[a].pc = "load" /\ UNCHANGED <<rows, scheduled, disturbed>>
    BY <1>2 DEF Setting!Load
  <2>2. put[a].patch \in Setting!Patches /\ put[a].alone \in BOOLEAN
    BY <2>1 DEF PutRecords, Setting!NoPut
  <2>3. Setting!Updated(Setting!Loaded, put[a].patch) \in Setting!Settings
    BY <1>0, <2>2 DEF Setting!Updated, Setting!Patches, Setting!Settings
  <2>4. p \in PutRecords
    BY <1>0, <2>2, <2>3 DEF PutRecords
  <2>5. put'[a] = p /\ p.pc = "store" /\ p.alone = put[a].alone
    BY <2>1
  <2> HIDE DEF p
  <2>6. \A b \in Admins : b # a => put'[b] = put[b]
    BY <2>1
  <2>7. Setting!Busy' = Setting!Busy /\ a \in Setting!Busy
    BY <2>1, <2>5, <2>6 DEF Setting!Busy
  <2>8. AloneMeansAlone'
    BY <2>1, <2>5, <2>6, <2>7 DEF AloneMeansAlone
  <2>9. StoredIsNext'
    BY <2>1, <2>5, <2>6 DEF StoredIsNext, Setting!Loaded
  <2>10. QED
    BY <2>1, <2>4, <2>8, <2>9 DEF RowsType
<1>3. ASSUME NEW a \in Admins, Setting!Store(a)
      PROVE  SettingsInv'
  <2>1. /\ put[a].pc = "store" /\ put' = [put EXCEPT ![a].pc = "reschedule"]
        /\ rows' = {put[a].updated} /\ UNCHANGED <<scheduled, disturbed>>
    BY <1>3 DEF Setting!Store
  <2>2. /\ put[a] \in [pc : {"store", "reschedule"}, alone : BOOLEAN,
                       current : Setting!Settings, updated : Setting!Settings]
    BY <2>1 DEF PutRecords, Setting!NoPut
  <2>3. /\ put'[a] \in PutRecords /\ put'[a].pc = "reschedule" /\ put'[a].alone = put[a].alone
        /\ put'[a].updated = put[a].updated
    BY <2>1, <2>2 DEF PutRecords
  <2>4. \A b \in Admins : b # a => put'[b] = put[b]
    BY <2>1
  <2>5. Setting!Busy' = Setting!Busy /\ a \in Setting!Busy
    BY <2>1, <2>3, <2>4 DEF Setting!Busy
  <2>6. AloneMeansAlone'
    BY <2>1, <2>3, <2>4, <2>5 DEF AloneMeansAlone
  <2>7. StoredIsNext'
    <3>1. ASSUME NEW b \in Admins, b # a, put[b].pc = "reschedule"
          PROVE  ~put[b].alone
      BY <2>5, <3>1 DEF AloneMeansAlone, Setting!Busy
    <3>2. QED
      BY <2>1, <2>3, <2>4, <3>1 DEF StoredIsNext
  <2>8. RowsType'
    BY <2>1, <2>2 DEF RowsType
  <2>9. put' \in [Admins -> PutRecords]
    BY <2>1, <2>3
  <2>10. QED
    BY <2>1, <2>6, <2>7, <2>8, <2>9
\* A request is over: the others are as they were.
<1>4. ASSUME NEW a \in Admins, put' = [put EXCEPT ![a] = Setting!NoPut]
      PROVE  /\ put' \in [Admins -> PutRecords]
             /\ Setting!Busy' = Setting!Busy \ {a}
             /\ \A b \in Admins : b # a => put'[b] = put[b]
             /\ put'[a].pc = "idle"
  <2>1. put' \in [Admins -> PutRecords] /\ put'[a] = Setting!NoPut
    BY <1>4 DEF PutRecords
  <2>2. \A b \in Admins : b # a => put'[b] = put[b]
    BY <1>4
  <2>3. QED
    BY <2>1, <2>2 DEF Setting!Busy, Setting!NoPut
<1>5. ASSUME NEW a \in Admins, Setting!StoreFails(a)
      PROVE  SettingsInv'
  <2>1. /\ put' = [put EXCEPT ![a] = Setting!NoPut] /\ UNCHANGED scheduled
        /\ put[a].pc \in {"load", "store"}
    BY <1>5 DEF Setting!StoreFails
  <2>2. a \in Setting!Busy
    BY <2>1 DEF Setting!Busy
  <2>3. CASE UNCHANGED <<rows, disturbed>>
    <3>1. AloneMeansAlone'
      BY <1>4, <2>1, <2>3 DEF AloneMeansAlone, Setting!Busy
    <3>2. StoredIsNext'
      BY <1>4, <2>1, <2>3 DEF StoredIsNext, Setting!Loaded
    <3>3. QED
      BY <1>4, <2>1, <2>3, <3>1, <3>2 DEF RowsType
  <2>4. CASE /\ put[a].pc = "store" /\ rows' = {put[a].updated}
             /\ disturbed' # {} /\ disturbed' \subseteq Setting!Disturbances
    <3>1. put[a].updated \in Setting!Settings
      BY <2>4 DEF PutRecords, Setting!NoPut
    <3>2. AloneMeansAlone'
      BY <1>4, <2>1, <2>4 DEF AloneMeansAlone, Setting!Busy
    <3>3. ASSUME NEW b \in Admins, b # a, put[b].pc = "reschedule"
          PROVE  ~put[b].alone
      BY <2>2, <3>3 DEF AloneMeansAlone, Setting!Busy
    <3>4. StoredIsNext'
      BY <1>4, <2>1, <2>4, <3>3 DEF StoredIsNext
    <3>5. QED
      BY <1>4, <2>1, <2>4, <3>1, <3>2, <3>4 DEF RowsType
  <2>5. disturbed \cup {"lost answer"} # {} /\ disturbed \cup {"lost answer"} \subseteq Setting!Disturbances
    BY DEF Setting!Disturbances
  <2>6. QED
    BY <1>5, <2>3, <2>4, <2>5 DEF Setting!StoreFails
<1>6. ASSUME NEW a \in Admins, Setting!Reschedule(a)
      PROVE  SettingsInv'
  <2>1. /\ put[a].pc = "reschedule" /\ scheduled' = Setting!Rescheduled(put[a])
        /\ put' = [put EXCEPT ![a] = Setting!NoPut] /\ rows' = rows
        /\ disturbed' = IF put[a].alone THEN {} ELSE disturbed
    BY <1>6 DEF Setting!Reschedule
  <2>2. a \in Setting!Busy
    BY <2>1 DEF Setting!Busy
  <2>3. put[a].updated \in Setting!Settings /\ put[a].alone \in BOOLEAN
    BY <2>1 DEF PutRecords, Setting!NoPut
  <2>4. scheduled' = put[a].updated.time
    BY <2>1 DEF Setting!Rescheduled
  <2>5. scheduled' \in Times /\ disturbed' \subseteq Setting!Disturbances
    BY <2>1, <2>3, <2>4 DEF Setting!Settings
  <2>6. disturbed' = {} => put[a].alone
    BY <2>1, <2>2 DEF AloneMeansAlone
  <2>7. AloneMeansAlone'
    BY <1>4, <2>1, <2>2, <2>6 DEF AloneMeansAlone, Setting!Busy
  <2>8. put[a].alone => scheduled' = Setting!Loaded'.time
    BY <2>1, <2>4 DEF StoredIsNext, Setting!Loaded
  <2>9. \A b \in Admins : b # a /\ put[b].pc = "reschedule" => ~put[b].alone
    BY <2>2 DEF AloneMeansAlone, Setting!Busy
  <2>10. StoredIsNext'
    BY <1>4, <2>1, <2>6, <2>8, <2>9 DEF StoredIsNext
  <2>11. QED
    BY <1>4, <2>1, <2>5, <2>7, <2>10 DEF RowsType
<1>7. CASE Setting!Restart
  <2>1. /\ put' = [a \in Admins |-> Setting!NoPut] /\ scheduled' = Setting!Loaded.time
        /\ disturbed' = {} /\ rows' = rows
    BY <1>7 DEF Setting!Restart
  <2>2. put' \in [Admins -> PutRecords] /\ \A a \in Admins : put'[a].pc = "idle"
    BY <2>1 DEF PutRecords, Setting!NoPut
  <2>3. scheduled' = Setting!Loaded'.time /\ scheduled' \in Times
    BY <1>0, <2>1 DEF Setting!Loaded, Setting!Settings
  <2>4. QED
    BY <2>1, <2>2, <2>3 DEF RowsType, AloneMeansAlone, StoredIsNext, Setting!Busy
<1>8. CASE UNCHANGED Setting!settingsVars
  BY <1>8 DEF Setting!settingsVars, RowsType, AloneMeansAlone, StoredIsNext, Setting!Busy, Setting!Loaded
<1>9. QED
  BY <1>1, <1>2, <1>3, <1>5, <1>6, <1>7, <1>8 DEF Setting!Next

\* However PUTs overlapped, failed or lost their answers before: once none is under
\* way, and since a restart or the last one that had the table for itself none
\* overlapped or lost its answer, the parse is at the stored time.
THEOREM SettingsAgreeTheorem == Setting!Spec => []SettingsAgree
<1>1. SettingsInv => SettingsAgree
  <2> SUFFICES ASSUME SettingsInv PROVE SettingsAgree
    OBVIOUS
  <2>1. Setting!ScheduleIsStored
    BY DEF SettingsInv, StoredIsNext, Setting!ScheduleIsStored, Setting!Busy
  <2>2. rows \subseteq Setting!Settings /\ Cardinality(rows) <= 1
    <3>1. Cardinality(rows) \in {0, 1}
      BY FS_EmptySet, FS_Singleton DEF SettingsInv, RowsType
    <3>2. QED
      BY <3>1 DEF SettingsInv, RowsType
  <2>3. \A a \in Admins : put[a].pc \in {"idle", "load", "store", "reschedule"}
    BY DEF SettingsInv, PutRecords, Setting!NoPut
  <2>4. Setting!SettingsTypeOK
    BY <2>2, <2>3, SameCardinality DEF SettingsInv, Setting!SettingsTypeOK
  <2>5. QED
    BY <2>1, <2>4 DEF SettingsAgree, Setting!SettingsAgree
<1>2. Setting!Init => SettingsInv
  BY SettingsInit, AdministrationAssumptions
<1>3. SettingsInv /\ [Setting!Next]_Setting!settingsVars => SettingsInv'
  BY SettingsStep, AdministrationAssumptions
<1>4. QED
  BY <1>1, <1>2, <1>3, PTL DEF Setting!Spec

-----------------------------------------------------------------------------
(* The list of proxies.  Who counts or inserts holds the lock, so that what  *)
(* was counted is still so; a job that is between its notice and its mark    *)
(* accounts for the notices that no row shows.                               *)

LEMMA ListCardinality == \A S : ProxyTable!Cardinality(S) = Cardinality(S)
BY DEF ProxyTable!Cardinality, Cardinality

RowRecords == [id : ProxyTable!Ids, url : Urls, expires : ProxyTable!Expiries,
               notified : BOOLEAN, checked : SUBSET Urls]

AddRecords == [pc : {"counting", "inserting"}]

RowCallRecords == [pc : {"deleting", "checking"}, id : ProxyTable!Ids, url : Urls]

ListRecords == {ProxyTable!NoCall} \cup AddRecords \cup RowCallRecords

ListShapes ==
    /\ call \in [Callers -> ListRecords]
    /\ nextId \in 1..(MaxId + 1)
    /\ insertLock = {} \/ \E c \in Callers : insertLock = {c}
    /\ jobPc \in {"idle", "sending", "marking"}
    /\ noticed \in [ProxyTable!Ids -> Nat] /\ repeats \in Nat

\* The rows, told apart by their ids as well as by their addresses.
TableIsSound ==
    /\ table \subseteq RowRecords /\ IsFiniteSet(table)
    /\ \A r, q \in table : r.id = q.id \/ r.url = q.url => r = q
    /\ \A r \in table : r.id < nextId /\ r.checked \subseteq {r.url}

\* What was counted stays so until the row is in.
CountIsKept ==
    /\ Cardinality(table) <= MaxProxies
    /\ \A c \in Callers : call[c].pc \in {"counting", "inserting"} => insertLock = {c}
    /\ \A c \in Callers : call[c].pc = "inserting" => Cardinality(table) < MaxProxies

\* An id means the same address as long as a request holds it.
IdsAreKept ==
    \A c \in Callers : call[c].pc \in {"deleting", "checking"} =>
        /\ call[c].id < nextId
        /\ \A r \in table : r.id = call[c].id => r.url = call[c].url

NoticesAreCounted ==
    /\ due \subseteq {i \in ProxyTable!Ids : i < nextId}
    /\ \A i \in ProxyTable!Ids : /\ noticed[i] <= 1 + repeats
                                 /\ i >= nextId => noticed[i] = 0
    /\ jobPc = "sending" => \A i \in due : noticed[i] <= repeats
    /\ jobPc = "marking" => \A i \in due : noticed[i] >= 1
    /\ \A r \in table :
          /\ r.notified => noticed[r.id] >= 1
          /\ ~r.notified => noticed[r.id] <= repeats \/ (jobPc = "marking" /\ r.id \in due)

ListInv == ListShapes /\ TableIsSound /\ CountIsKept /\ IdsAreKept /\ NoticesAreCounted

LEMMA RowCalls ==
    ASSUME ListShapes, NEW c \in Callers
    PROVE  /\ call[c].pc \in {"counting", "inserting"} => call[c] \in AddRecords
           /\ call[c].pc \in {"deleting", "checking"} => call[c] \in RowCallRecords
BY DEF ListShapes, ListRecords, AddRecords, RowCallRecords, ProxyTable!NoCall

\* The rows are replaced one by one, each with its id and its address.
LEMMA RowsReplaced ==
    ASSUME TableIsSound, NEW new,
           table' = {new[r] : r \in table}, nextId' = nextId,
           \A r \in table : /\ new[r] \in RowRecords
                            /\ new[r].id = r.id /\ new[r].url = r.url
                            /\ new[r].checked \subseteq {r.url}
    PROVE  TableIsSound' /\ Cardinality(table') <= Cardinality(table)
<1> DEFINE f == [r \in table |-> new[r]]
<1>1. f \in Surjection(table, table')
  BY DEF Surjection
<1>2. IsFiniteSet(table') /\ Cardinality(table') <= Cardinality(table)
  BY <1>1, FS_Surjection DEF TableIsSound
<1>3. QED
  BY <1>2 DEF TableIsSound

LEMMA RowsRemoved ==
    ASSUME TableIsSound, table' \subseteq table, nextId' = nextId
    PROVE  TableIsSound' /\ Cardinality(table') <= Cardinality(table)
<1>1. IsFiniteSet(table') /\ Cardinality(table') <= Cardinality(table)
  BY FS_Subset DEF TableIsSound
<1>2. QED
  BY <1>1 DEF TableIsSound

\* A row that is new: its id was not used, its address is in no row.
LEMMA RowInserted ==
    ASSUME ProxyTable!ListAssumption, ListInv, NEW c \in Callers,
           NEW u \in Urls, NEW e \in ProxyTable!Expiries, ProxyTable!Insert(c, u, e)
    PROVE  /\ TableIsSound'
           /\ Cardinality(table') <= Cardinality(table) + 1
           /\ nextId \in ProxyTable!Ids
           /\ \A r \in table' : r \in table \/ (r.id = nextId /\ ~r.notified)
<1>1. /\ call[c].pc = "inserting" /\ nextId <= MaxId /\ nextId' = nextId + 1
      /\ table' = IF \E r \in table : r.url = u THEN table
                  ELSE table \cup {ProxyTable!Row(nextId, u, e)}
  BY DEF ProxyTable!Insert, ProxyTable!NewId
<1>2. nextId \in Nat /\ nextId \in ProxyTable!Ids /\ nextId' = nextId + 1
  BY <1>1 DEF ListInv, ListShapes, ProxyTable!ListAssumption, ProxyTable!Ids
<1> DEFINE row == ProxyTable!Row(nextId, u, e)
<1>4. row \in RowRecords /\ row.id = nextId /\ row.url = u /\ row.checked = {} /\ ~row.notified
  BY <1>2 DEF RowRecords, ProxyTable!Row
<1> HIDE DEF row
<1>5. \A r \in table : r.id \in Nat /\ r.id < nextId
  BY DEF ListInv, TableIsSound, RowRecords, ProxyTable!Ids
<1>6. CASE \E r \in table : r.url = u
  <2>1. table' = table
    BY <1>1, <1>6
  <2>2. Cardinality(table) \in Nat
    BY FS_CardinalityType DEF ListInv, TableIsSound
  <2>3. QED
    BY <1>2, <1>5, <2>1, <2>2 DEF ListInv, TableIsSound
<1>7. CASE ~ \E r \in table : r.url = u
  <2>1. table' = table \cup {row}
    BY <1>1, <1>7 DEF row
  <2>2. IsFiniteSet(table') /\ Cardinality(table') <= Cardinality(table) + 1
    BY <2>1, FS_AddElement, FS_CardinalityType DEF ListInv, TableIsSound
  <2>3. \A r \in table : r.id # row.id /\ r.url # row.url
    BY <1>2, <1>4, <1>5, <1>7
  <2>4. \A r, q \in table' : r.id = q.id \/ r.url = q.url => r = q
    BY <2>1, <2>3 DEF ListInv, TableIsSound
  <2>5. \A r \in table' : r.id < nextId' /\ r.checked \subseteq {r.url}
    BY <1>2, <1>4, <1>5, <2>1 DEF ListInv, TableIsSound
  <2>6. table' \subseteq RowRecords
    BY <1>4, <2>1 DEF ListInv, TableIsSound
  <2>7. TableIsSound'
    BY <2>2, <2>4, <2>5, <2>6 DEF TableIsSound
  <2>8. QED
    BY <1>2, <1>4, <2>1, <2>2, <2>7
<1>8. QED
  BY <1>6, <1>7

LEMMA ListInit ==
    ASSUME ProxyTable!ListAssumption, ProxyTable!Init
    PROVE  ListInv
<1> USE DEF ProxyTable!Init, ProxyTable!NoCall
<1>1. ListShapes
  BY DEF ListShapes, ListRecords, ProxyTable!ListAssumption
<1>2. TableIsSound /\ Cardinality(table) = 0
  BY FS_EmptySet DEF TableIsSound
<1>3. CountIsKept /\ IdsAreKept
  BY <1>2 DEF CountIsKept, IdsAreKept, ProxyTable!ListAssumption
<1>4. NoticesAreCounted
  BY DEF NoticesAreCounted
<1>5. QED
  BY <1>1, <1>2, <1>3, <1>4 DEF ListInv

\* Of the calls only that of c changes, and the table holds no more than before.
LEMMA CountStaysKept ==
    ASSUME ListInv, NEW c \in Callers, NEW new, call' = [call EXCEPT ![c] = new],
           new.pc \notin {"counting", "inserting"},
           Cardinality(table') <= Cardinality(table), IsFiniteSet(table'),
           insertLock' = insertLock \/ (insertLock' = {} /\ insertLock \subseteq {c})
    PROVE  CountIsKept'
<1>1. Cardinality(table') \in Nat /\ Cardinality(table) \in Nat
  BY FS_CardinalityType DEF ListInv, TableIsSound
<1>2. call'[c] = new /\ \A b \in Callers : b # c => call'[b] = call[b]
  BY DEF ListInv, ListShapes
<1>3. MaxProxies \in Nat
  BY ProxyAdminAssumption DEF ProxyTable!ListAssumption
<1>4. QED
  BY <1>1, <1>2, <1>3 DEF ListInv, CountIsKept

LEMMA IdsStayKept ==
    ASSUME ListInv, NEW c \in Callers, NEW new, call' = [call EXCEPT ![c] = new],
           new.pc \notin {"deleting", "checking"}, nextId' \in {nextId, nextId + 1},
           \A r \in table' : r.id = nextId \/ \E q \in table : r.id = q.id /\ r.url = q.url
    PROVE  IdsAreKept'
<1>1. call'[c] = new /\ \A b \in Callers : b # c => call'[b] = call[b]
  BY DEF ListInv, ListShapes
<1>2. ASSUME NEW b \in Callers, call'[b].pc \in {"deleting", "checking"}
      PROVE  /\ call'[b].id < nextId'
             /\ \A r \in table' : r.id = call'[b].id => r.url = call'[b].url
  <2>1. b # c /\ call'[b] = call[b] /\ call[b].id < nextId
    BY <1>1, <1>2 DEF ListInv, IdsAreKept
  <2>2. call[b].id \in Nat /\ nextId \in Nat
    BY <1>2, <2>1, RowCalls DEF ListInv, ListShapes, RowCallRecords, ProxyTable!Ids
  <2>3. QED
    BY <2>1, <2>2, <1>2 DEF ListInv, IdsAreKept
<1>3. QED
  BY <1>2 DEF IdsAreKept

\* What the job knows, when no row comes and none is marked.
LEMMA NoticesStayCounted ==
    ASSUME ListInv, UNCHANGED <<due, jobPc, noticed, named, repeats>>, nextId' \in {nextId, nextId + 1},
           \A r \in table' : \/ r.id = nextId /\ r.id \in ProxyTable!Ids /\ ~r.notified
                             \/ \E q \in table : r.id = q.id /\ r.notified = q.notified
    PROVE  NoticesAreCounted'
<1>1. nextId \in Nat /\ repeats \in Nat
  BY DEF ListInv, ListShapes
<1>2. \A i \in ProxyTable!Ids : i \in Nat
  BY DEF ProxyTable!Ids
<1>3. ASSUME NEW r \in table'
      PROVE  /\ r.notified => noticed[r.id] >= 1
             /\ ~r.notified => noticed[r.id] <= repeats \/ (jobPc = "marking" /\ r.id \in due)
  <2>1. CASE r.id = nextId /\ r.id \in ProxyTable!Ids /\ ~r.notified
    <3>1. noticed[r.id] = 0
      BY <1>1, <2>1 DEF ListInv, NoticesAreCounted
    <3>2. QED
      BY <1>1, <2>1, <3>1
  <2>2. CASE \E q \in table : r.id = q.id /\ r.notified = q.notified
    BY <2>2 DEF ListInv, NoticesAreCounted
  <2>3. QED
    BY <1>3, <2>1, <2>2
<1>4. QED
  BY <1>1, <1>2, <1>3 DEF ListInv, NoticesAreCounted

\* The table and the job stay as they are, a request goes on.
LEMMA OnlyCallChanges ==
    ASSUME ListInv, NEW c \in Callers, NEW new \in ListRecords,
           call' = [call EXCEPT ![c] = new],
           UNCHANGED <<table, nextId, insertLock, due, jobPc, noticed, named, repeats>>,
           new.pc \notin {"counting", "inserting"},
           new.pc \in {"deleting", "checking"} =>
               new.id < nextId /\ \A r \in table : r.id = new.id => r.url = new.url
    PROVE  ListInv'
<1>1. call'[c] = new /\ \A b \in Callers : b # c => call'[b] = call[b]
  BY DEF ListInv, ListShapes
<1>2. ListShapes' /\ TableIsSound'
  BY DEF ListInv, ListShapes, TableIsSound
<1>3. CountIsKept'
  BY <1>1 DEF ListInv, CountIsKept
<1>4. IdsAreKept'
  BY <1>1 DEF ListInv, IdsAreKept
<1>5. NoticesAreCounted'
  BY DEF ListInv, NoticesAreCounted
<1>6. QED
  BY <1>2, <1>3, <1>4, <1>5 DEF ListInv

LEMMA AddKeepsList ==
    ASSUME ProxyTable!ListAssumption, ListInv, NEW c \in Callers,
           \/ ProxyTable!TakeLock(c) \/ ProxyTable!Count(c) \/ ProxyTable!FailAdd(c)
           \/ \E u \in Urls, e \in ProxyTable!Expiries : ProxyTable!Insert(c, u, e)
    PROVE  ListInv'
<1>0. /\ Cardinality(table) \in Nat /\ MaxProxies \in Nat
      /\ call \in [Callers -> ListRecords]
      /\ ProxyTable!NoCall \in ListRecords /\ ProxyTable!NoCall.pc = "idle"
  BY FS_CardinalityType DEF ListInv, ListShapes, TableIsSound, ProxyTable!ListAssumption,
     ListRecords, ProxyTable!NoCall
<1>2. CASE ProxyTable!TakeLock(c)
  <2>1. /\ call[c].pc = "idle" /\ insertLock = {} /\ insertLock' = {c}
        /\ call' = [call EXCEPT ![c] = [pc |-> "counting"]]
        /\ UNCHANGED <<table, nextId, due, jobPc, noticed, named, repeats>>
    BY <1>2 DEF ProxyTable!TakeLock, ProxyTable!LockIsFree
  <2>3. call'[c] \in ListRecords /\ call'[c].pc = "counting"
    BY <1>0, <2>1 DEF ListRecords, AddRecords
  <2>4. \A b \in Callers : b # c => call'[b] = call[b]
    BY <1>0, <2>1
  <2>5. ListShapes' /\ TableIsSound'
    BY <1>0, <2>1, <2>3 DEF ListInv, ListShapes, TableIsSound
  <2>6. \A b \in Callers : call[b].pc \notin {"counting", "inserting"}
    BY <2>1 DEF ListInv, CountIsKept
  <2>7. CountIsKept'
    BY <2>1, <2>3, <2>4, <2>6 DEF ListInv, CountIsKept
  <2>8. IdsAreKept'
    BY <2>1, <2>3, <2>4 DEF ListInv, IdsAreKept
  <2>9. NoticesAreCounted'
    BY <2>1 DEF ListInv, NoticesAreCounted
  <2>10. QED
    BY <2>5, <2>7, <2>8, <2>9 DEF ListInv
\* A request to add is over; the table is as it was.
<1>3. ASSUME ProxyTable!EndAdd(c), UNCHANGED <<table, nextId>>
      PROVE  ListInv'
  <2>1. /\ call' = [call EXCEPT ![c] = ProxyTable!NoCall] /\ insertLock' = insertLock \ {c}
        /\ UNCHANGED <<table, nextId, due, jobPc, noticed, named, repeats>>
    BY <1>3 DEF ProxyTable!EndAdd
  <2>2. insertLock' = insertLock \/ (insertLock' = {} /\ insertLock \subseteq {c})
    BY <2>1 DEF ListInv, ListShapes
  <2>3. CountIsKept'
    <3>1. IsFiniteSet(table') /\ Cardinality(table') <= Cardinality(table)
      BY <1>0, <2>1 DEF ListInv, TableIsSound
    <3>2. QED
      BY <1>0, <2>1, <2>2, <3>1, CountStaysKept
  <2>4. IdsAreKept'
    BY <1>0, <2>1, IdsStayKept
  <2>5. NoticesAreCounted'
    BY <2>1 DEF ListInv, NoticesAreCounted
  <2>6. ListShapes' /\ TableIsSound'
    BY <1>0, <2>1, <2>2 DEF ListInv, ListShapes, TableIsSound
  <2>7. QED
    BY <2>3, <2>4, <2>5, <2>6 DEF ListInv
<1>4. CASE ProxyTable!Count(c)
  <2>1. call[c].pc = "counting" /\ UNCHANGED <<table, nextId>>
    BY <1>4 DEF ProxyTable!Count
  <2>2. CASE Cardinality(table) >= MaxProxies
    BY <1>3, <1>4, <2>1, <2>2, ListCardinality DEF ProxyTable!Count
  <2>3. CASE ~(Cardinality(table) >= MaxProxies)
    <3>1. /\ call' = [call EXCEPT ![c].pc = "inserting"]
          /\ UNCHANGED <<table, nextId, insertLock, due, jobPc, noticed, named, repeats>>
      BY <1>4, <2>1, <2>3, ListCardinality DEF ProxyTable!Count
    <3>2. call[c] \in AddRecords
      BY <2>1, RowCalls DEF ListInv
    <3>3. call'[c] \in ListRecords /\ call'[c].pc = "inserting"
      BY <1>0, <3>1, <3>2 DEF ListRecords, AddRecords
    <3>4. \A b \in Callers : b # c => call'[b] = call[b]
      BY <1>0, <3>1
    <3>5. ListShapes' /\ TableIsSound'
      BY <1>0, <3>1, <3>3 DEF ListInv, ListShapes, TableIsSound
    <3>6. CountIsKept'
      BY <1>0, <2>1, <2>3, <3>1, <3>3, <3>4 DEF ListInv, CountIsKept
    <3>7. IdsAreKept' /\ NoticesAreCounted'
      BY <3>1, <3>3, <3>4 DEF ListInv, IdsAreKept, NoticesAreCounted
    <3>8. QED
      BY <3>5, <3>6, <3>7 DEF ListInv
  <2>4. QED
    BY <2>2, <2>3
<1>5. ASSUME NEW u \in Urls, NEW e \in ProxyTable!Expiries, ProxyTable!Insert(c, u, e)
      PROVE  ListInv'
  <2>1. /\ call[c].pc = "inserting" /\ nextId <= MaxId /\ nextId' = nextId + 1
        /\ call' = [call EXCEPT ![c] = ProxyTable!NoCall] /\ insertLock' = insertLock \ {c}
        /\ UNCHANGED <<due, jobPc, noticed, named, repeats>>
    BY <1>5 DEF ProxyTable!Insert, ProxyTable!EndAdd
  <2>2. /\ TableIsSound' /\ Cardinality(table') <= Cardinality(table) + 1
        /\ nextId \in ProxyTable!Ids
        /\ \A r \in table' : r \in table \/ (r.id = nextId /\ ~r.notified)
    BY <1>5, RowInserted
  <2>3. insertLock = {c} /\ Cardinality(table) < MaxProxies
    BY <2>1 DEF ListInv, CountIsKept
  <2>4. /\ call'[c].pc = "idle" /\ \A b \in Callers : b # c => call'[b] = call[b]
        /\ call' \in [Callers -> ListRecords]
    BY <1>0, <2>1
  <2>5. Cardinality(table') \in Nat
    BY <2>2, FS_CardinalityType DEF TableIsSound
  <2>6. \A b \in Callers : call'[b].pc \notin {"counting", "inserting"}
    BY <2>3, <2>4 DEF ListInv, CountIsKept
  <2>7. CountIsKept'
    BY <1>0, <2>2, <2>3, <2>5, <2>6 DEF CountIsKept
  <2>8. \A r \in table' : \/ r.id = nextId /\ r.id \in ProxyTable!Ids /\ ~r.notified
                          \/ \E q \in table : r.id = q.id /\ r.url = q.url /\ r.notified = q.notified
    BY <2>2
  <2>9. IdsAreKept'
    BY <1>0, <2>1, <2>8, IdsStayKept
  <2>10. NoticesAreCounted'
    BY <2>1, <2>8, NoticesStayCounted
  <2>11. ListShapes'
    BY <2>1, <2>2, <2>3, <2>4 DEF ListInv, ListShapes, ProxyTable!ListAssumption
  <2>12. QED
    BY <2>2, <2>7, <2>9, <2>10, <2>11 DEF ListInv
<1>6. CASE ProxyTable!FailAdd(c)
  BY <1>3, <1>6 DEF ProxyTable!FailAdd
<1>7. QED
  BY <1>2, <1>4, <1>5, <1>6

LEMMA RowCallKeepsList ==
    ASSUME ListInv, NEW c \in Callers,
           \/ \E i \in ProxyTable!Ids, what \in {"deleting", "checking"} : ProxyTable!Look(c, i, what)
           \/ ProxyTable!Delete(c) \/ ProxyTable!SaveCheck(c) \/ ProxyTable!FailCall(c)
    PROVE  ListInv'
<1>0. ProxyTable!NoCall \in ListRecords /\ ProxyTable!NoCall.pc = "idle"
  BY DEF ListRecords, ProxyTable!NoCall
<1>1. ASSUME NEW i \in ProxyTable!Ids, NEW what \in {"deleting", "checking"}, ProxyTable!Look(c, i, what)
      PROVE  ListInv'
  <2> DEFINE row == ProxyTable!RowOf(i)
             new == [pc |-> what, id |-> i, url |-> row.url]
  <2>1. row \in table /\ row.id = i
    BY <1>1 DEF ProxyTable!Look, ProxyTable!Present, ProxyTable!RowOf
  <2>2. row \in RowRecords /\ i < nextId
    BY <2>1 DEF ListInv, TableIsSound
  <2>3. \A r \in table : r.id = i => r.url = row.url
    BY <2>1 DEF ListInv, TableIsSound
  <2>4. /\ call' = [call EXCEPT ![c] = new]
        /\ UNCHANGED <<table, nextId, insertLock, due, jobPc, noticed, named, repeats>>
    BY <1>1 DEF ProxyTable!Look
  <2> HIDE DEF row
  <2>5. new \in ListRecords /\ new.pc = what /\ new.id = i /\ new.url = row.url
    BY <2>2 DEF ListRecords, RowCallRecords, RowRecords
  <2> HIDE DEF new
  <2>6. QED
    BY <2>2, <2>3, <2>4, <2>5, OnlyCallChanges
\* A request about a row is over; every row that is left was there, with its
\* address and its mark.
<1>2. ASSUME TableIsSound', Cardinality(table') <= Cardinality(table),
             \A r \in table' : \E q \in table : r.id = q.id /\ r.url = q.url /\ r.notified = q.notified,
             call' = [call EXCEPT ![c] = ProxyTable!NoCall],
             UNCHANGED <<nextId, insertLock, due, jobPc, noticed, named, repeats>>
      PROVE  ListInv'
  <2>1. ListShapes'
    BY <1>0, <1>2 DEF ListInv, ListShapes
  <2>2. CountIsKept'
    BY <1>0, <1>2, CountStaysKept DEF TableIsSound
  <2>3. IdsAreKept'
    BY <1>0, <1>2, IdsStayKept
  <2>4. NoticesAreCounted'
    BY <1>2, NoticesStayCounted
  <2>5. QED
    BY <1>2, <2>1, <2>2, <2>3, <2>4 DEF ListInv
<1>3. CASE ProxyTable!Delete(c)
  <2>1. /\ table' = {r \in table : r.id # call[c].id} /\ call' = [call EXCEPT ![c] = ProxyTable!NoCall]
        /\ UNCHANGED <<nextId, insertLock, due, jobPc, noticed, named, repeats>>
    BY <1>3 DEF ProxyTable!Delete
  <2>2. TableIsSound' /\ Cardinality(table') <= Cardinality(table)
    BY <2>1, RowsRemoved DEF ListInv
  <2>3. QED
    BY <1>2, <2>1, <2>2
<1>4. CASE ProxyTable!SaveCheck(c)
  <2> DEFINE new == [r \in table |-> IF r.id = call[c].id THEN [r EXCEPT !.checked = {call[c].url}] ELSE r]
  <2>1. /\ table' = {new[r] : r \in table} /\ call' = [call EXCEPT ![c] = ProxyTable!NoCall]
        /\ call[c].pc = "checking" /\ UNCHANGED <<nextId, insertLock, due, jobPc, noticed, named, repeats>>
    BY <1>4 DEF ProxyTable!SaveCheck
  <2>2. call[c] \in RowCallRecords
    BY <2>1, RowCalls DEF ListInv
  <2>3. \A r \in table : r \in RowRecords /\ (r.id = call[c].id => r.url = call[c].url)
    BY <2>1 DEF ListInv, TableIsSound, IdsAreKept
  <2>4. \A r \in table : /\ new[r] \in RowRecords
                         /\ new[r].id = r.id /\ new[r].url = r.url /\ new[r].notified = r.notified
                         /\ new[r].checked \subseteq {r.url}
    BY <2>2, <2>3 DEF RowRecords, RowCallRecords, ListInv, TableIsSound
  <2> HIDE DEF new
  <2>5. TableIsSound' /\ Cardinality(table') <= Cardinality(table)
    BY <2>1, <2>4, RowsReplaced DEF ListInv
  <2>6. QED
    BY <1>2, <2>1, <2>4, <2>5
<1>5. CASE ProxyTable!FailCall(c)
  BY <1>0, <1>5, OnlyCallChanges DEF ProxyTable!FailCall
<1>6. QED
  BY <1>1, <1>3, <1>4, <1>5

\* The job and the calendar: no request moves.
LEMMA JobKeepsList ==
    ASSUME ListInv,
           \/ ProxyTable!ListDue \/ ProxyTable!Send \/ ProxyTable!Mark \/ ProxyTable!JobEnds
           \/ \E i \in ProxyTable!Ids : ProxyTable!Age(i)
    PROVE  ListInv'
<1>0. /\ nextId \in Nat /\ repeats \in Nat /\ noticed \in [ProxyTable!Ids -> Nat]
      /\ due \subseteq ProxyTable!Ids
      /\ \A r \in table : r \in RowRecords /\ r.id \in ProxyTable!Ids /\ r.id < nextId
  BY DEF ListInv, ListShapes, NoticesAreCounted, TableIsSound, RowRecords
<1>1. UNCHANGED <<nextId, insertLock, call>>
  BY DEF ProxyTable!ListDue, ProxyTable!Send, ProxyTable!Mark, ProxyTable!JobEnds, ProxyTable!Age
\* The rows are as many as before, with the ids and the addresses they had.
<1>2. ASSUME TableIsSound', Cardinality(table') <= Cardinality(table),
             \A r \in table' : \E q \in table : r.id = q.id /\ r.url = q.url
      PROVE  CountIsKept' /\ IdsAreKept'
  <2>1. Cardinality(table') \in Nat /\ Cardinality(table) \in Nat /\ MaxProxies \in Nat
    BY <1>2, FS_CardinalityType, ProxyAdminAssumption DEF ListInv, TableIsSound, ProxyTable!ListAssumption
  <2>2. CountIsKept'
    BY <1>1, <1>2, <2>1 DEF ListInv, CountIsKept
  <2>3. IdsAreKept'
    BY <1>1, <1>2 DEF ListInv, IdsAreKept
  <2>4. QED
    BY <2>2, <2>3
<1>3. ASSUME UNCHANGED table
      PROVE  TableIsSound' /\ CountIsKept' /\ IdsAreKept'
  BY <1>1, <1>3 DEF ListInv, TableIsSound, CountIsKept, IdsAreKept
<1>4. CASE ProxyTable!ListDue
  <2>1. /\ jobPc = "idle" /\ due' = ProxyTable!Expiring /\ jobPc' = "sending"
        /\ UNCHANGED <<table, noticed, repeats>>
    BY <1>4 DEF ProxyTable!ListDue
  <2>2. \A i \in due' : i \in ProxyTable!Ids /\ i < nextId /\ noticed[i] <= repeats
    BY <1>0, <2>1 DEF ProxyTable!Expiring, ListInv, NoticesAreCounted
  <2>3. NoticesAreCounted'
    BY <1>1, <2>1, <2>2 DEF ListInv, NoticesAreCounted
  <2>4. QED
    BY <1>1, <1>3, <2>1, <2>3 DEF ListInv, ListShapes
<1>5. CASE ProxyTable!Send
  <2>1. /\ jobPc = "sending" /\ jobPc' = "marking"
        /\ noticed' = [i \in ProxyTable!Ids |-> IF i \in due THEN noticed[i] + 1 ELSE noticed[i]]
        /\ UNCHANGED <<table, due, repeats>>
    BY <1>5 DEF ProxyTable!Send
  <2>2. noticed' \in [ProxyTable!Ids -> Nat]
    BY <1>0, <2>1
  <2>3. \A i \in due : noticed'[i] = noticed[i] + 1 /\ noticed[i] <= repeats /\ noticed[i] \in Nat /\ i < nextId
    BY <1>0, <2>1 DEF ListInv, NoticesAreCounted
  <2>4. \A i \in ProxyTable!Ids \ due : noticed'[i] = noticed[i]
    BY <2>1
  <2>5. \A i \in ProxyTable!Ids : noticed'[i] <= 1 + repeats /\ (i >= nextId => noticed'[i] = 0)
    <3>1. \A i \in ProxyTable!Ids : i \in Nat
      BY DEF ProxyTable!Ids
    <3>2. QED
      BY <1>0, <2>3, <2>4, <3>1 DEF ListInv, NoticesAreCounted
  <2>6. ASSUME NEW r \in table
        PROVE  /\ r.notified => noticed'[r.id] >= 1
               /\ ~r.notified => noticed'[r.id] <= repeats \/ r.id \in due
    BY <1>0, <2>1, <2>3, <2>4 DEF ListInv, NoticesAreCounted
  <2>7. NoticesAreCounted'
    BY <1>0, <1>1, <2>1, <2>3, <2>5, <2>6 DEF ListInv, NoticesAreCounted
  <2>8. QED
    BY <1>1, <1>3, <2>1, <2>2, <2>7 DEF ListInv, ListShapes
<1>6. CASE ProxyTable!Mark
  <2> DEFINE new == [r \in table |-> [r EXCEPT !.notified = @ \/ r.id \in due]]
  <2>1. /\ jobPc = "marking" /\ table' = {new[r] : r \in table} /\ due' = {} /\ jobPc' = "idle"
        /\ UNCHANGED <<noticed, repeats>>
    BY <1>6 DEF ProxyTable!Mark, ProxyTable!Marked
  <2>2. ASSUME NEW r \in table
        PROVE  /\ new[r] \in RowRecords /\ new[r].id = r.id /\ new[r].url = r.url
               /\ new[r].checked = r.checked
               /\ new[r].notified = (r.notified \/ r.id \in due)
    <3>1. r \in RowRecords /\ new[r] = [r EXCEPT !.notified = r.notified \/ r.id \in due]
      BY <1>0
    <3>2. (r.notified \/ r.id \in due) \in BOOLEAN
      OBVIOUS
    <3>3. QED
      BY <3>1, <3>2 DEF RowRecords
  <2> HIDE DEF new
  <2>3. TableIsSound' /\ Cardinality(table') <= Cardinality(table)
    BY <1>1, <2>1, <2>2, RowsReplaced DEF ListInv, TableIsSound
  <2>4. CountIsKept' /\ IdsAreKept'
    BY <1>2, <2>1, <2>2, <2>3
  <2>5. ASSUME NEW r \in table
        PROVE  /\ new[r].notified => noticed[r.id] >= 1
               /\ ~new[r].notified => noticed[r.id] <= repeats
    <3>1. CASE r.id \in due
      <4>1. noticed[r.id] >= 1 /\ new[r].notified
        BY <2>1, <2>2, <3>1 DEF ListInv, NoticesAreCounted
      <4>2. QED
        BY <4>1
    <3>2. CASE r.id \notin due
      <4>1. new[r].notified <=> r.notified
        BY <2>2, <3>2
      <4>2. QED
        BY <3>2, <4>1 DEF ListInv, NoticesAreCounted
    <3>3. QED
      BY <3>1, <3>2
  <2>6. \A q \in table' : /\ q.notified => noticed[q.id] >= 1
                          /\ ~q.notified => noticed[q.id] <= repeats
    BY <2>1, <2>2, <2>5
  <2>7. NoticesAreCounted'
    BY <1>1, <2>1, <2>6 DEF ListInv, NoticesAreCounted
  <2>8. QED
    BY <1>1, <2>1, <2>3, <2>4, <2>7 DEF ListInv, ListShapes
<1>7. CASE ProxyTable!JobEnds
  <2>1. /\ due' = {} /\ jobPc' = "idle" /\ UNCHANGED <<table, noticed>>
        /\ repeats' = IF jobPc = "marking" THEN repeats + 1 ELSE repeats
    BY <1>7 DEF ProxyTable!JobEnds
  <2>2. repeats' \in Nat /\ repeats <= repeats'
    BY <1>0, <2>1
  <2>3. \A i \in ProxyTable!Ids : noticed[i] <= 1 + repeats'
    BY <1>0, <2>2 DEF ListInv, NoticesAreCounted
  <2>4. \A r \in table : ~r.notified => noticed[r.id] <= repeats'
    BY <1>0, <2>1, <2>2 DEF ListInv, NoticesAreCounted
  <2>5. NoticesAreCounted'
    BY <1>1, <2>1, <2>3, <2>4 DEF ListInv, NoticesAreCounted
  <2>6. QED
    BY <1>1, <1>3, <2>1, <2>2, <2>5 DEF ListInv, ListShapes
<1>8. ASSUME NEW i \in ProxyTable!Ids, ProxyTable!Age(i)
      PROVE  ListInv'
  <2> DEFINE new == [r \in table |-> IF r.id = i THEN [r EXCEPT !.expires = "soon"] ELSE r]
  <2>1. table' = {new[r] : r \in table} /\ UNCHANGED <<due, jobPc, noticed, named, repeats>>
    BY <1>8 DEF ProxyTable!Age
  <2>2. \A r \in table : /\ new[r] \in RowRecords
                         /\ new[r].id = r.id /\ new[r].url = r.url /\ new[r].notified = r.notified
                         /\ new[r].checked = r.checked
    BY <1>0 DEF RowRecords, ProxyTable!Expiries
  <2> HIDE DEF new
  <2>3. TableIsSound' /\ Cardinality(table') <= Cardinality(table)
    BY <1>1, <2>1, <2>2, RowsReplaced DEF ListInv, TableIsSound
  <2>4. CountIsKept' /\ IdsAreKept'
    BY <1>2, <2>1, <2>2, <2>3
  <2>5. NoticesAreCounted'
    BY <1>1, <2>1, <2>2, NoticesStayCounted
  <2>6. QED
    BY <1>1, <2>1, <2>3, <2>4, <2>5 DEF ListInv, ListShapes
<1>9. QED
  BY <1>4, <1>5, <1>6, <1>7, <1>8

\* However adding, deleting and checking overlap, and whichever of them fails:
\* the list keeps its limit, has no address twice, shows each address its own
\* check; and a proxy is in one notice, but for jobs that ended before their mark,
\* and in one, by name or in the number of the rest, before it is marked.
THEOREM ProxyListIsSoundTheorem == ProxyTable!Spec => []ProxyListIsSound
<1>1. ListInv => ProxyListIsSound
  <2> SUFFICES ASSUME ListInv PROVE ProxyListIsSound
    OBVIOUS
  <2>1. insertLock \subseteq Callers /\ Cardinality(insertLock) <= 1
    <3>1. CASE insertLock = {}
      BY <3>1, FS_EmptySet
    <3>2. CASE \E c \in Callers : insertLock = {c}
      BY <3>2, FS_Singleton
    <3>3. QED
      BY <3>1, <3>2 DEF ListInv, ListShapes
  <2>2. \A c \in Callers :
           call[c].pc \in {"idle", "counting", "inserting", "deleting", "checking"}
    BY DEF ListInv, ListShapes, ListRecords, AddRecords, RowCallRecords, ProxyTable!NoCall
  <2>3. ProxyTable!ListTypeOK
    BY <2>1, <2>2, ListCardinality
       DEF ListInv, ListShapes, TableIsSound, RowRecords, NoticesAreCounted, ProxyTable!ListTypeOK
  <2>4. ProxyTable!LimitHolds
    BY ListCardinality DEF ListInv, CountIsKept, TableIsSound, ProxyTable!LimitHolds
  <2>5. ProxyTable!CheckIsOfRow
    BY DEF ListInv, TableIsSound, ProxyTable!CheckIsOfRow
  <2>6. ProxyTable!ReportedOnce
    BY DEF ListInv, NoticesAreCounted, ProxyTable!ReportedOnce
  <2>7. QED
    BY <2>3, <2>4, <2>5, <2>6 DEF ProxyListIsSound, ProxyTable!ProxyListIsSound
<1>2. ProxyTable!Init => ListInv
  BY ListInit, ProxyAdminAssumption
<1>3. ListInv /\ [ProxyTable!Next]_ProxyTable!listVars => ListInv'
  <2> SUFFICES ASSUME ListInv, [ProxyTable!Next]_ProxyTable!listVars PROVE ListInv'
    OBVIOUS
  <2>1. CASE UNCHANGED ProxyTable!listVars
    BY <2>1 DEF ProxyTable!listVars, ListInv, ListShapes, TableIsSound, CountIsKept, IdsAreKept,
                NoticesAreCounted
  <2>2. CASE ProxyTable!Next
    BY <2>2, AddKeepsList, RowCallKeepsList, JobKeepsList, ProxyAdminAssumption DEF ProxyTable!Next
  <2>3. QED
    BY <2>1, <2>2
<1>4. QED
  BY <1>1, <1>2, <1>3, PTL DEF ProxyTable!Spec

-----------------------------------------------------------------------------
(* The migrations.  A start that has a file's statements in its transaction  *)
(* has every earlier file behind it; what it found applied stays applied.    *)

LEMMA MigrationCardinality == \A S : Migration!Cardinality(S) = Cardinality(S)
BY DEF Migration!Cardinality, Cardinality

LEMMA LeastNumber ==
    ASSUME NEW T \in SUBSET Nat, T # {}
    PROVE  \E m \in T : \A k \in T : m <= k
<1>1. \E m \in T : \A k \in T : <<k, m>> \notin OpToRel(<, Nat)
  BY NatLessThanWellFounded, WFMin
<1>2. PICK m \in T : \A k \in T : <<k, m>> \notin OpToRel(<, Nat)
  BY <1>1
<1>3. \A k \in T : ~(k < m)
  BY <1>2 DEF OpToRel
<1>4. QED
  BY <1>3

StartRecords == [pc : {"down", "check", "drop", "create", "look", "apply", "up"},
                 applied : SUBSET Versions, open : SUBSET Versions]

MigrationShapes ==
    /\ tracking \in {"absent", "goose", "ours"}
    /\ recorded \subseteq Versions
    /\ schema \in [Versions -> 0..MaxRuns]
    /\ start \in [Starts -> StartRecords]
    /\ wasGoose \in BOOLEAN

\* One transaction at a time has statements: of a file that may take effect once
\* more, that is not applied, and before which every file is.
OpenIsNext ==
    /\ \A s, r \in Starts : start[s].open # {} /\ start[r].open # {} => s = r
    /\ \A s \in Starts : start[s].open # {} =>
          /\ start[s].pc = "apply"
          /\ \E v \in Migration!Pending(s) :
                /\ start[s].open = {v} /\ schema[v] < MaxRuns
                /\ \A w \in Migration!Pending(s) : v <= w

AppliedTookEffect ==
    /\ \A v \in recorded : schema[v] > 0
    /\ \A s \in Starts : \A v \in start[s].applied : schema[v] > 0
    /\ \A s \in Starts : start[s].pc = "up" => Migration!Pending(s) = {}
    /\ \A v, w \in Migration!Real : v < w /\ schema[w] > 0 => schema[v] > 0

\* A database that goose never had: nobody drops the table.
NothingIsDropped ==
    ~wasGoose =>
        /\ tracking # "goose"
        /\ \A s \in Starts : /\ start[s].pc \notin {"drop", "create"}
                             /\ start[s].pc # "down" => tracking = "ours"
        /\ \A v \in Versions : schema[v] = (IF v \in recorded THEN 1 ELSE 0)

MigrationsInv == MigrationShapes /\ OpenIsNext /\ AppliedTookEffect /\ NothingIsDropped

LEMMA VersionsAreNumbers ==
    /\ Versions \subseteq Nat /\ Blank \subseteq Versions /\ MaxRuns \in Nat \ {0}
    /\ \A s \in Starts : Migration!Pending(s) \subseteq Versions
BY AdministrationAssumptions DEF Migration!MigrationsAssumption, Migration!Pending

LEMMA MigrationsInit ==
    ASSUME Migration!Init
    PROVE  MigrationsInv
<1> USE DEF Migration!Init, Migration!Idle
<1>1. schema \in [Versions -> 0..MaxRuns]
  BY VersionsAreNumbers
<1>2. MigrationShapes
  BY <1>1 DEF MigrationShapes, StartRecords
<1>3. \A v, w \in Migration!Real : v < w /\ schema[w] > 0 => schema[v] > 0
  BY VersionsAreNumbers DEF Migration!Real
<1>4. OpenIsNext /\ AppliedTookEffect
  BY <1>3 DEF OpenIsNext, AppliedTookEffect
<1>5. NothingIsDropped
  BY DEF NothingIsDropped
<1>6. QED
  BY <1>2, <1>4, <1>5 DEF MigrationsInv

\* A start goes on, no statement is at work in it, no file takes effect.
LEMMA StartGoesOn ==
    ASSUME MigrationsInv, NEW s \in Starts, NEW new \in StartRecords,
           start' = [start EXCEPT ![s] = new], new.open = {}, new.pc # "up",
           UNCHANGED <<schema, wasGoose>>, tracking' \in {"absent", "goose", "ours"},
           recorded' \subseteq recorded,
           \A v \in new.applied : schema[v] > 0,
           ~wasGoose => /\ tracking' # "goose" /\ recorded' = recorded
                        /\ tracking = "ours" => tracking' = "ours"
                        /\ new.pc \notin {"drop", "create"} /\ (new.pc # "down" => tracking' = "ours")
    PROVE  MigrationsInv'
<1>1. start'[s] = new /\ \A r \in Starts : r # s => start'[r] = start[r]
  BY DEF MigrationsInv, MigrationShapes
<1>2. MigrationShapes'
  BY DEF MigrationsInv, MigrationShapes
<1>3. \A r \in Starts : r # s => Migration!Pending(r)' = Migration!Pending(r)
  BY <1>1 DEF Migration!Pending
<1>4. OpenIsNext'
  BY <1>1, <1>3 DEF MigrationsInv, OpenIsNext
<1>5. AppliedTookEffect'
  BY <1>1, <1>3 DEF MigrationsInv, AppliedTookEffect
<1>6. NothingIsDropped'
  <2>1. CASE wasGoose
    BY <2>1 DEF NothingIsDropped
  <2>2. CASE ~wasGoose
    BY <1>1, <2>2 DEF MigrationsInv, NothingIsDropped
  <2>3. QED
    BY <2>1, <2>2
<1>7. QED
  BY <1>2, <1>4, <1>5, <1>6 DEF MigrationsInv

LEMMA MigrationsStep ==
    ASSUME MigrationsInv, [Migration!Next]_Migration!migrationVars
    PROVE  MigrationsInv'
<1>0. /\ \A s \in Starts : start[s] \in StartRecords
      /\ \A v \in Versions : schema[v] \in 0..MaxRuns
      /\ start \in [Starts -> StartRecords] /\ schema \in [Versions -> 0..MaxRuns]
  BY DEF MigrationsInv, MigrationShapes
\* Where a start is on its way to the files it has no statements at work.
<1>1. ASSUME NEW s \in Starts, start[s].pc # "apply"
      PROVE  /\ start[s].open = {}
             /\ \A pc \in {"down", "check", "drop", "create", "look"} :
                   /\ [start[s] EXCEPT !.pc = pc] \in StartRecords
                   /\ [start[s] EXCEPT !.pc = pc].pc = pc
                   /\ [start[s] EXCEPT !.pc = pc].open = {}
                   /\ [start[s] EXCEPT !.pc = pc].applied = start[s].applied
  BY <1>0, <1>1 DEF MigrationsInv, OpenIsNext, StartRecords
<1>2. \A s \in Starts : \A v \in start[s].applied : schema[v] > 0
  BY DEF MigrationsInv, AppliedTookEffect
<1>3. ASSUME NEW s \in Starts, Migration!Create(s)
      PROVE  MigrationsInv'
  <2>1. /\ start[s].pc = "down" /\ start' = [start EXCEPT ![s].pc = "check"]
        /\ tracking' = IF tracking = "absent" THEN "ours" ELSE tracking
        /\ UNCHANGED <<recorded, schema, wasGoose>>
    BY <1>3 DEF Migration!Create, Migration!Goes
  <2> DEFINE new == [start[s] EXCEPT !.pc = "check"]
  <2>2. new \in StartRecords /\ new.pc = "check" /\ new.open = {} /\ new.applied = start[s].applied
    BY <1>1, <2>1
  <2>3. start' = [start EXCEPT ![s] = new]
    BY <1>0, <2>1
  <2>4. tracking \in {"absent", "goose", "ours"} /\ (~wasGoose => tracking # "goose")
    BY DEF MigrationsInv, MigrationShapes, NothingIsDropped
  <2> HIDE DEF new
  <2>5. QED
    BY <1>2, <2>1, <2>2, <2>3, <2>4, StartGoesOn
<1>4. ASSUME NEW s \in Starts, Migration!Check(s)
      PROVE  MigrationsInv'
  <2> DEFINE pc == IF tracking = "ours" THEN "look" ELSE "drop"
             new == [start[s] EXCEPT !.pc = pc]
  <2>1. /\ start[s].pc = "check" /\ start' = [start EXCEPT ![s].pc = pc]
        /\ UNCHANGED <<tracking, recorded, schema, wasGoose>>
    BY <1>4 DEF Migration!Check, Migration!Goes
  <2>2. new \in StartRecords /\ new.pc = pc /\ new.open = {} /\ new.applied = start[s].applied
    BY <1>1, <2>1
  <2>3. start' = [start EXCEPT ![s] = new]
    BY <1>0, <2>1
  <2>4. tracking \in {"absent", "goose", "ours"} /\ (~wasGoose => tracking = "ours")
    BY <2>1 DEF MigrationsInv, MigrationShapes, NothingIsDropped
  <2>5. ~wasGoose => new.pc = "look"
    BY <2>2, <2>4
  <2>6. new.pc # "up"
    BY <2>2
  <2> HIDE DEF new
  <2>7. QED
    BY <1>2, <2>1, <2>2, <2>3, <2>4, <2>5, <2>6, StartGoesOn
<1>5. ASSUME NEW s \in Starts, Migration!Drop(s)
      PROVE  MigrationsInv'
  <2>1. /\ start[s].pc = "drop" /\ start' = [start EXCEPT ![s].pc = "create"]
        /\ tracking' = "absent" /\ recorded' = {} /\ UNCHANGED <<schema, wasGoose>>
    BY <1>5 DEF Migration!Drop, Migration!Goes
  <2> DEFINE new == [start[s] EXCEPT !.pc = "create"]
  <2>2. new \in StartRecords /\ new.pc = "create" /\ new.open = {} /\ new.applied = start[s].applied
    BY <1>1, <2>1
  <2>3. start' = [start EXCEPT ![s] = new]
    BY <1>0, <2>1
  <2>4. wasGoose
    BY <2>1 DEF MigrationsInv, NothingIsDropped
  <2> HIDE DEF new
  <2>5. QED
    BY <1>2, <2>1, <2>2, <2>3, <2>4, StartGoesOn
<1>6. ASSUME NEW s \in Starts, Migration!Recreate(s)
      PROVE  MigrationsInv'
  <2>1. /\ start[s].pc = "create" /\ start' = [start EXCEPT ![s].pc = "look"]
        /\ tracking' = "ours" /\ UNCHANGED <<recorded, schema, wasGoose>>
    BY <1>6 DEF Migration!Recreate, Migration!Goes
  <2> DEFINE new == [start[s] EXCEPT !.pc = "look"]
  <2>2. new \in StartRecords /\ new.pc = "look" /\ new.open = {} /\ new.applied = start[s].applied
    BY <1>1, <2>1
  <2>3. start' = [start EXCEPT ![s] = new]
    BY <1>0, <2>1
  <2> HIDE DEF new
  <2>4. QED
    BY <1>2, <2>1, <2>2, <2>3, StartGoesOn
<1>7. ASSUME NEW s \in Starts, Migration!Look(s)
      PROVE  MigrationsInv'
  <2> DEFINE new == [pc |-> "apply", applied |-> recorded, open |-> {}]
  <2>1. /\ tracking = "ours" /\ start' = [start EXCEPT ![s] = new]
        /\ UNCHANGED <<tracking, recorded, schema, wasGoose>>
    BY <1>7 DEF Migration!Look
  <2>2. new \in StartRecords /\ new.pc = "apply" /\ new.open = {} /\ new.applied = recorded
    BY DEF MigrationsInv, MigrationShapes, StartRecords
  <2>3. \A v \in recorded : schema[v] > 0
    BY DEF MigrationsInv, AppliedTookEffect
  <2> HIDE DEF new
  <2>4. QED
    BY <2>1, <2>2, <2>3, StartGoesOn
<1>8. ASSUME NEW s \in Starts, Migration!Execute(s)
      PROVE  MigrationsInv'
  <2> DEFINE v == Migration!Min(Migration!Pending(s))
  <2>1. /\ start[s].pc = "apply" /\ start[s].open = {} /\ Migration!Pending(s) # {}
        /\ \A r \in Starts : start[r].open = {}
        /\ schema[v] < MaxRuns /\ start' = [start EXCEPT ![s].open = {v}]
        /\ UNCHANGED <<tracking, recorded, schema, wasGoose>>
    BY <1>8 DEF Migration!Execute
  <2>2. Migration!Pending(s) \in SUBSET Nat /\ Migration!Pending(s) \subseteq Versions
    BY VersionsAreNumbers
  <2>3. v \in Migration!Pending(s) /\ \A w \in Migration!Pending(s) : v <= w
    BY <2>1, <2>2, LeastNumber DEF Migration!Min
  <2> HIDE DEF v
  <2>4. /\ start'[s].open = {v} /\ start'[s].pc = "apply" /\ start'[s].applied = start[s].applied
        /\ start'[s] \in StartRecords
    BY <1>0, <2>1, <2>2, <2>3 DEF StartRecords
  <2>5. \A r \in Starts : r # s => start'[r] = start[r]
    BY <1>0, <2>1
  <2>6. MigrationShapes'
    BY <1>0, <2>1, <2>4 DEF MigrationsInv, MigrationShapes
  <2>7. \A r \in Starts : Migration!Pending(r)' = Migration!Pending(r)
    BY <2>4, <2>5 DEF Migration!Pending
  <2>8. OpenIsNext'
    BY <2>1, <2>3, <2>4, <2>5, <2>7 DEF OpenIsNext
  <2>9. AppliedTookEffect'
    BY <2>1, <2>4, <2>5, <2>7 DEF MigrationsInv, AppliedTookEffect
  <2>10. NothingIsDropped'
    BY <2>1, <2>4, <2>5 DEF MigrationsInv, NothingIsDropped
  <2>11. QED
    BY <2>6, <2>8, <2>9, <2>10 DEF MigrationsInv
<1>9. ASSUME NEW s \in Starts, Migration!Commit(s)
      PROVE  MigrationsInv'
  <2>1. /\ start[s].open # {} /\ tracking = "ours" /\ start[s].open \cap recorded = {}
        /\ recorded' = recorded \cup start[s].open
        /\ schema' = Migration!Took(start[s].open)
        /\ start' = [start EXCEPT ![s].applied = @ \cup start[s].open, ![s].open = {}]
        /\ UNCHANGED <<tracking, wasGoose>>
    BY <1>9 DEF Migration!Commit
  <2>2. PICK v \in Migration!Pending(s) :
            /\ start[s].open = {v} /\ schema[v] < MaxRuns
            /\ \A w \in Migration!Pending(s) : v <= w
    BY <2>1 DEF MigrationsInv, OpenIsNext
  <2>3. v \in Versions /\ v \in Nat /\ v \notin Blank /\ v \notin recorded
    BY <2>1, <2>2, VersionsAreNumbers DEF Migration!Pending
  <2>4. schema' \in [Versions -> 0..MaxRuns]
    BY <1>0, <2>1, <2>2, VersionsAreNumbers DEF Migration!Took
  <2>5. schema'[v] = schema[v] + 1 /\ \A w \in Versions : w # v => schema'[w] = schema[w]
    BY <2>1, <2>2, <2>3 DEF Migration!Took
  <2>6. \A w \in Versions : schema[w] > 0 => schema'[w] > 0
    BY <1>0, <2>3, <2>5, VersionsAreNumbers
  <2>7. schema'[v] > 0
    BY <1>0, <2>3, <2>5, VersionsAreNumbers
  <2>8. /\ start'[s].pc = start[s].pc /\ start'[s].open = {} /\ start[s].pc = "apply"
        /\ start'[s].applied = start[s].applied \cup {v} /\ start'[s] \in StartRecords
    <3> DEFINE done == [start[s] EXCEPT !.applied = start[s].applied \cup start[s].open]
    <3>1. start'[s] = [done EXCEPT !.open = {}]
      BY <1>0, <2>1
    <3>2. start[s].pc = "apply"
      BY <2>1 DEF MigrationsInv, OpenIsNext
    <3>3. done \in StartRecords /\ done.pc = start[s].pc /\ done.applied = start[s].applied \cup {v}
      BY <1>0, <2>2, <2>3 DEF StartRecords
    <3> HIDE DEF done
    <3>4. QED
      BY <3>1, <3>2, <3>3 DEF StartRecords
  <2>9. \A r \in Starts : r # s => start'[r] = start[r] /\ start[r].open = {}
    BY <1>0, <2>1 DEF MigrationsInv, OpenIsNext
  <2>10. MigrationShapes'
    <3>1. start' \in [Starts -> StartRecords]
      BY <1>0, <2>1, <2>8
    <3>2. QED
      BY <2>1, <2>2, <2>3, <2>4, <3>1 DEF MigrationsInv, MigrationShapes
  <2>11. OpenIsNext'
    BY <2>8, <2>9 DEF OpenIsNext
  <2>12. AppliedTookEffect'
    <3>1. \A w \in recorded' : schema'[w] > 0
      BY <2>1, <2>2, <2>6, <2>7 DEF MigrationsInv, AppliedTookEffect, MigrationShapes
    <3>2. \A r \in Starts : \A w \in start'[r].applied : schema'[w] > 0
      BY <1>0, <1>2, <2>6, <2>7, <2>8, <2>9 DEF StartRecords
    <3>3. \A r \in Starts : start'[r].pc = "up" => Migration!Pending(r)' = {}
      BY <2>8, <2>9 DEF MigrationsInv, AppliedTookEffect, Migration!Pending
    <3>4. ASSUME NEW u \in Migration!Real, NEW w \in Migration!Real, u < w, schema'[w] > 0
          PROVE  schema'[u] > 0
      <4>1. u \in Versions /\ w \in Versions
        BY DEF Migration!Real
      <4>2. CASE w # v
        BY <2>5, <2>6, <3>4, <4>1, <4>2 DEF MigrationsInv, AppliedTookEffect
      <4>3. CASE w = v
        <5>1. u \in Nat /\ u \notin Migration!Pending(s)
          <6>1. u < v /\ u \in Nat
            BY <3>4, <4>1, <4>3, VersionsAreNumbers
          <6>2. QED
            BY <2>2, <2>3, <6>1
        <5>2. u \in start[s].applied
          BY <4>1, <5>1 DEF Migration!Pending, Migration!Real
        <5>3. QED
          BY <1>2, <2>6, <4>1, <5>2
      <4>4. QED
        BY <4>2, <4>3
    <3>5. QED
      BY <3>1, <3>2, <3>3, <3>4 DEF AppliedTookEffect, Migration!Real
  <2>13. NothingIsDropped'
    <3>1. CASE wasGoose
      BY <2>1, <3>1 DEF NothingIsDropped
    <3>2. CASE ~wasGoose
      <4>1. schema[v] = 0
        BY <2>3, <3>2 DEF MigrationsInv, NothingIsDropped
      <4>2. \A w \in Versions : schema'[w] = (IF w \in recorded' THEN 1 ELSE 0)
        <5>1. \A w \in Versions : schema[w] = (IF w \in recorded THEN 1 ELSE 0)
          BY <3>2 DEF MigrationsInv, NothingIsDropped
        <5>2. recorded' = recorded \cup {v}
          BY <2>1, <2>2
        <5>3. QED
          BY <2>5, <4>1, <5>1, <5>2
      <4>3. QED
        BY <2>1, <2>8, <2>9, <3>2, <4>2 DEF MigrationsInv, NothingIsDropped
    <3>3. QED
      BY <3>1, <3>2
  <2>14. QED
    BY <2>10, <2>11, <2>12, <2>13 DEF MigrationsInv
<1>10. ASSUME NEW s \in Starts, Migration!Fail(s)
       PROVE  MigrationsInv'
  <2>1. /\ start' = [start EXCEPT ![s] = Migration!Idle] /\ schema' = Migration!Took({})
        /\ UNCHANGED <<tracking, recorded, wasGoose>>
    BY <1>10 DEF Migration!Fail, Migration!Survives
  <2>2. schema' = schema
    BY <1>0, <2>1 DEF Migration!Took
  <2>3. /\ Migration!Idle \in StartRecords /\ Migration!Idle.pc = "down"
        /\ Migration!Idle.open = {} /\ Migration!Idle.applied = {}
    BY DEF Migration!Idle, StartRecords
  <2>4. tracking \in {"absent", "goose", "ours"} /\ (~wasGoose => tracking # "goose")
    BY DEF MigrationsInv, MigrationShapes, NothingIsDropped
  <2>5. QED
    BY <2>1, <2>2, <2>3, <2>4, StartGoesOn
<1>11. ASSUME NEW s \in Starts, Migration!Up(s)
       PROVE  MigrationsInv'
  <2>1. /\ start[s].pc = "apply" /\ Migration!Pending(s) = {}
        /\ start' = [start EXCEPT ![s].pc = "up"]
        /\ UNCHANGED <<tracking, recorded, schema, wasGoose>>
    BY <1>11 DEF Migration!Up, Migration!Goes
  <2>2. start[s].open = {}
    BY <2>1 DEF MigrationsInv, OpenIsNext
  <2>3. /\ start'[s].pc = "up" /\ start'[s].open = {} /\ start'[s].applied = start[s].applied
        /\ start'[s] \in StartRecords
    BY <1>0, <2>1, <2>2 DEF StartRecords
  <2>4. \A r \in Starts : r # s => start'[r] = start[r]
    BY <1>0, <2>1
  <2>5. \A r \in Starts : Migration!Pending(r)' = Migration!Pending(r)
    BY <2>3, <2>4 DEF Migration!Pending
  <2>6. MigrationShapes'
    BY <1>0, <2>1, <2>3 DEF MigrationsInv, MigrationShapes
  <2>7. OpenIsNext'
    BY <2>1, <2>3, <2>4, <2>5 DEF MigrationsInv, OpenIsNext
  <2>8. AppliedTookEffect'
    BY <2>1, <2>3, <2>4, <2>5 DEF MigrationsInv, AppliedTookEffect
  <2>9. NothingIsDropped'
    BY <2>1, <2>3, <2>4 DEF MigrationsInv, NothingIsDropped
  <2>10. QED
    BY <2>6, <2>7, <2>8, <2>9 DEF MigrationsInv
<1>12. CASE UNCHANGED Migration!migrationVars
  BY <1>12 DEF Migration!migrationVars, MigrationsInv, MigrationShapes, OpenIsNext, AppliedTookEffect,
               NothingIsDropped, Migration!Pending
<1>13. QED
  BY <1>3, <1>4, <1>5, <1>6, <1>7, <1>8, <1>9, <1>10, <1>11, <1>12 DEF Migration!Next

\* However starts overlap, fail and are cut short: what is recorded took effect,
\* files take effect in order, an application that is up has them all, and on a
\* database that goose never had each took effect once.
THEOREM SchemaIsWholeTheorem == Migration!Spec => []SchemaIsWhole
<1>1. MigrationsInv => SchemaIsWhole
  <2> SUFFICES ASSUME MigrationsInv PROVE SchemaIsWhole
    OBVIOUS
  <2>1. \A s \in Starts : start[s] \in StartRecords /\ Cardinality(start[s].open) <= 1
    <3>1. ASSUME NEW s \in Starts
          PROVE  start[s].open = {} \/ \E v \in Versions : start[s].open = {v}
      BY VersionsAreNumbers DEF MigrationsInv, OpenIsNext
    <3>2. Cardinality({}) = 0 /\ \A v : Cardinality({v}) = 1
      BY FS_EmptySet, FS_Singleton
    <3>3. \A s \in Starts : Cardinality(start[s].open) \in {0, 1}
      BY <3>1, <3>2
    <3>4. QED
      BY <3>3 DEF MigrationsInv, MigrationShapes
  <2>2. Migration!MigrationsTypeOK
    BY <2>1, MigrationCardinality DEF MigrationsInv, MigrationShapes, StartRecords, Migration!MigrationsTypeOK
  <2>3. \A s \in Starts : start[s].pc = "up" => \A v \in Migration!Real : schema[v] > 0
    BY DEF MigrationsInv, AppliedTookEffect, Migration!Pending, Migration!Real
  <2>4. Migration!FilesTakeEffect
    BY <2>3 DEF MigrationsInv, AppliedTookEffect, NothingIsDropped, Migration!FilesTakeEffect
  <2>5. QED
    BY <2>2, <2>4 DEF SchemaIsWhole, Migration!SchemaIsWhole
<1>2. Migration!Init => MigrationsInv
  BY MigrationsInit
<1>3. MigrationsInv /\ [Migration!Next]_Migration!migrationVars => MigrationsInv'
  BY MigrationsStep
<1>4. QED
  BY <1>1, <1>2, <1>3, PTL DEF Migration!Spec

-----------------------------------------------------------------------------
(* The limiter of logins.  What is kept for an address are the last of its  *)
(* wrong passwords; those that are not kept are out of the window.          *)

LEMMA LimiterCardinality == \A S : Limiter!Cardinality(S) = Cardinality(S)
BY DEF Limiter!Cardinality, Cardinality

\* list is the end of w, and what w has before it is no later than limit.
EndOf(list, w, limit) ==
    \E e \in 0..Len(w) :
        /\ Len(list) = Len(w) - e
        /\ \A i \in 1..Len(list) : list[i] = w[e + i]
        /\ \A i \in 1..e : w[i] <= limit

\* What is kept of the wrong passwords of k.
Keeps(list, k) == EndOf(list, wrong[k], now - Window)

LimiterInv ==
    /\ now \in 0..MaxNow /\ called \in 0..now
    /\ keys \subseteq Addresses
    /\ failures \in [Addresses -> Seq(Nat)]
    /\ wrong \in [Addresses -> Seq(Nat)]
    /\ \A k \in Addresses : \A i \in 1..Len(wrong[k]) :
          /\ wrong[k][i] <= now
          /\ \A j \in 1..Len(wrong[k]) : i <= j => wrong[k][i] <= wrong[k][j]
    /\ \A k \in Addresses : Keeps(failures[k], k)
    /\ Limiter!GuessesAreBounded
    /\ Limiter!KeysAreDropped

\* A set of positions with all that are before them.
LEMMA InitialPositions ==
    ASSUME NEW n \in Nat, NEW D \in SUBSET (1..n),
           \A i \in D : \A j \in 1..i : j \in D
    PROVE  Cardinality(D) \in 0..n /\ D = 1..Cardinality(D)
<1> DEFINE T == {c \in Nat : c + 1 \notin D}
<1>1. T \in SUBSET Nat /\ n \in T
  OBVIOUS
<1>2. PICK c \in T : \A m \in T : c <= m
  BY <1>1, LeastNumber
<1>3. c \in Nat /\ c <= n /\ c + 1 \notin D
  BY <1>1, <1>2
<1>4. ASSUME NEW i \in 1..c PROVE i \in D
  <2>1. i - 1 \in Nat /\ ~(c <= i - 1)
    BY <1>3
  <2>2. i - 1 \notin T
    BY <1>2, <2>1
  <2>3. (i - 1) + 1 \in D
    BY <2>1, <2>2
  <2>4. (i - 1) + 1 = i
    BY <2>1
  <2>5. QED
    BY <2>3, <2>4
<1>5. ASSUME NEW i \in D PROVE i \in 1..c
  <2>1. i \in 1..n
    OBVIOUS
  <2>2. ~(c + 1 <= i)
    <3>1. c + 1 <= i => c + 1 \in 1..i
      BY <1>3, <2>1
    <3>2. QED
      BY <1>3, <3>1
  <2>3. QED
    BY <1>3, <2>1, <2>2
<1>6. D = 1..c
  BY <1>4, <1>5
<1>7. Cardinality(1..c) = c
  BY <1>3, FS_Interval
<1>8. QED
  BY <1>3, <1>6, <1>7

\* What _recent leaves is the end of what it found, and what it drops is old.
LEMMA RecentKeeps ==
    ASSUME Limiter!LimiterAssumption, LimiterInv, NEW k \in Addresses
    PROVE  /\ Limiter!Recent(k) \in Seq(Nat)
           /\ Keeps(Limiter!Recent(k), k)
           /\ Limiter!Stale(k) => Keeps(<<>>, k)
           /\ Limiter!Recent(k) # <<>> => Limiter!Last(Limiter!Recent(k)) > now - Window
<1>1. /\ failures[k] \in Seq(Nat) /\ wrong[k] \in Seq(Nat)
      /\ now \in Int /\ Window \in Nat
  BY DEF LimiterInv, Limiter!LimiterAssumption
<1>2. PICK f \in Seq(Nat), w \in Seq(Nat) : f = failures[k] /\ w = wrong[k]
  BY <1>1
<1>3. PICK l \in Nat, n \in Nat : l = Len(f) /\ n = Len(w)
  OBVIOUS
<1>4. PICK e \in 0..n :
         /\ l = n - e
         /\ \A i \in 1..l : f[i] = w[e + i]
         /\ \A i \in 1..e : w[i] <= now - Window
  BY <1>2, <1>3 DEF LimiterInv, Keeps, EndOf
<1>5. \A i, j \in 1..n : i <= j => w[i] <= w[j]
  BY <1>2, <1>3 DEF LimiterInv
<1>6. \A i \in 1..n : w[i] \in Nat
  BY <1>3
<1>7. Limiter!Stale(k) => Keeps(<<>>, k)
  <2> SUFFICES ASSUME Limiter!Stale(k) PROVE Keeps(<<>>, k)
    OBVIOUS
  <2>1. f # <<>> /\ f[l] <= now - Window
    BY <1>2, <1>3 DEF Limiter!Stale, Limiter!Last
  <2>2. l \in 1..l /\ e + l = n /\ n \in 1..n
    <3>1. l # 0
      BY <1>3, <2>1, EmptySeq
    <3>2. QED
      BY <1>4, <3>1
  <2>3. w[n] <= now - Window
    BY <1>4, <2>1, <2>2
  <2>4. \A i \in 1..n : w[i] <= now - Window
    <3> SUFFICES ASSUME NEW i \in 1..n PROVE w[i] <= now - Window
      OBVIOUS
    <3>1. w[i] <= w[n] /\ w[i] \in Int /\ w[n] \in Int
      BY <1>5, <1>6, <2>2
    <3>2. QED
      BY <1>1, <2>3, <3>1
  <2>5. /\ Len(<<>>) = 0 /\ n \in 0..n /\ 0 = n - n
        /\ \A i \in 1..0 : FALSE
    OBVIOUS
  <2>6. QED
    BY <1>2, <1>3, <2>4, <2>5 DEF Keeps, EndOf
<1>8. CASE Limiter!Stale(k)
  <2>1. Limiter!Recent(k) = <<>> /\ <<>> \in Seq(Nat)
    BY <1>8 DEF Limiter!Recent
  <2>2. QED
    BY <1>7, <1>8, <2>1
<1>9. CASE ~Limiter!Stale(k)
  <2> DEFINE D == Limiter!Old(k)
  <2>1. D = {i \in 1..l : \A j \in 1..i : f[j] <= now - Window}
    BY <1>2, <1>3 DEF Limiter!Old
  <2>2. D \in SUBSET (1..l) /\ \A i \in D : \A j \in 1..i : j \in D
    BY <2>1
  <2> HIDE DEF D
  <2>3. Cardinality(D) \in 0..l /\ D = 1..Cardinality(D)
    BY <2>2, InitialPositions
  <2>4. PICK c \in 0..l : c = Cardinality(D)
    BY <2>3
  <2>5. Limiter!Recent(k) = SubSeq(f, c + 1, l)
    BY <1>2, <1>3, <1>9, <2>4, LimiterCardinality DEF Limiter!Recent, D
  <2>6. /\ SubSeq(f, c + 1, l) \in Seq(Nat)
        /\ Len(SubSeq(f, c + 1, l)) = l - c
        /\ \A i \in 1..l - c : SubSeq(f, c + 1, l)[i] = f[c + i]
    <3>1. c + 1 \in Int /\ l \in Int /\ \A i \in c+1 .. l : f[i] \in Nat
      BY <1>3, <2>4
    <3>2. /\ SubSeq(f, c + 1, l) \in Seq(Nat)
          /\ Len(SubSeq(f, c + 1, l)) = IF c + 1 <= l THEN l - (c + 1) + 1 ELSE 0
          /\ \A i \in 1 .. l - (c + 1) + 1 : SubSeq(f, c + 1, l)[i] = f[c + 1 + i - 1]
      BY <3>1, SubSeqProperties
    <3>3. QED
      BY <2>4, <3>2
  <2>7. \A i \in 1..c : f[i] <= now - Window
    BY <2>1, <2>3, <2>4
  <2>8. PICK d \in 0..n : d = e + c /\ l - c = n - d
    BY <1>3, <1>4
  <2>9. \A i \in 1..l - c : f[c + i] = w[d + i]
    <3> SUFFICES ASSUME NEW i \in 1..l - c PROVE f[c + i] = w[d + i]
      OBVIOUS
    <3>1. c + i \in 1..l /\ e + (c + i) = d + i
      BY <1>4, <2>8
    <3>2. QED
      BY <1>4, <3>1
  <2>10. \A i \in 1..d : w[i] <= now - Window
    <3> SUFFICES ASSUME NEW i \in 1..d PROVE w[i] <= now - Window
      OBVIOUS
    <3>1. CASE i <= e
      BY <1>4, <3>1
    <3>2. CASE i > e
      <4>1. i - e \in 1..c /\ i - e \in 1..l /\ e + (i - e) = i
        BY <1>4, <2>4, <2>8, <3>2
      <4>2. QED
        BY <1>4, <2>7, <4>1
    <3>3. QED
      BY <1>4, <3>1, <3>2
  <2> DEFINE r == Limiter!Recent(k)
  <2>11. r \in Seq(Nat) /\ Len(r) = n - d /\ \A i \in 1..Len(r) : r[i] = w[d + i]
    BY <2>5, <2>6, <2>8, <2>9
  <2> HIDE DEF r
  <2>12. Keeps(r, k)
    BY <1>2, <1>3, <2>10, <2>11 DEF Keeps, EndOf
  <2>13. ASSUME r # <<>> PROVE Limiter!Last(r) > now - Window
    <3>1. l - c \in Nat /\ Len(r) = l - c /\ l - c # 0
      BY <2>4, <2>8, <2>11, <2>13, EmptySeq
    <3>2. l - c \in 1..l - c /\ c + (l - c) = l /\ l \in 1..l
      BY <2>4, <3>1
    <3>3. r[Len(r)] = f[l]
      BY <2>5, <2>6, <3>1, <3>2 DEF r
    <3>4. f # <<>>
      BY <1>3, <3>2
    <3>5. ~(f[l] <= now - Window) /\ f[l] \in Nat
      <4>1. f[l] \in Nat
        BY <1>2, <1>3, <3>2, ElementOfSeq
      <4>2. f[l] <= now - Window => Limiter!Stale(k)
        BY <1>2, <1>3, <3>4 DEF Limiter!Stale, Limiter!Last
      <4>3. QED
        BY <1>9, <4>1, <4>2
    <3>6. QED
      BY <1>1, <3>3, <3>5 DEF Limiter!Last
  <2>14. QED
    BY <1>7, <2>11, <2>12, <2>13 DEF r
<1>10. QED
  BY <1>7, <1>8, <1>9

\* What is kept after a call, of the address itself and of all others.
LEMMA KeepKeeps ==
    ASSUME Limiter!LimiterAssumption, LimiterInv, NEW k \in Addresses,
           NEW list \in Seq(Nat), Limiter!Keep(k, list)
    PROVE  /\ failures' \in [Addresses -> Seq(Nat)]
           /\ failures'[k] = list
           /\ \A j \in Addresses : j # k => Keeps(failures'[j], j)
           /\ \A j \in keys' : j \in Addresses /\
                 (j # k => failures'[j] # <<>> /\ Limiter!Last(failures'[j]) > now - Window)
<1>1. /\ keys' = {j \in keys : ~Limiter!Stale(j)} \cup {k}
      /\ failures' = [j \in Addresses |->
                         IF j = k THEN list ELSE IF Limiter!Stale(j) THEN <<>> ELSE failures[j]]
  BY DEF Limiter!Keep
<1>2. <<>> \in Seq(Nat) /\ \A j \in Addresses : failures[j] \in Seq(Nat)
  BY DEF LimiterInv
<1>3. failures' \in [Addresses -> Seq(Nat)] /\ failures'[k] = list
  BY <1>1, <1>2
<1>4. ASSUME NEW j \in Addresses, j # k
      PROVE  Keeps(failures'[j], j)
  <2>1. CASE Limiter!Stale(j)
    BY <1>1, <1>4, <2>1, RecentKeeps
  <2>2. CASE ~Limiter!Stale(j)
    BY <1>1, <1>4, <2>2 DEF LimiterInv
  <2>3. QED
    BY <2>1, <2>2
<1>5. ASSUME NEW j \in keys', j # k
      PROVE  j \in Addresses /\ failures'[j] # <<>> /\ Limiter!Last(failures'[j]) > now - Window
  <2>1. j \in keys /\ j \in Addresses /\ ~Limiter!Stale(j) /\ failures'[j] = failures[j]
    BY <1>1, <1>5 DEF LimiterInv
  <2>2. failures[j] # <<>>
    BY <2>1 DEF LimiterInv, Limiter!KeysAreDropped
  <2>3. PICK m \in Nat \ {0} : m = Len(failures[j])
    BY <1>2, <2>1, <2>2, EmptySeq
  <2>3a. failures[j][m] \in Nat
    BY <1>2, <2>1, <2>3, ElementOfSeq
  <2>4. ~(Limiter!Last(failures[j]) <= now - Window) /\ Limiter!Last(failures[j]) \in Nat
    BY <2>1, <2>2, <2>3, <2>3a DEF Limiter!Stale, Limiter!Last
  <2>5. now \in Int /\ Window \in Int
    BY DEF LimiterInv, Limiter!LimiterAssumption
  <2>6. QED
    BY <2>1, <2>2, <2>4, <2>5
<1>6. k \in Addresses
  OBVIOUS
<1>7. QED
  BY <1>3, <1>4, <1>5, <1>6

LEMMA LimiterInit ==
    ASSUME Limiter!LimiterAssumption, Limiter!Init
    PROVE  LimiterInv
<1>1. /\ now = 0 /\ called = 0 /\ keys = {}
      /\ failures = [k \in Addresses |-> <<>>]
      /\ wrong = [k \in Addresses |-> <<>>]
  BY DEF Limiter!Init
<1>2. <<>> \in Seq(Nat) /\ Len(<<>>) = 0 /\ DOMAIN <<>> = {}
  OBVIOUS
<1>3. \A k \in Addresses : Keeps(failures[k], k)
  <2>1. /\ 0 \in 0..Len(<<>>) /\ Len(<<>>) = Len(<<>>) - 0
        /\ \A i \in 1..0 : FALSE
    BY <1>2
  <2>2. EndOf(<<>>, <<>>, now - Window)
    BY <1>2, <2>1 DEF EndOf
  <2>3. QED
    BY <1>1, <2>2 DEF Keeps
<1>4. /\ now \in 0..MaxNow /\ called \in 0..now /\ keys \subseteq Addresses
      /\ failures \in [Addresses -> Seq(Nat)] /\ wrong \in [Addresses -> Seq(Nat)]
  BY <1>1, <1>2 DEF Limiter!LimiterAssumption
<1>5. Limiter!GuessesAreBounded /\ Limiter!KeysAreDropped
  BY <1>1, <1>2 DEF Limiter!GuessesAreBounded, Limiter!Bounded, Limiter!KeysAreDropped
<1>6. \A k \in Addresses : \A i \in 1..Len(wrong[k]) :
         /\ wrong[k][i] <= now
         /\ \A j \in 1..Len(wrong[k]) : i <= j => wrong[k][i] <= wrong[k][j]
  BY <1>1, <1>2
<1>7. QED
  BY <1>3, <1>4, <1>5, <1>6 DEF LimiterInv

\* A password is only compared when enough of the wrong ones before it are out
\* of the window.
LEMMA GuessIsLate ==
    ASSUME Limiter!LimiterAssumption, LimiterInv, NEW k \in Addresses, ~Limiter!Blocked(k),
           NEW i \in 1..Len(wrong[k]), i + MaxFailures = Len(wrong[k]) + 1
    PROVE  wrong[k][i] <= now - Window
<1>1. PICK r : r = Limiter!Recent(k)
  OBVIOUS
<1>2. r \in Seq(Nat) /\ EndOf(r, wrong[k], now - Window) /\ Len(r) < MaxFailures
  <2>1. r \in Seq(Nat) /\ ~(Len(r) >= MaxFailures)
    BY <1>1, RecentKeeps DEF Limiter!Blocked
  <2>2. QED
    BY <1>1, <2>1, RecentKeeps DEF Keeps, Limiter!LimiterAssumption
<1>3. PICK e \in 0..Len(wrong[k]) :
         /\ Len(r) = Len(wrong[k]) - e
         /\ \A j \in 1..e : wrong[k][j] <= now - Window
  BY <1>2 DEF EndOf
<1>4. Len(wrong[k]) \in Nat /\ MaxFailures \in Nat
  BY DEF LimiterInv, Limiter!LimiterAssumption
<1>5. i \in 1..e
  BY <1>2, <1>3, <1>4
<1>6. QED
  BY <1>3, <1>5

\* A call that leaves list for k, after which the wrong passwords of k are w.
LEMMA LimiterCall ==
    ASSUME Limiter!LimiterAssumption, LimiterInv, NEW k \in Addresses,
           NEW list \in Seq(Nat), NEW w \in Seq(Nat),
           Limiter!Keep(k, list),
           list # <<>>, Limiter!Last(list) > now - Window,
           EndOf(list, w, now - Window),
           \A i \in 1..Len(w) : w[i] <= now /\ \A j \in 1..Len(w) : i <= j => w[i] <= w[j],
           \A i \in 1..Len(w) : i + MaxFailures \in 1..Len(w) => w[i + MaxFailures] - w[i] >= Window,
           wrong' = [wrong EXCEPT ![k] = w], called' = now, now' = now
    PROVE  LimiterInv'
<1>1. /\ failures' \in [Addresses -> Seq(Nat)] /\ failures'[k] = list
      /\ \A j \in Addresses : j # k => Keeps(failures'[j], j)
      /\ \A j \in keys' : j \in Addresses /\
            (j # k => failures'[j] # <<>> /\ Limiter!Last(failures'[j]) > now - Window)
  BY KeepKeeps
<1>2. /\ wrong' \in [Addresses -> Seq(Nat)] /\ wrong'[k] = w
      /\ \A j \in Addresses : j # k => wrong'[j] = wrong[j]
  BY DEF LimiterInv
<1>3. /\ now' \in 0..MaxNow /\ called' \in 0..now' /\ keys' \subseteq Addresses
  BY <1>1 DEF LimiterInv
<1>4. \A j \in Addresses : EndOf(failures'[j], wrong'[j], now' - Window)
  BY <1>1, <1>2 DEF Keeps
<1>5. \A j \in Addresses : \A i \in 1..Len(wrong'[j]) :
          /\ wrong'[j][i] <= now'
          /\ \A m \in 1..Len(wrong'[j]) : i <= m => wrong'[j][i] <= wrong'[j][m]
  BY <1>2 DEF LimiterInv
<1>6. Limiter!GuessesAreBounded'
  <2>1. \A j \in Addresses : DOMAIN wrong'[j] = 1..Len(wrong'[j]) /\ DOMAIN wrong[j] = 1..Len(wrong[j])
    BY <1>2 DEF LimiterInv
  <2>2. \A j \in Addresses : \A i \in DOMAIN wrong[j] :
           i + MaxFailures \in DOMAIN wrong[j] => wrong[j][i + MaxFailures] - wrong[j][i] >= Window
    BY DEF LimiterInv, Limiter!GuessesAreBounded, Limiter!Bounded
  <2>3. \A j \in Addresses : \A i \in DOMAIN wrong'[j] :
           i + MaxFailures \in DOMAIN wrong'[j] => wrong'[j][i + MaxFailures] - wrong'[j][i] >= Window
    BY <1>2, <2>1, <2>2
  <2>4. QED
    BY <2>3 DEF Limiter!GuessesAreBounded, Limiter!Bounded
<1>7. Limiter!KeysAreDropped'
  <2>1. \A j \in keys' : failures'[j] # <<>> /\ Limiter!Last(failures'[j]) > called' - Window
    BY <1>1
  <2>2. QED
    BY <2>1 DEF Limiter!KeysAreDropped, Limiter!Last
<1>8. QED
  BY <1>1, <1>2, <1>3, <1>4, <1>5, <1>6, <1>7 DEF LimiterInv, Keeps

LEMMA LimiterStep ==
    ASSUME Limiter!LimiterAssumption, LimiterInv, [Limiter!Next]_Limiter!limiterVars
    PROVE  LimiterInv'
<1>0. /\ now \in Nat /\ now <= MaxNow /\ called \in 0..now /\ keys \subseteq Addresses
      /\ MaxFailures \in Nat \ {0} /\ Window \in Nat \ {0} /\ MaxNow \in Nat
      /\ failures \in [Addresses -> Seq(Nat)] /\ wrong \in [Addresses -> Seq(Nat)]
  BY DEF LimiterInv, Limiter!LimiterAssumption
<1>1. ASSUME NEW k \in Addresses, Limiter!Refuse(k)
      PROVE  LimiterInv'
  <2>1. PICK r \in Seq(Nat) : r = Limiter!Recent(k)
    BY RecentKeeps
  <2>2. /\ Len(r) >= MaxFailures /\ Limiter!Keep(k, r)
        /\ called' = now /\ now' = now /\ wrong' = wrong
    BY <1>1, <2>1 DEF Limiter!Refuse, Limiter!Blocked
  <2>3. r # <<>>
    BY <1>0, <2>2
  <2>4. EndOf(r, wrong[k], now - Window) /\ Limiter!Last(r) > now - Window
    BY <2>1, <2>3, RecentKeeps DEF Keeps
  <2>5. wrong[k] \in Seq(Nat) /\ wrong' = [wrong EXCEPT ![k] = wrong[k]]
    BY <1>0, <2>2
  <2>6. \A i \in 1..Len(wrong[k]) : /\ wrong[k][i] <= now
           /\ \A j \in 1..Len(wrong[k]) : i <= j => wrong[k][i] <= wrong[k][j]
    BY DEF LimiterInv
  <2>7. \A i \in 1..Len(wrong[k]) : i + MaxFailures \in 1..Len(wrong[k]) =>
           wrong[k][i + MaxFailures] - wrong[k][i] >= Window
    <3>1. DOMAIN wrong[k] = 1..Len(wrong[k])
      BY <2>5
    <3>2. QED
      BY <3>1 DEF LimiterInv, Limiter!GuessesAreBounded, Limiter!Bounded
  <2>8. QED
    BY <2>2, <2>3, <2>4, <2>5, <2>6, <2>7, LimiterCall
<1>2. ASSUME NEW k \in Addresses, Limiter!WrongPassword(k)
      PROVE  LimiterInv'
  <2>1. PICK r \in Seq(Nat), w \in Seq(Nat) : r = Limiter!Recent(k) /\ w = wrong[k]
    BY <1>0, RecentKeeps
  <2>2. /\ Limiter!Keep(k, Append(r, now)) /\ wrong' = [wrong EXCEPT ![k] = Append(w, now)]
        /\ called' = now /\ now' = now /\ ~Limiter!Blocked(k)
    BY <1>2, <2>1 DEF Limiter!WrongPassword
  <2>3. PICK l \in Nat, n \in Nat : l = Len(r) /\ n = Len(w)
    OBVIOUS
  <2>4. PICK e \in 0..n :
           /\ l = n - e
           /\ \A i \in 1..l : r[i] = w[e + i]
           /\ \A i \in 1..e : w[i] <= now - Window
    BY <2>1, <2>3, RecentKeeps DEF Keeps, EndOf
  <2> DEFINE s == Append(r, now)
             v == Append(w, now)
  <2>5. /\ s \in Seq(Nat) /\ v \in Seq(Nat) /\ Len(s) = l + 1 /\ Len(v) = n + 1
        /\ s[l + 1] = now /\ v[n + 1] = now
        /\ \A i \in 1..l : s[i] = r[i]
        /\ \A i \in 1..n : v[i] = w[i]
    BY <1>0, <2>3
  <2> HIDE DEF s, v
  <2>6. s # <<>> /\ Limiter!Last(s) > now - Window
    BY <1>0, <2>3, <2>5 DEF Limiter!Last
  <2>7. EndOf(s, v, now - Window)
    <3>1. e \in 0..Len(v) /\ Len(s) = Len(v) - e
      BY <2>3, <2>4, <2>5
    <3>2. ASSUME NEW i \in 1..Len(s) PROVE s[i] = v[e + i]
      <4>1. CASE i = l + 1
        <5>1. e + i = n + 1
          BY <2>4, <4>1
        <5>2. QED
          BY <2>5, <4>1, <5>1
      <4>2. CASE i # l + 1
        <5>1. i \in 1..l /\ e + i \in 1..n
          <6>1. i \in 1..l + 1
            BY <2>5
          <6>2. QED
            BY <2>4, <4>2, <6>1
        <5>2. QED
          BY <2>4, <2>5, <5>1
      <4>3. QED
        BY <4>1, <4>2
    <3>3. ASSUME NEW i \in 1..e PROVE v[i] <= now - Window
      <4>1. i \in 1..n
        BY <2>4
      <4>2. QED
        BY <2>4, <2>5, <4>1
    <3>4. QED
      BY <3>1, <3>2, <3>3 DEF EndOf
  <2>8. \A i \in 1..n : w[i] \in Nat /\ w[i] <= now /\ \A j \in 1..n : i <= j => w[i] <= w[j]
    <3>1. \A i \in 1..n : w[i] \in Nat
      BY <2>1, <2>3
    <3>2. \A i \in 1..n : w[i] <= now /\ \A j \in 1..n : i <= j => w[i] <= w[j]
      <4>1. \A i \in 1..Len(wrong[k]) :
               /\ wrong[k][i] <= now
               /\ \A j \in 1..Len(wrong[k]) : i <= j => wrong[k][i] <= wrong[k][j]
        BY DEF LimiterInv
      <4>2. QED
        BY <2>1, <2>3, <4>1
    <3>3. QED
      BY <3>1, <3>2
  <2>9. ASSUME NEW i \in 1..Len(v)
        PROVE  v[i] <= now /\ \A j \in 1..Len(v) : i <= j => v[i] <= v[j]
    <3>1. v[i] <= now
      <4>1. i \in 1..n + 1
        BY <2>5
      <4>2. CASE i = n + 1
        BY <1>0, <2>5, <4>2
      <4>3. CASE i # n + 1
        <5>1. i \in 1..n
          BY <4>1, <4>3
        <5>2. QED
          BY <2>5, <2>8, <5>1
      <4>4. QED
        BY <4>2, <4>3
    <3>2. ASSUME NEW j \in 1..Len(v), i <= j PROVE v[i] <= v[j]
      <4>1. CASE j = n + 1
        BY <2>5, <3>1, <4>1
      <4>2. CASE j # n + 1
        <5>1. i \in 1..n /\ j \in 1..n
          BY <2>5, <3>2, <4>2
        <5>2. QED
          BY <2>5, <2>8, <3>2, <5>1
      <4>3. QED
        BY <4>1, <4>2
    <3>3. QED
      BY <3>1, <3>2
  <2>10. ASSUME NEW i \in 1..Len(v), i + MaxFailures \in 1..Len(v)
         PROVE  v[i + MaxFailures] - v[i] >= Window
    <3>1. i \in Nat /\ i \in 1..n
      BY <1>0, <2>5, <2>10
    <3>2. CASE i + MaxFailures = n + 1
      <4>1. w[i] <= now - Window
        BY <2>1, <2>2, <2>3, <3>1, <3>2, GuessIsLate
      <4>2. v[i + MaxFailures] = now /\ v[i] = w[i]
        BY <2>5, <3>1, <3>2
      <4>3. QED
        BY <1>0, <2>8, <3>1, <4>1, <4>2
    <3>3. CASE i + MaxFailures # n + 1
      <4>1. i + MaxFailures \in 1..n
        BY <1>0, <2>5, <2>10, <3>3
      <4>2. w[i + MaxFailures] - w[i] >= Window
        <5>1. DOMAIN w = 1..n
          BY <2>3
        <5>2. QED
          BY <2>1, <3>1, <4>1, <5>1 DEF LimiterInv, Limiter!GuessesAreBounded, Limiter!Bounded
      <4>3. QED
        BY <2>5, <3>1, <4>1, <4>2
    <3>4. QED
      BY <3>2, <3>3
  <2>11. Limiter!Keep(k, s) /\ wrong' = [wrong EXCEPT ![k] = v]
    BY <2>2 DEF s, v
  <2>12. QED
    BY <2>2, <2>5, <2>6, <2>7, <2>9, <2>10, <2>11, LimiterCall
<1>3. ASSUME NEW k \in Addresses, Limiter!Login(k)
      PROVE  LimiterInv'
  <2>1. /\ keys' = {j \in keys : ~Limiter!Stale(j)} \ {k}
        /\ failures' = [j \in Addresses |-> IF j = k \/ Limiter!Stale(j) THEN <<>> ELSE failures[j]]
        /\ wrong' = [wrong EXCEPT ![k] = <<>>]
        /\ called' = now /\ now' = now
    BY <1>3 DEF Limiter!Login
  <2>2. <<>> \in Seq(Nat) /\ Len(<<>>) = 0 /\ DOMAIN <<>> = {}
    OBVIOUS
  <2>3. /\ failures' \in [Addresses -> Seq(Nat)] /\ failures'[k] = <<>>
        /\ wrong' \in [Addresses -> Seq(Nat)] /\ wrong'[k] = <<>>
        /\ \A j \in Addresses : j # k => wrong'[j] = wrong[j]
    BY <1>0, <2>1, <2>2
  <2>4. now' \in 0..MaxNow /\ called' \in 0..now' /\ keys' \subseteq Addresses
    BY <1>0, <2>1
  <2>5. ASSUME NEW j \in Addresses PROVE EndOf(failures'[j], wrong'[j], now' - Window)
    <3>1. CASE j = k
      <4>1. /\ 0 \in 0..Len(<<>>) /\ Len(<<>>) = Len(<<>>) - 0
            /\ \A i \in 1..0 : FALSE
        BY <2>2
      <4>2. EndOf(<<>>, <<>>, now' - Window)
        BY <2>2, <4>1 DEF EndOf
      <4>3. QED
        BY <2>3, <3>1, <4>2
    <3>2. CASE j # k /\ Limiter!Stale(j)
      <4>1. EndOf(<<>>, wrong[j], now - Window)
        BY <3>2, RecentKeeps DEF Keeps
      <4>2. QED
        BY <2>1, <2>3, <3>2, <4>1
    <3>3. CASE j # k /\ ~Limiter!Stale(j)
      <4>1. EndOf(failures[j], wrong[j], now - Window)
        BY DEF LimiterInv, Keeps
      <4>2. QED
        BY <2>1, <2>3, <3>3, <4>1
    <3>4. QED
      BY <3>1, <3>2, <3>3
  <2>6. \A j \in Addresses : \A i \in 1..Len(wrong'[j]) :
            /\ wrong'[j][i] <= now'
            /\ \A m \in 1..Len(wrong'[j]) : i <= m => wrong'[j][i] <= wrong'[j][m]
    BY <2>1, <2>2, <2>3 DEF LimiterInv
  <2>7. Limiter!GuessesAreBounded'
    <3>1. \A j \in Addresses : \A i \in DOMAIN wrong'[j] :
             i + MaxFailures \in DOMAIN wrong'[j] => wrong'[j][i + MaxFailures] - wrong'[j][i] >= Window
      BY <2>2, <2>3 DEF LimiterInv, Limiter!GuessesAreBounded, Limiter!Bounded
    <3>2. QED
      BY <3>1 DEF Limiter!GuessesAreBounded, Limiter!Bounded
  <2>8. Limiter!KeysAreDropped'
    <3>1. ASSUME NEW j \in keys'
          PROVE  failures'[j] # <<>> /\ Limiter!Last(failures'[j]) > called' - Window
      <4>1. j \in keys /\ j \in Addresses /\ j # k /\ ~Limiter!Stale(j) /\ failures'[j] = failures[j]
        BY <1>0, <2>1, <3>1
      <4>2. failures[j] # <<>> /\ failures[j] \in Seq(Nat)
        BY <1>0, <4>1 DEF LimiterInv, Limiter!KeysAreDropped
      <4>3. Limiter!Last(failures[j]) \in Nat
        <5>1. PICK m \in Nat \ {0} : m = Len(failures[j])
          BY <4>2, EmptySeq
        <5>2. QED
          BY <4>2, <5>1, ElementOfSeq DEF Limiter!Last
      <4>4. ~(Limiter!Last(failures[j]) <= now - Window)
        BY <4>1, <4>2 DEF Limiter!Stale
      <4>5. QED
        BY <1>0, <2>1, <4>1, <4>2, <4>3, <4>4
    <3>2. QED
      BY <3>1 DEF Limiter!KeysAreDropped, Limiter!Last
  <2>9. QED
    BY <2>3, <2>4, <2>5, <2>6, <2>7, <2>8 DEF LimiterInv, Keeps
<1>4. ASSUME Limiter!Tick
      PROVE  LimiterInv'
  <2>1. /\ now < MaxNow /\ now' = now + 1
        /\ failures' = failures /\ keys' = keys /\ wrong' = wrong /\ called' = called
    BY <1>4 DEF Limiter!Tick
  <2>2. now' \in 0..MaxNow /\ called' \in 0..now'
    BY <1>0, <2>1
  <2>3. ASSUME NEW j \in Addresses
        PROVE  /\ EndOf(failures[j], wrong[j], now' - Window)
               /\ \A i \in 1..Len(wrong[j]) : wrong[j][i] <= now'
    <3>1. PICK w \in Seq(Nat) : w = wrong[j]
      BY <1>0
    <3>2. PICK n \in Nat : n = Len(w) /\ \A i \in 1..n : w[i] \in Nat
      BY <3>1
    <3>3. EndOf(failures[j], w, now - Window) /\ \A i \in 1..n : w[i] <= now
      BY <3>1, <3>2 DEF LimiterInv, Keeps
    <3>4. PICK e \in 0..n :
             /\ Len(failures[j]) = n - e
             /\ \A i \in 1..Len(failures[j]) : failures[j][i] = w[e + i]
             /\ \A i \in 1..e : w[i] <= now - Window
      BY <3>2, <3>3 DEF EndOf
    <3>5. \A i \in 1..e : w[i] <= now' - Window
      <4>1. \A i \in 1..e : i \in 1..n
        BY <3>2
      <4>2. QED
        BY <1>0, <2>1, <3>2, <3>4, <4>1
    <3>6. \A i \in 1..n : w[i] <= now'
      BY <1>0, <2>1, <3>2, <3>3
    <3>7. QED
      BY <3>1, <3>2, <3>4, <3>5, <3>6 DEF EndOf
  <2>4. Limiter!GuessesAreBounded' /\ Limiter!KeysAreDropped'
    BY <2>1 DEF LimiterInv, Limiter!GuessesAreBounded, Limiter!Bounded, Limiter!KeysAreDropped, Limiter!Last
  <2>5. \A j \in Addresses : EndOf(failures'[j], wrong'[j], now' - Window)
    BY <2>1, <2>3
  <2>6. \A j \in Addresses : \A i \in 1..Len(wrong'[j]) :
            /\ wrong'[j][i] <= now'
            /\ \A m \in 1..Len(wrong'[j]) : i <= m => wrong'[j][i] <= wrong'[j][m]
    BY <2>1, <2>3 DEF LimiterInv
  <2>7. QED
    BY <1>0, <2>1, <2>2, <2>4, <2>5, <2>6 DEF LimiterInv, Keeps
<1>5. ASSUME UNCHANGED Limiter!limiterVars
      PROVE  LimiterInv'
  BY <1>5 DEF Limiter!limiterVars, LimiterInv, Keeps, Limiter!GuessesAreBounded, Limiter!Bounded,
              Limiter!KeysAreDropped, Limiter!Last
<1>6. QED
  BY <1>1, <1>2, <1>3, <1>4, <1>5 DEF Limiter!Next

\* What the limiter is for, from what it keeps.
LEMMA LimiterGoal ==
    ASSUME Limiter!LimiterAssumption, LimiterInv
    PROVE  LimiterHolds
<1>1. ASSUME NEW k \in Addresses, NEW i \in DOMAIN failures[k]
      PROVE  failures[k][i] \in 0..MaxNow
  <2>1. PICK f \in Seq(Nat), w \in Seq(Nat) : f = failures[k] /\ w = wrong[k]
    BY DEF LimiterInv
  <2>2. PICK e \in 0..Len(w) :
           Len(f) = Len(w) - e /\ \A j \in 1..Len(f) : f[j] = w[e + j]
    BY <2>1 DEF LimiterInv, Keeps, EndOf
  <2>3. PICK l \in Nat, n \in Nat, d \in Nat : l = Len(f) /\ n = Len(w) /\ d = e /\ l = n - d
    <3>1. PICK l \in Nat, n \in Nat : l = Len(f) /\ n = Len(w)
      OBVIOUS
    <3>2. e \in Nat /\ l = n - e
      BY <2>2, <3>1
    <3>3. QED
      BY <3>1, <3>2
  <2>4. i \in 1..l
    <3>1. DOMAIN f = 1..l
      <4>1. DOMAIN f = 1..Len(f)
        BY ONLY f \in Seq(Nat)
      <4>2. QED
        BY <2>3, <4>1
    <3>2. i \in DOMAIN f
      BY <2>1
    <3>3. QED
      BY <3>1, <3>2
  <2>5. d + i \in 1..n /\ f[i] = w[d + i]
    <3>1. \A j \in 1..l : f[j] = w[d + j]
      BY <2>2, <2>3
    <3>2. d + i \in 1..n
      BY <2>3, <2>4
    <3>3. QED
      BY <2>4, <3>1, <3>2
  <2>6. w[d + i] <= now /\ w[d + i] \in Nat
    BY <2>1, <2>3, <2>5 DEF LimiterInv
  <2>7. now \in 0..MaxNow /\ MaxNow \in Nat
    BY DEF LimiterInv, Limiter!LimiterAssumption
  <2>8. QED
    BY <2>1, <2>5, <2>6, <2>7
<1>2. QED
  BY <1>1 DEF LimiterInv, LimiterHolds, Limiter!LimiterHolds, Limiter!LimiterTypeOK

\* At most MaxFailures wrong passwords of an address are compared in any Window
\* of time since its last login, and no key is left that has nothing recent:
\* for every limit, window and number of addresses.
THEOREM LimiterHoldsTheorem == Limiter!Spec => []LimiterHolds
<1>1. Limiter!LimiterAssumption
  BY AdministrationAssumptions
<1>2. Limiter!Init => LimiterInv
  BY <1>1, LimiterInit
<1>3. LimiterInv /\ [Limiter!Next]_Limiter!limiterVars => LimiterInv'
  BY <1>1, LimiterStep
<1>4. LimiterInv => LimiterHolds
  BY <1>1, LimiterGoal
<1>5. QED
  BY <1>2, <1>3, <1>4, PTL DEF Limiter!Spec

=============================================================================
