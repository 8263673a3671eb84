------------------------ MODULE SnapshotImportProofs ------------------------
(***************************************************************************)
(* Theorems about SnapshotImport, for every set of banks, portals, ratio   *)
(* and number of kept snapshots.                                           *)
(***************************************************************************)
EXTENDS SnapshotImport, DiffProofs, FiniteSetTheorems, SequenceTheorems

LEMMA DetachType ==
    ASSUME NEW batches \in Seq(Batch), NEW ids
    PROVE  /\ Detach(batches, ids) \in Seq(Batch)
           /\ Len(Detach(batches, ids)) = Len(batches)
           /\ \A n \in DOMAIN batches : Detach(batches, ids)[n].rows = batches[n].rows
<1>1. \A n \in 1..Len(batches) : batches[n] \in Batch
  OBVIOUS
<1>2. ASSUME NEW n \in 1..Len(batches)
      PROVE  /\ Detach(batches, ids)[n] \in Batch
             /\ Detach(batches, ids)[n].rows = batches[n].rows
  <2>1. batches[n] \in Batch
    BY <1>1
  <2>2. /\ [batches[n] EXCEPT !.snap = 0] \in Batch
        /\ [batches[n] EXCEPT !.snap = 0].rows = batches[n].rows
    BY <2>1 DEF Batch
  <2>3. QED
    BY <2>1, <2>2 DEF Detach
<1>3. Detach(batches, ids) = [n \in 1..Len(batches) |-> Detach(batches, ids)[n]]
  BY DEF Detach
<1>4. QED
  BY <1>2, <1>3, IsASeq

\* The state read back for a snapshot id is a snapshot.
LEMMA StateOfType ==
    ASSUME TypeOK, NEW id
    PROVE  StateOf(id) \in Snapshot
<1>1. NoSnapshot \in Snapshot
  <2>1. <<>> \in Seq(Method)
    OBVIOUS
  <2>2. QED
    BY <2>1 DEF NoSnapshot, Snapshot
<1>2. ASSUME NEW r \in snapshots
      PROVE  r.content \in Snapshot
  BY DEF TypeOK, Row
<1>3. QED
  BY <1>1, <1>2 DEF StateOf

\* A non-empty set of naturals below a bound has a greatest element.
LEMMA GreatestBelow ==
    ASSUME NEW T \in SUBSET Nat, T # {}, NEW bound \in Nat, \A x \in T : x < bound
    PROVE  \E x \in T : \A y \in T : y <= x
<1> DEFINE D == {bound - x : x \in T}
<1>1. D \in SUBSET Nat /\ D # {}
  <2>1. \A x \in T : bound - x \in Nat
    OBVIOUS
  <2>2. QED
    BY <2>1
<1>2. PICK d \in D : \A e \in D : d <= e
  BY <1>1, LeastOfNat
<1>3. PICK x \in T : d = bound - x
  BY <1>2
<1>4. ASSUME NEW y \in T
      PROVE  y <= x
  <2>1. d <= bound - y
    BY <1>2
  <2>2. x \in Nat /\ y \in Nat
    OBVIOUS
  <2>3. QED
    BY <1>3, <2>1, <2>2
<1>5. QED
  BY <1>4

\* The sequence is ahead of every id in use.
IdsBelowNext ==
    /\ \A r \in snapshots : r.id < nextId
    /\ \A i \in Importers : tx[i].id < nextId

LEMMA LatestIdType ==
    ASSUME TypeOK, IdsBelowNext, NEW b \in Banks
    PROVE  LatestId(b) \in Nat /\ (IdsOf(b) # {} => IsLatest(LatestId(b), b))
<1>1. IdsOf(b) \in SUBSET Nat
  BY DEF TypeOK, Row, IdsOf, RowsOf
<1>2. \A x \in IdsOf(b) : x < nextId
  BY DEF IdsBelowNext, IdsOf, RowsOf
<1>3. nextId \in Nat
  BY DEF TypeOK
<1>4. IdsOf(b) # {} => \E id \in IdsOf(b) : IsLatest(id, b)
  BY <1>1, <1>2, <1>3, GreatestBelow DEF IsLatest
<1>5. QED
  BY <1>1, <1>4 DEF LatestId

LEMMA NoCallType == NoCall \in Transaction
<1>1. NoSnapshot \in Snapshot
  <2>1. <<>> \in Seq(Method)
    OBVIOUS
  <2>2. QED
    BY <2>1 DEF NoSnapshot, Snapshot
<1>2. (CHOOSE b \in Banks : TRUE) \in Banks
  BY ImportAssumption
<1>3. QED
  BY <1>1, <1>2 DEF NoCall, Transaction, Phases, Results

LEMMA FinishedType ==
    ASSUME NEW t \in Transaction, NEW result \in Results
    PROVE  /\ Finished(t, result) \in Transaction
           /\ Finished(t, result).phase = "idle"
           /\ Finished(t, result).id = t.id
<1>1. NoCall \in Transaction
  BY NoCallType
<1>2. Public(t.delta) \subseteq Change /\ t.bank \in Banks /\ t.id \in Nat
  BY DEF Transaction, Public
<1>3. QED
  BY <1>1, <1>2 DEF Finished, Transaction, NoCall, Phases

\* Whatever the comparison may produce is a set of changes.
LEMMA DeltasType ==
    ASSUME NEW base \in Snapshot, NEW s \in Snapshot, NEW prev,
           NEW delta \in Deltas(prev, base, s)
    PROVE  delta \in SUBSET Change
<1>1. CASE prev = 0
  BY <1>1 DEF Deltas
<1>2. CASE prev # 0
  BY <1>2, ComputeChangesType DEF Deltas
<1>3. QED
  BY <1>1, <1>2

-----------------------------------------------------------------------------
(* Type correctness *)

TypeInv == TypeOK /\ IdsBelowNext

\* What a step that only touches the transaction of i leaves to show.
LEMMA LocalStepTypes ==
    ASSUME TypeInv, NEW i \in Importers, NEW t \in Transaction, t.id < nextId,
           tx' = [tx EXCEPT ![i] = t],
           UNCHANGED <<snapshots, changes, nextId, published>>
    PROVE  TypeInv'
<1>1. tx' \in [Importers -> Transaction] /\ \A j \in Importers : tx'[j].id < nextId
  BY DEF TypeInv, TypeOK, IdsBelowNext
<1>2. QED
  BY <1>1 DEF TypeInv, TypeOK, IdsBelowNext

LEMMA TypeInvStep == TypeInv /\ [Next]_vars => TypeInv'
<1> SUFFICES ASSUME TypeInv, [Next]_vars
             PROVE  TypeInv'
  OBVIOUS
<1>0. /\ \A i \in Importers : tx[i] \in Transaction /\ tx[i].id \in Nat /\ tx[i].id < nextId
      /\ nextId \in Nat
  BY DEF TypeInv, TypeOK, IdsBelowNext, Transaction
<1>1. ASSUME NEW i \in Importers, NEW b \in Banks, NEW s \in Portals, Begin(i, b, s)
      PROVE  TypeInv'
  <2> DEFINE t == [NoCall EXCEPT !.phase = "state", !.bank = b, !.parsed = s,
                                 !.prev = LatestId(b)]
  <2>1. LatestId(b) \in Nat /\ s \in Snapshot
    BY LatestIdType, ImportAssumption DEF TypeInv
  <2>2. t \in Transaction /\ t.id = 0
    BY <2>1, NoCallType DEF NoCall, Transaction, Phases
  <2>3. nextId > 0
    BY DEF TypeInv, TypeOK
  <2>4. tx' = [tx EXCEPT ![i] = t] /\ UNCHANGED <<snapshots, changes, nextId, published>>
    BY <1>1 DEF Begin
  <2> HIDE DEF t
  <2>5. QED
    BY <1>0, <2>2, <2>3, <2>4, LocalStepTypes
<1>2. ASSUME NEW i \in Importers, NEW result \in Results,
             tx' = [tx EXCEPT ![i] = Finished(@, result)],
             UNCHANGED <<snapshots, changes, nextId, published>>
      PROVE  TypeInv'
  <2>1. tx' = [tx EXCEPT ![i] = Finished(tx[i], result)]
    BY <1>2
  <2>2. Finished(tx[i], result) \in Transaction /\ Finished(tx[i], result).id < nextId
    BY <1>0, FinishedType
  <2>3. QED
    BY <1>2, <2>1, <2>2, LocalStepTypes
<1>3. ASSUME NEW i \in Importers, Compare(i)
      PROVE  TypeInv'
  <2>1. PICK delta \in Deltas(tx[i].prev, StateOf(tx[i].prev), tx[i].parsed) :
          tx' = [tx EXCEPT ![i].phase = "diffed", ![i].delta = delta]
    BY <1>3 DEF Compare
  <2>2. tx[i].parsed \in Snapshot /\ StateOf(tx[i].prev) \in Snapshot
    BY <1>0, StateOfType DEF TypeInv, Transaction
  <2>3. delta \in SUBSET Change
    BY <2>2, DeltasType
  <2> DEFINE t == [tx[i] EXCEPT !.phase = "diffed", !.delta = delta]
  <2>4. t \in Transaction /\ t.id = tx[i].id
    BY <1>0, <2>3 DEF Transaction, Phases
  <2>5. tx' = [tx EXCEPT ![i] = t]
    BY <2>1
  <2>6. UNCHANGED <<snapshots, changes, nextId, published>>
    BY <1>3 DEF Compare
  <2> HIDE DEF t
  <2>7. QED
    BY <1>0, <2>4, <2>5, <2>6, LocalStepTypes
<1>4. ASSUME NEW i \in Importers, WriteSnapshot(i)
      PROVE  TypeInv'
  <2> DEFINE t == [tx[i] EXCEPT !.phase = "written", !.id = nextId]
  <2>1. t \in Transaction /\ t.id = nextId
    BY <1>0 DEF Transaction, Phases
  <2>2. tx' = [tx EXCEPT ![i] = t]
    BY <1>4 DEF WriteSnapshot
  <2>3. nextId' = nextId + 1 /\ UNCHANGED <<snapshots, changes, published>>
    BY <1>4 DEF WriteSnapshot
  <2> HIDE DEF t
  <2>4. tx' \in [Importers -> Transaction] /\ \A j \in Importers : tx'[j].id < nextId + 1
    BY <1>0, <2>1, <2>2 DEF TypeInv, TypeOK
  <2>5. \A r \in snapshots : r.id < nextId + 1
    BY <1>0 DEF TypeInv, TypeOK, IdsBelowNext, Row
  <2>6. nextId' \in Nat \ {0}
    BY <1>0, <2>3
  <2>7. IdsBelowNext'
    BY <2>3, <2>4, <2>5 DEF IdsBelowNext
  <2>8. QED
    BY <2>3, <2>4, <2>6, <2>7 DEF TypeInv, TypeOK
<1>5. ASSUME NEW i \in Importers, Prune(i)
      PROVE  TypeInv'
  <2> DEFINE ids == IdsOf(tx[i].bank) \cup {tx[i].id}
             t == [tx[i] EXCEPT !.phase = "pruned", !.doomed = Superfluous(ids)]
  <2>1. Superfluous(ids) \in SUBSET Nat
    BY <1>0 DEF Superfluous, IdsOf, RowsOf, TypeInv, TypeOK, Row
  <2>2. t \in Transaction /\ t.id = tx[i].id
    BY <1>0, <2>1 DEF Transaction, Phases
  <2>3. tx' = [tx EXCEPT ![i] = t] /\ UNCHANGED <<snapshots, changes, nextId, published>>
    BY <1>5 DEF Prune
  <2> HIDE DEF t
  <2>4. QED
    BY <1>0, <2>2, <2>3, LocalStepTypes
<1>6. ASSUME NEW i \in Importers, Commit(i)
      PROVE  TypeInv'
  <2> DEFINE t == tx[i]
             u == [t EXCEPT !.phase = "committed"]
  <2>1. t \in Transaction /\ u \in Transaction /\ u.id = t.id
    BY <1>0 DEF Transaction, Phases
  <2>2. tx' = [tx EXCEPT ![i] = u] /\ nextId' = nextId
    BY <1>6 DEF Commit
  <2>3. tx' \in [Importers -> Transaction] /\ \A j \in Importers : tx'[j].id < nextId
    BY <1>0, <2>1, <2>2 DEF TypeInv, TypeOK
  <2>4. /\ snapshots' \subseteq Row
        /\ \A r \in snapshots' : r.id < nextId
    <3>1. [id |-> t.id, bank |-> t.bank, content |-> t.parsed] \in Row
      BY <2>1 DEF Row, Transaction
    <3>2. QED
      BY <1>0, <1>6, <3>1 DEF Commit, TypeInv, TypeOK, IdsBelowNext
  <2>5. changes' \in [Banks -> Seq(Batch)]
    <3>1. t.bank \in Banks /\ changes[t.bank] \in Seq(Batch)
      BY <2>1 DEF Transaction, TypeInv, TypeOK
    <3> DEFINE grown == Append(changes[t.bank], [snap |-> t.id, rows |-> t.delta])
    <3>2. [snap |-> t.id, rows |-> t.delta] \in Batch
      BY <2>1 DEF Transaction, Batch
    <3>3. grown \in Seq(Batch)
      BY <3>1, <3>2
    <3>4. Detach(grown, t.doomed) \in Seq(Batch)
      BY <3>3, DetachType
    <3>5. QED
      BY <1>6, <3>1, <3>4 DEF Commit, TypeInv, TypeOK
  <2>6. published' \in [Banks -> Seq([id: Nat, content: Snapshot])]
    <3>1. t.bank \in Banks /\ published[t.bank] \in Seq([id: Nat, content: Snapshot])
      BY <2>1 DEF Transaction, TypeInv, TypeOK
    <3>2. [id |-> t.id, content |-> t.parsed] \in [id: Nat, content: Snapshot]
      BY <2>1 DEF Transaction
    <3>3. Append(published[t.bank], [id |-> t.id, content |-> t.parsed])
            \in Seq([id: Nat, content: Snapshot])
      BY <3>1, <3>2
    <3>4. QED
      BY <1>6, <3>1, <3>3 DEF Commit, TypeInv, TypeOK
  <2>7. QED
    BY <2>2, <2>3, <2>4, <2>5, <2>6 DEF TypeInv, TypeOK, IdsBelowNext
<1>7. CASE UNCHANGED vars
  BY <1>7 DEF vars, TypeInv, TypeOK, IdsBelowNext
<1>8. QED
  <2>1. ASSUME NEW i \in Importers, Reject(i) \/ Return(i) \/ LoseAnswer(i) \/ Fail(i)
        PROVE  TypeInv'
    BY <1>2, <2>1 DEF Reject, Return, LoseAnswer, Fail, Results
  <2>2. QED
    BY <1>1, <1>3, <1>4, <1>5, <1>6, <1>7, <2>1 DEF Next

LEMMA TypeInvInit == Init => TypeInv
<1> SUFFICES ASSUME Init PROVE TypeInv
  OBVIOUS
<1>1. /\ snapshots \subseteq Row
      /\ changes \in [Banks -> Seq(Batch)]
      /\ published \in [Banks -> Seq([id: Nat, content: Snapshot])]
      /\ nextId = 1
  BY DEF Init
<1>2. tx \in [Importers -> Transaction] /\ \A i \in Importers : tx[i].id = 0
  BY NoCallType DEF Init, NoCall
<1>3. QED
  BY <1>1, <1>2 DEF TypeInv, TypeOK, IdsBelowNext, Init

\* Every variable keeps its type, however many imports overlap.
THEOREM TypeCorrect == Spec => []TypeOK
<1>1. TypeInv => TypeOK
  BY DEF TypeInv
<1>2. QED
  BY <1>1, TypeInvInit, TypeInvStep, PTL DEF Spec

-----------------------------------------------------------------------------
(* Imports made one at a time, as the runner's lock has it.                *)

SerialImports == \A i, j \in Importers : i = j

InTransaction(i) == tx[i].phase \in {"state", "diffed", "written", "pruned"}

Latest(b) == published[b][Len(published[b])]

\* Every committed import has its batch of changes.
BatchPerImport == \A b \in Banks : Len(changes[b]) = Len(published[b])

\* The newest import of a bank is stored and has the largest id; a bank never
\* imported has no rows.
LatestIsStored ==
    \A b \in Banks :
        IF published[b] = <<>>
        THEN IdsOf(b) = {}
        ELSE /\ [id |-> Latest(b).id, bank |-> b, content |-> Latest(b).content] \in snapshots
             /\ Latest(b).id > 0
             /\ \A id \in IdsOf(b) : id <= Latest(b).id

\* Ids start at 1 and name one row each.
RowIds == \A r, s \in snapshots : r.id > 0 /\ (r.id = s.id => r = s)

PublishedPortals ==
    \A b \in Banks : \A n \in DOMAIN published[b] : published[b][n].content \in Portals

\* What a transaction has read is still true when it commits.
BaseIsCurrent ==
    \A i \in Importers : InTransaction(i) =>
        /\ tx[i].parsed \in Portals
        /\ tx[i].prev = LatestId(tx[i].bank)
        /\ tx[i].phase # "state" =>
              /\ Plausible(i)
              /\ tx[i].delta \in Deltas(tx[i].prev, StateOf(tx[i].prev), tx[i].parsed)

\* A row about to be committed is newer than all that is stored.
WrittenIsNewest ==
    \A i \in Importers : tx[i].phase \in {"written", "pruned"} =>
        /\ tx[i].id > 0
        /\ \A r \in snapshots : r.id < tx[i].id

\* The clean-up list is computed from the rows as they still are at the commit.
DoomedIsOld ==
    \A i \in Importers : tx[i].phase = "pruned" =>
        tx[i].doomed = Superfluous(IdsOf(tx[i].bank) \cup {tx[i].id})

SerialInv ==
    /\ TypeInv
    /\ BatchPerImport
    /\ LatestIsStored
    /\ RowIds
    /\ PublishedPortals
    /\ BaseIsCurrent
    /\ WrittenIsNewest
    /\ DoomedIsOld

\* What the queries return is the newest import.
LEMMA CurrentIsLatest ==
    ASSUME SerialInv, NEW b \in Banks
    PROVE  /\ published[b] = <<>> => LatestId(b) = 0 /\ StateOf(LatestId(b)) = NoSnapshot
           /\ published[b] # <<>> => /\ LatestId(b) = Latest(b).id
                                     /\ LatestId(b) > 0
                                     /\ StateOf(LatestId(b)) = Latest(b).content
<1>1. LatestId(b) \in Nat /\ (IdsOf(b) # {} => IsLatest(LatestId(b), b))
  BY LatestIdType DEF SerialInv, TypeInv
<1>2. \A r \in snapshots : r.id \in Nat /\ r.id > 0
  BY DEF SerialInv, RowIds, TypeInv, TypeOK, Row
<1>3. CASE published[b] = <<>>
  <2>1. IdsOf(b) = {}
    BY <1>3 DEF SerialInv, LatestIsStored
  <2>2. LatestId(b) = 0
    BY <2>1 DEF LatestId
  <2>3. ~ \E r \in snapshots : r.id = 0
    BY <1>2
  <2>4. QED
    BY <1>3, <2>2, <2>3 DEF StateOf
<1>4. CASE published[b] # <<>>
  <2> DEFINE row == [id |-> Latest(b).id, bank |-> b, content |-> Latest(b).content]
  <2>1. /\ row \in snapshots
        /\ Latest(b).id > 0
        /\ \A id \in IdsOf(b) : id <= Latest(b).id
    BY <1>4 DEF SerialInv, LatestIsStored
  <2>2. Latest(b).id \in IdsOf(b)
    BY <2>1 DEF IdsOf, RowsOf
  <2>3. Latest(b).id \in Nat
    BY <1>2, <2>1
  <2>4. LatestId(b) = Latest(b).id
    BY <1>1, <2>1, <2>2, <2>3 DEF IsLatest
  <2>5. \A r \in snapshots : r.id = Latest(b).id => r = row
    BY <2>1 DEF SerialInv, RowIds
  <2>6. StateOf(Latest(b).id) = row.content
    BY <2>1, <2>5 DEF StateOf
  <2>7. QED
    BY <1>4, <2>1, <2>4, <2>6
<1>5. QED
  BY <1>3, <1>4

\* Nothing the queries return changes while the rows do not.
LEMMA SameStore ==
    ASSUME UNCHANGED snapshots
    PROVE  /\ \A b : IdsOf(b)' = IdsOf(b) /\ LatestId(b)' = LatestId(b)
           /\ \A id : StateOf(id)' = StateOf(id)
BY DEF IdsOf, RowsOf, LatestId, IsLatest, StateOf

\* A step inside the one transaction keeps the invariant if its new state does.
LEMMA SerialLocalStep ==
    ASSUME SerialInv, TypeInv', SerialImports,
           NEW i \in Importers, NEW t \in Transaction,
           tx' = [tx EXCEPT ![i] = t],
           UNCHANGED <<snapshots, changes, published>>,
           t.phase \in {"state", "diffed", "written", "pruned"} =>
              /\ t.parsed \in Portals
              /\ t.prev = LatestId(t.bank)
              /\ t.phase # "state" =>
                    /\ Sane(VisibleCount(StateOf(t.prev).methods), VisibleCount(t.parsed.methods))
                    /\ t.delta \in Deltas(t.prev, StateOf(t.prev), t.parsed),
           t.phase \in {"written", "pruned"} => t.id > 0 /\ \A r \in snapshots : r.id < t.id,
           t.phase = "pruned" => t.doomed = Superfluous(IdsOf(t.bank) \cup {t.id})
    PROVE  SerialInv'
<1>1. \A j \in Importers : tx'[j] = t
  BY DEF SerialImports, SerialInv, TypeInv, TypeOK
<1>2. /\ \A b : IdsOf(b)' = IdsOf(b) /\ LatestId(b)' = LatestId(b)
      /\ \A id : StateOf(id)' = StateOf(id)
  BY SameStore
<1>3. BatchPerImport' /\ RowIds' /\ PublishedPortals'
  BY DEF SerialInv, BatchPerImport, RowIds, PublishedPortals
<1>4. LatestIsStored'
  BY <1>2 DEF SerialInv, LatestIsStored, Latest
<1>5. BaseIsCurrent'
  BY <1>1, <1>2 DEF BaseIsCurrent, InTransaction, Plausible
<1>6. WrittenIsNewest' /\ DoomedIsOld'
  BY <1>1, <1>2 DEF WrittenIsNewest, DoomedIsOld
<1>7. QED
  BY <1>3, <1>4, <1>5, <1>6 DEF SerialInv

\* An id above all others is never superfluous.
LEMMA NewestIsKept ==
    ASSUME NEW ids \in SUBSET Nat, NEW id \in Nat, \A x \in ids : x < id
    PROVE  id \notin Superfluous(ids \cup {id})
<1>1. {y \in ids \cup {id} : y > id} = {}
  <2>1. \A y \in ids \cup {id} : ~ (y > id)
    OBVIOUS
  <2>2. QED
    BY <2>1
<1>2. ~ (0 >= Keep)
  BY ImportAssumption
<1>3. QED
  BY <1>1, <1>2, FS_EmptySet DEF Superfluous

\* The one step that changes the tables.
LEMMA SerialCommit ==
    ASSUME SerialInv, TypeInv', SerialImports, NEW i \in Importers, Commit(i)
    PROVE  SerialInv'
<1> DEFINE t == tx[i]
           row == [id |-> t.id, bank |-> t.bank, content |-> t.parsed]
           batch == [snap |-> t.id, rows |-> t.delta]
           entry == [id |-> t.id, content |-> t.parsed]
<1>0. /\ t.phase = "pruned"
      /\ t \in Transaction
      /\ t.bank \in Banks
      /\ t.parsed \in Portals
      /\ t.id \in Nat /\ t.id > 0
      /\ \A r \in snapshots : r.id \in Nat /\ r.id < t.id
      /\ t.doomed = Superfluous(IdsOf(t.bank) \cup {t.id})
  BY DEF Commit, SerialInv, TypeInv, TypeOK, Transaction, BaseIsCurrent, InTransaction,
         WrittenIsNewest, DoomedIsOld, Row
<1>0a. t.id \notin t.doomed
  <2>1. IdsOf(t.bank) \in SUBSET Nat /\ \A x \in IdsOf(t.bank) : x < t.id
    BY <1>0 DEF IdsOf, RowsOf
  <2>2. QED
    BY <1>0, <2>1, NewestIsKept
<1>1. /\ snapshots' = {r \in snapshots : r.id \notin t.doomed} \cup {row}
      /\ changes' = [changes EXCEPT ![t.bank] = Detach(Append(changes[t.bank], batch), t.doomed)]
      /\ published' = [published EXCEPT ![t.bank] = Append(published[t.bank], entry)]
      /\ tx' = [tx EXCEPT ![i].phase = "committed"]
  <2>1. snapshots' = {r \in snapshots \cup {row} : r.id \notin t.doomed}
    BY DEF Commit
  <2>2. snapshots' = {r \in snapshots : r.id \notin t.doomed} \cup {row}
    BY <1>0a, <2>1
  <2>3. QED
    BY <2>2 DEF Commit
<1>2. \A j \in Importers : tx'[j].phase = "committed"
  BY <1>0, <1>1 DEF SerialImports, SerialInv, TypeInv, TypeOK, Transaction
<1>3. BaseIsCurrent' /\ WrittenIsNewest' /\ DoomedIsOld'
  BY <1>2 DEF BaseIsCurrent, WrittenIsNewest, DoomedIsOld, InTransaction
<1>4. ASSUME NEW b \in Banks
      PROVE  /\ published[b] \in Seq([id: Nat, content: Snapshot])
             /\ changes[b] \in Seq(Batch)
             /\ Len(changes[b]) = Len(published[b])
  BY DEF SerialInv, TypeInv, TypeOK, BatchPerImport
<1>5. BatchPerImport'
  <2> SUFFICES ASSUME NEW b \in Banks
               PROVE  Len(changes'[b]) = Len(published'[b])
    BY DEF BatchPerImport
  <2>1. CASE b = t.bank
    <3>0. batch \in Batch
      BY <1>0 DEF Batch, Transaction
    <3>1. /\ Append(changes[b], batch) \in Seq(Batch)
          /\ Len(Append(changes[b], batch)) = Len(changes[b]) + 1
      BY <1>4, <3>0
    <3>1a. Len(Detach(Append(changes[b], batch), t.doomed)) = Len(changes[b]) + 1
      BY <3>1, DetachType
    <3>2. changes'[b] = Detach(Append(changes[b], batch), t.doomed)
          /\ published'[b] = Append(published[b], entry)
      BY <1>1, <2>1 DEF SerialInv, TypeInv, TypeOK
    <3>3. QED
      BY <1>4, <3>1a, <3>2
  <2>2. CASE b # t.bank
    BY <1>1, <1>4, <2>2 DEF SerialInv, TypeInv, TypeOK
  <2>3. QED
    BY <2>1, <2>2
<1>6. RowIds'
  BY <1>0, <1>1 DEF SerialInv, RowIds
<1>7. PublishedPortals'
  <2> SUFFICES ASSUME NEW b \in Banks, NEW n \in DOMAIN published'[b]
               PROVE  published'[b][n].content \in Portals
    BY DEF PublishedPortals
  <2>1. CASE b = t.bank
    <3>1. published'[b] = Append(published[b], entry)
      BY <1>1, <2>1 DEF SerialInv, TypeInv, TypeOK
    <3>2. CASE n \in DOMAIN published[b]
      BY <1>4, <3>1, <3>2 DEF SerialInv, PublishedPortals
    <3>3. CASE n = Len(published[b]) + 1
      BY <1>0, <1>4, <3>1, <3>3
    <3>4. QED
      BY <1>4, <3>1, <3>2, <3>3
  <2>2. CASE b # t.bank
    BY <1>1, <2>2 DEF SerialInv, TypeInv, TypeOK, PublishedPortals
  <2>3. QED
    BY <2>1, <2>2
<1>8. LatestIsStored'
  <2> SUFFICES ASSUME NEW b \in Banks
               PROVE  IF published'[b] = <<>>
                      THEN IdsOf(b)' = {}
                      ELSE /\ [id |-> Latest(b)'.id, bank |-> b, content |-> Latest(b)'.content]
                                 \in snapshots'
                           /\ Latest(b)'.id > 0
                           /\ \A id \in IdsOf(b)' : id <= Latest(b)'.id
    BY DEF LatestIsStored
  <2>1. CASE b = t.bank
    <3>1. published'[b] = Append(published[b], entry)
      BY <1>1, <2>1 DEF SerialInv, TypeInv, TypeOK
    <3>2. published'[b] # <<>> /\ Latest(b)' = entry
      BY <1>4, <3>1 DEF Latest
    <3>3. \A id \in IdsOf(b)' : id <= t.id
      BY <1>0, <1>1 DEF IdsOf, RowsOf
    <3>4. QED
      BY <1>0, <1>1, <2>1, <3>2, <3>3
  <2>2. CASE b # t.bank
    <3>1. published'[b] = published[b] /\ Latest(b)' = Latest(b)
      BY <1>1, <2>2 DEF SerialInv, TypeInv, TypeOK, Latest
    <3>2. t.doomed \subseteq IdsOf(t.bank) \cup {t.id}
      BY <1>0 DEF Superfluous
    <3>3. \A r \in snapshots : r.bank = b => r.id \notin t.doomed
      BY <1>0, <2>2, <3>2 DEF IdsOf, RowsOf, SerialInv, RowIds
    <3>4. IdsOf(b)' = IdsOf(b) /\ RowsOf(b) \subseteq snapshots'
      BY <1>1, <2>2, <3>3 DEF IdsOf, RowsOf
    <3>5. QED
      BY <3>1, <3>4 DEF SerialInv, LatestIsStored, RowsOf
  <2>3. QED
    BY <2>1, <2>2
<1>9. QED
  BY <1>3, <1>5, <1>6, <1>7, <1>8 DEF SerialInv

LEMMA SerialStep == SerialImports /\ SerialInv /\ [Next]_vars => SerialInv'
<1> SUFFICES ASSUME SerialImports, SerialInv, [Next]_vars
             PROVE  SerialInv'
  OBVIOUS
<1>a. TypeInv'
  BY TypeInvStep DEF SerialInv
<1>b. /\ \A i \in Importers : tx[i] \in Transaction
      /\ nextId \in Nat /\ nextId > 0
      /\ \A r \in snapshots : r.id \in Nat /\ r.id < nextId
  BY DEF SerialInv, TypeInv, TypeOK, IdsBelowNext, Row
<1>0. /\ TypeInv'
      /\ \A i \in Importers : tx[i] \in Transaction
      /\ nextId \in Nat /\ nextId > 0
      /\ \A r \in snapshots : r.id \in Nat /\ r.id < nextId
  BY <1>a, <1>b
<1>1. ASSUME NEW i \in Importers, NEW b \in Banks, NEW s \in Portals, Begin(i, b, s)
      PROVE  SerialInv'
  <2> DEFINE t == [NoCall EXCEPT !.phase = "state", !.bank = b, !.parsed = s,
                                 !.prev = LatestId(b)]
  <2>1. LatestId(b) \in Nat /\ s \in Snapshot
    BY LatestIdType, ImportAssumption DEF SerialInv, TypeInv
  <2>2. /\ t \in Transaction
        /\ t.phase = "state" /\ t.parsed = s /\ t.prev = LatestId(b) /\ t.bank = b
    BY <2>1, NoCallType DEF NoCall, Transaction, Phases
  <2>3. tx' = [tx EXCEPT ![i] = t] /\ UNCHANGED <<snapshots, changes, published>>
    BY <1>1 DEF Begin
  <2> HIDE DEF t
  <2>4. QED
    BY <1>0, <2>2, <2>3, SerialLocalStep
<1>2. ASSUME NEW i \in Importers, NEW result \in Results,
             tx' = [tx EXCEPT ![i] = Finished(@, result)],
             UNCHANGED <<snapshots, changes, published>>
      PROVE  SerialInv'
  <2>1. tx' = [tx EXCEPT ![i] = Finished(tx[i], result)]
    BY <1>2
  <2>2. Finished(tx[i], result) \in Transaction /\ Finished(tx[i], result).phase = "idle"
    BY <1>0, FinishedType
  <2>3. QED
    BY <1>0, <1>2, <2>1, <2>2, SerialLocalStep
<1>3. ASSUME NEW i \in Importers, Compare(i)
      PROVE  SerialInv'
  <2>1. PICK delta \in Deltas(tx[i].prev, StateOf(tx[i].prev), tx[i].parsed) :
          tx' = [tx EXCEPT ![i].phase = "diffed", ![i].delta = delta]
    BY <1>3 DEF Compare
  <2> DEFINE t == [tx[i] EXCEPT !.phase = "diffed", !.delta = delta]
  <2>2. tx[i].parsed \in Snapshot /\ StateOf(tx[i].prev) \in Snapshot
    BY <1>0, StateOfType DEF SerialInv, TypeInv, Transaction
  <2>3. delta \in SUBSET Change
    BY <2>2, DeltasType
  <2>4. /\ t \in Transaction
        /\ t.phase = "diffed" /\ t.delta = delta
        /\ t.bank = tx[i].bank /\ t.parsed = tx[i].parsed /\ t.prev = tx[i].prev
    BY <1>0, <2>3 DEF Transaction, Phases
  <2>5. tx' = [tx EXCEPT ![i] = t] /\ UNCHANGED <<snapshots, changes, published>>
    BY <1>3, <2>1 DEF Compare
  <2>6. tx[i].parsed \in Portals /\ tx[i].prev = LatestId(tx[i].bank)
    BY <1>3 DEF Compare, SerialInv, BaseIsCurrent, InTransaction
  <2>7. Sane(VisibleCount(StateOf(tx[i].prev).methods), VisibleCount(tx[i].parsed.methods))
    BY <1>3 DEF Compare, Plausible
  <2> HIDE DEF t
  <2>8. QED
    BY <1>0, <2>4, <2>5, <2>6, <2>7, SerialLocalStep
<1>4. ASSUME NEW i \in Importers, WriteSnapshot(i)
      PROVE  SerialInv'
  <2> DEFINE t == [tx[i] EXCEPT !.phase = "written", !.id = nextId]
  <2>1. /\ t \in Transaction
        /\ t.phase = "written" /\ t.id = nextId
        /\ t.bank = tx[i].bank /\ t.parsed = tx[i].parsed /\ t.prev = tx[i].prev
        /\ t.delta = tx[i].delta
    BY <1>0 DEF Transaction, Phases
  <2>2. tx' = [tx EXCEPT ![i] = t] /\ UNCHANGED <<snapshots, changes, published>>
    BY <1>4 DEF WriteSnapshot
  <2>3. /\ tx[i].parsed \in Portals /\ tx[i].prev = LatestId(tx[i].bank)
        /\ Sane(VisibleCount(StateOf(tx[i].prev).methods), VisibleCount(tx[i].parsed.methods))
        /\ tx[i].delta \in Deltas(tx[i].prev, StateOf(tx[i].prev), tx[i].parsed)
    BY <1>4 DEF WriteSnapshot, SerialInv, BaseIsCurrent, InTransaction, Plausible
  <2> HIDE DEF t
  <2>4. QED
    BY <1>0, <2>1, <2>2, <2>3, SerialLocalStep
<1>5. ASSUME NEW i \in Importers, Prune(i)
      PROVE  SerialInv'
  <2> DEFINE ids == IdsOf(tx[i].bank) \cup {tx[i].id}
             t == [tx[i] EXCEPT !.phase = "pruned", !.doomed = Superfluous(ids)]
  <2>1. Superfluous(ids) \in SUBSET Nat
    BY <1>0 DEF Superfluous, IdsOf, RowsOf, Transaction
  <2>2. /\ t \in Transaction
        /\ t.phase = "pruned" /\ t.id = tx[i].id /\ t.doomed = Superfluous(ids)
        /\ t.bank = tx[i].bank /\ t.parsed = tx[i].parsed /\ t.prev = tx[i].prev
        /\ t.delta = tx[i].delta
    BY <1>0, <2>1 DEF Transaction, Phases
  <2>3. tx' = [tx EXCEPT ![i] = t] /\ UNCHANGED <<snapshots, changes, published>>
    BY <1>5 DEF Prune
  <2>4. /\ tx[i].parsed \in Portals /\ tx[i].prev = LatestId(tx[i].bank)
        /\ Sane(VisibleCount(StateOf(tx[i].prev).methods), VisibleCount(tx[i].parsed.methods))
        /\ tx[i].delta \in Deltas(tx[i].prev, StateOf(tx[i].prev), tx[i].parsed)
        /\ tx[i].id > 0 /\ \A r \in snapshots : r.id < tx[i].id
    BY <1>5 DEF Prune, SerialInv, BaseIsCurrent, InTransaction, Plausible, WrittenIsNewest
  <2> HIDE DEF t
  <2>5. QED
    BY <1>0, <2>2, <2>3, <2>4, SerialLocalStep
<1>6. ASSUME NEW i \in Importers, Commit(i)
      PROVE  SerialInv'
  BY <1>0, <1>6, SerialCommit
<1>7. CASE UNCHANGED vars
  <2>1. /\ \A b : IdsOf(b)' = IdsOf(b) /\ LatestId(b)' = LatestId(b)
        /\ \A id : StateOf(id)' = StateOf(id)
    BY <1>7, SameStore DEF vars
  <2>2. QED
    BY <1>0, <1>7, <2>1
    DEF vars, SerialInv, BatchPerImport, LatestIsStored, Latest, RowIds, PublishedPortals,
        BaseIsCurrent, InTransaction, Plausible, WrittenIsNewest, DoomedIsOld
<1>8. QED
  <2>1. ASSUME NEW i \in Importers, Reject(i) \/ Return(i) \/ LoseAnswer(i) \/ Fail(i)
        PROVE  SerialInv'
    BY <1>2, <2>1 DEF Reject, Return, LoseAnswer, Fail, Results
  <2>2. QED
    BY <1>1, <1>3, <1>4, <1>5, <1>6, <1>7, <2>1 DEF Next

LEMMA SerialInit == Init => SerialInv
<1> SUFFICES ASSUME Init PROVE SerialInv
  OBVIOUS
<1>1. \A i \in Importers : tx[i].phase = "idle"
  BY DEF Init, NoCall
<1>2. \A b \in Banks : IdsOf(b) = {} /\ published[b] = <<>> /\ changes[b] = <<>>
  BY DEF Init, IdsOf, RowsOf
<1>3. BatchPerImport /\ LatestIsStored /\ RowIds /\ PublishedPortals
  BY <1>2 DEF BatchPerImport, LatestIsStored, RowIds, PublishedPortals, Init
<1>4. BaseIsCurrent /\ WrittenIsNewest /\ DoomedIsOld
  BY <1>1 DEF BaseIsCurrent, InTransaction, WrittenIsNewest, DoomedIsOld
<1>5. QED
  BY <1>3, <1>4, TypeInvInit DEF SerialInv

-----------------------------------------------------------------------------
(* The public feed *)

\* What a commit does to the tables of a bank, whoever else is at work.
LEMMA CommitAppends ==
    ASSUME TypeInv, BatchPerImport, NEW i \in Importers, Commit(i), NEW b \in Banks
    PROVE  LET t == tx[i]
               n == Len(published[b])
           IN  IF b = t.bank
               THEN /\ Len(published'[b]) = n + 1
                    /\ Len(changes'[b]) = n + 1
                    /\ published'[b][n + 1] = [id |-> t.id, content |-> t.parsed]
                    /\ changes'[b][n + 1].rows = t.delta
                    /\ \A m \in 1..n : published'[b][m] = published[b][m]
                    /\ \A m \in 1..n : changes'[b][m].rows = changes[b][m].rows
               ELSE published'[b] = published[b] /\ changes'[b] = changes[b]
<1> DEFINE t == tx[i]
           n == Len(published[b])
           batch == [snap |-> t.id, rows |-> t.delta]
           entry == [id |-> t.id, content |-> t.parsed]
<1>1. /\ changes' = [changes EXCEPT ![t.bank] = Detach(Append(changes[t.bank], batch), t.doomed)]
      /\ published' = [published EXCEPT ![t.bank] = Append(published[t.bank], entry)]
  BY DEF Commit
<1>2. /\ published \in [Banks -> Seq([id: Nat, content: Snapshot])]
      /\ changes \in [Banks -> Seq(Batch)]
      /\ Len(changes[b]) = n
  BY DEF TypeInv, TypeOK, BatchPerImport
<1>3. CASE b # t.bank
  BY <1>1, <1>2, <1>3
<1>4. CASE b = t.bank
  <2>1. /\ published'[b] = Append(published[b], entry)
        /\ changes'[b] = Detach(Append(changes[b], batch), t.doomed)
    BY <1>1, <1>2, <1>4
  <2> DEFINE grown == Append(changes[b], batch)
  <2>2. batch \in Batch
    BY DEF Batch, Transaction, Commit, TypeInv, TypeOK
  <2>2a. /\ grown \in Seq(Batch) /\ DOMAIN grown = 1..(n + 1) /\ Len(grown) = n + 1
         /\ grown[n + 1] = batch
         /\ \A m \in 1..n : grown[m] = changes[b][m]
    BY <1>2, <2>2
  <2>3. published[b] \in Seq([id: Nat, content: Snapshot])
    BY <1>2
  <2> HIDE DEF grown
  <2>2b. /\ Len(Detach(grown, t.doomed)) = n + 1
         /\ \A m \in 1..(n + 1) : Detach(grown, t.doomed)[m].rows = grown[m].rows
    BY <2>2a, DetachType
  <2>4. /\ Len(published'[b]) = n + 1
        /\ published'[b][n + 1] = entry
        /\ \A m \in 1..n : published'[b][m] = published[b][m]
    BY <2>1, <2>3
  <2>4a. n \in Nat
    BY <1>2
  <2>5. /\ Len(changes'[b]) = n + 1
        /\ changes'[b][n + 1].rows = t.delta
        /\ \A m \in 1..n : changes'[b][m].rows = changes[b][m].rows
    <3>1. changes'[b] = Detach(grown, t.doomed)
      BY <2>1 DEF grown
    <3>2. QED
      BY <2>2a, <2>2b, <2>4a, <3>1
  <2>8. QED
    BY <1>4, <2>4, <2>5
<1>5. QED
  BY <1>3, <1>4

\* What a commit does to the bank it concerns, and that it leaves the others alone.
LEMMA CommitEffect ==
    ASSUME SerialInv, SerialInv', NEW i \in Importers, Commit(i), NEW b \in Banks
    PROVE  LET t == tx[i]
               n == Len(published[b])
           IN  IF b = t.bank
               THEN /\ Len(published'[b]) = n + 1
                    /\ published'[b][n + 1].content = t.parsed
                    /\ changes'[b][n + 1].rows = t.delta
                    /\ \A m \in 1..n : published'[b][m] = published[b][m]
                    /\ \A m \in 1..n : changes'[b][m].rows = changes[b][m].rows
               ELSE published'[b] = published[b] /\ changes'[b] = changes[b]
<1>1. TypeInv /\ BatchPerImport
  BY DEF SerialInv
<1>2. [id |-> tx[i].id, content |-> tx[i].parsed].content = tx[i].parsed
  OBVIOUS
<1>3. QED
  BY <1>1, <1>2, CommitAppends

\* Steps that are no commit leave the tables alone.
LEMMA OnlyCommitPublishes ==
    ASSUME [Next]_vars, ~ \E i \in Importers : Commit(i)
    PROVE  UNCHANGED <<snapshots, changes, published>>
BY DEF Next, vars, Begin, Reject, Compare, WriteSnapshot, Prune, Return, LoseAnswer, Fail

\* What the committing transaction knows: its snapshot is plausible against the
\* current one and its changes are those between the two.
LEMMA CommitKnows ==
    ASSUME SerialInv, NEW i \in Importers, Commit(i)
    PROVE  LET t == tx[i]
               shown == StateOf(LatestId(t.bank))
           IN  /\ t.bank \in Banks /\ t.parsed \in Portals
               /\ Sane(VisibleCount(shown.methods), VisibleCount(t.parsed.methods))
               /\ t.delta \in Deltas(LatestId(t.bank), shown, t.parsed)
<1>1. tx[i].phase = "pruned" /\ tx[i] \in Transaction
  BY DEF Commit, SerialInv, TypeInv, TypeOK
<1>2. QED
  BY <1>1 DEF SerialInv, BaseIsCurrent, InTransaction, Plausible, Transaction

\* The surface the feed adds up to, said of the newest import.
Replays(b) ==
    published[b] # <<>> =>
        \A k \in Unambiguous(b) : Believed(b, k) <=> k \in Surface(Latest(b).content.methods)

LEMMA ReplayStep ==
    ASSUME SerialImports, SerialInv, SerialInv', [Next]_vars,
           NEW b \in Banks, Replays(b)
    PROVE  Replays(b)'
<1>1. CASE ~ \E i \in Importers : Commit(i)
  <2>1. UNCHANGED <<snapshots, changes, published>>
    BY <1>1, OnlyCommitPublishes
  <2>2. QED
    BY <2>1 DEF Replays, Unambiguous, Believed, Adds, Removes, Latest
<1>2. ASSUME NEW i \in Importers, Commit(i)
      PROVE  Replays(b)'
  <2> DEFINE t == tx[i]
  <2>0. PICK n \in Nat : n = Len(published[b])
    BY DEF SerialInv, TypeInv, TypeOK
  <2>1. CASE b # t.bank
    <3>1. published'[b] = published[b] /\ changes'[b] = changes[b]
      BY <1>2, <2>1, CommitEffect
    <3>2. QED
      BY <3>1 DEF Replays, Unambiguous, Believed, Adds, Removes, Latest
  <2>2. CASE b = t.bank
    <3>1. /\ Len(published'[b]) = n + 1
          /\ published'[b][n + 1].content = t.parsed
          /\ changes'[b][n + 1].rows = t.delta
          /\ \A m \in 1..n : published'[b][m] = published[b][m]
          /\ \A m \in 1..n : changes'[b][m].rows = changes[b][m].rows
      BY <1>2, <2>0, <2>2, CommitEffect
    <3>2. /\ n \in Nat
          /\ DOMAIN published[b] = 1..n /\ DOMAIN changes[b] = 1..n
          /\ DOMAIN published'[b] = 1..(n + 1) /\ DOMAIN changes'[b] = 1..(n + 1)
          /\ published[b] # <<>> <=> n > 0
          /\ Latest(b)' = published'[b][n + 1]
      BY <2>0, <3>1 DEF SerialInv, TypeInv, TypeOK, BatchPerImport, Latest
    <3>3. /\ t.parsed \in Portals
          /\ t.delta \in Deltas(LatestId(b), StateOf(LatestId(b)), t.parsed)
      BY <1>2, <2>2, CommitKnows
    <3> SUFFICES ASSUME NEW k \in Unambiguous(b)'
                 PROVE  Believed(b, k)' <=> k \in Surface(t.parsed.methods)
      BY <3>1, <3>2 DEF Replays
    <3> HIDE DEF t
    <3>3a. /\ k \in Keys
           /\ \A m \in 1..n : AgreeOnHidden(published[b][m].content.methods, k)
           /\ AgreeOnHidden(t.parsed.methods, k)
      <4>1. k \in Keys /\ \A m \in 1..(n + 1) : AgreeOnHidden(published'[b][m].content.methods, k)
        BY <3>2 DEF Unambiguous
      <4>2. n + 1 \in 1..(n + 1) /\ \A m \in 1..n : m \in 1..(n + 1)
        BY <3>2
      <4>3. QED
        BY <3>1, <4>1, <4>2
    <3>3b. k \in Unambiguous(b)
      BY <3>2, <3>3a DEF Unambiguous
    <3>4. /\ \A m \in 1..n : /\ Adds(b, m, k)' <=> Adds(b, m, k)
                             /\ Removes(b, m, k)' <=> Removes(b, m, k)
          /\ Adds(b, n + 1, k)' <=> Announces(t.delta, "added", k)
          /\ Removes(b, n + 1, k)' <=> Announces(t.delta, "removed", k)
      BY <3>1 DEF Adds, Removes
    <3>5. CASE n = 0
      <4>1. t.delta = {}
        BY <3>2, <3>3, <3>5, CurrentIsLatest DEF Deltas
      <4>2. ~Announces(t.delta, "added", k) /\ ~Announces(t.delta, "removed", k)
        BY <4>1 DEF Announces
      <4>3. published'[b][1].content = t.parsed /\ DOMAIN changes'[b] = {1}
        BY <3>1, <3>2, <3>5
      <4>4. \A m \in DOMAIN changes'[b] : ~Adds(b, m, k)' /\ ~Removes(b, m, k)'
        BY <3>4, <3>5, <4>2, <4>3
      <4>5. QED
        BY <4>3, <4>4 DEF Believed
    <3>6. CASE n > 0
      <4> DEFINE old == Latest(b).content
      <4>1. /\ old \in Portals /\ AgreeOnHidden(old.methods, k)
            /\ \E idx \in StoredIndexes(old.methods) : t.delta = ComputeChanges(old, idx, t.parsed)
        <5>1. LatestId(b) > 0 /\ StateOf(LatestId(b)) = old
          BY <3>2, <3>6, CurrentIsLatest
        <5>2. Latest(b) = published[b][n] /\ n \in DOMAIN published[b]
          BY <2>0, <3>2, <3>6 DEF Latest
        <5>3. QED
          BY <3>2, <3>3, <3>3a, <5>1, <5>2 DEF Deltas, SerialInv, PublishedPortals
      <4>2. /\ Announces(t.delta, "added", k) <=>
                 k \notin Surface(old.methods) /\ k \in Surface(t.parsed.methods)
            /\ Announces(t.delta, "removed", k) <=>
                 k \in Surface(old.methods) /\ k \notin Surface(t.parsed.methods)
        BY <3>3, <3>3a, <4>1, DeltaTracksSurface, ImportAssumption
      <4>3. Believed(b, k) <=> k \in Surface(old.methods)
        BY <3>2, <3>3b, <3>6 DEF Replays
      <4>4. Believed(b, k)' <=>
              \/ Believed(b, k) /\ ~Removes(b, n + 1, k)'
              \/ Adds(b, n + 1, k)'
        <5>1. published'[b][1] = published[b][1]
          BY <3>1, <3>2, <3>6
        <5>2. ASSUME Believed(b, k)'
              PROVE  (Believed(b, k) /\ ~Removes(b, n + 1, k)') \/ Adds(b, n + 1, k)'
          <6>1. CASE /\ k \in Surface(published'[b][1].content.methods)
                     /\ \A m \in 1..(n + 1) : ~Removes(b, m, k)'
            BY <3>2, <3>4, <5>1, <6>1 DEF Believed
          <6>2. ASSUME NEW m \in 1..(n + 1), Adds(b, m, k)',
                       \A l \in 1..(n + 1) : l > m => ~Removes(b, l, k)'
                PROVE  (Believed(b, k) /\ ~Removes(b, n + 1, k)') \/ Adds(b, n + 1, k)'
            <7>1. CASE m = n + 1
              BY <6>2, <7>1
            <7>2. CASE m \in 1..n
              <8>1. Adds(b, m, k) /\ ~Removes(b, n + 1, k)'
                BY <3>2, <3>4, <6>2, <7>2
              <8>2. \A l \in 1..n : l > m => ~Removes(b, l, k)
                BY <3>2, <3>4, <6>2
              <8>3. QED
                BY <3>2, <7>2, <8>1, <8>2 DEF Believed
            <7>3. QED
              BY <3>2, <7>1, <7>2
          <6>3. QED
            BY <3>2, <5>2, <6>1, <6>2 DEF Believed
        <5>3. ASSUME Believed(b, k), ~Removes(b, n + 1, k)'
              PROVE  Believed(b, k)'
          <6>1. CASE /\ k \in Surface(published[b][1].content.methods)
                     /\ \A m \in 1..n : ~Removes(b, m, k)
            <7>1. \A m \in 1..(n + 1) : ~Removes(b, m, k)'
              BY <3>2, <3>4, <5>3, <6>1
            <7>2. QED
              BY <3>2, <5>1, <6>1, <7>1 DEF Believed
          <6>2. ASSUME NEW m \in 1..n, Adds(b, m, k),
                       \A l \in 1..n : l > m => ~Removes(b, l, k)
                PROVE  Believed(b, k)'
            <7>1. m \in 1..(n + 1) /\ Adds(b, m, k)'
              BY <3>2, <3>4, <6>2
            <7>2. \A l \in 1..(n + 1) : l > m => ~Removes(b, l, k)'
              BY <3>2, <3>4, <5>3, <6>2
            <7>3. QED
              BY <3>2, <7>1, <7>2 DEF Believed
          <6>3. QED
            BY <3>2, <5>3, <6>1, <6>2 DEF Believed
        <5>4. ASSUME Adds(b, n + 1, k)'
              PROVE  Believed(b, k)'
          BY <3>2, <5>4 DEF Believed
        <5>5. QED
          BY <5>2, <5>3, <5>4
      <4>5. QED
        BY <3>4, <4>2, <4>3, <4>4
    <3>7. QED
      BY <3>2, <3>5, <3>6
  <2>3. QED
    BY <2>1, <2>2
<1>3. QED
  BY <1>1, <1>2

\* The public feed adds up to the public surface the dashboard shows, after any
\* number of imports, rejections, roll-backs and clean-ups, for each method that
\* no import listed as public and as hidden at once.
THEOREM FeedReplaysTheorem ==
    ASSUME SerialImports
    PROVE  Spec => []FeedReplaysSurface
<1> DEFINE Inv == SerialInv /\ \A b \in Banks : Replays(b)
<1>1. Init => Inv
  <2>1. Init => \A b \in Banks : published[b] = <<>>
    BY DEF Init
  <2>2. QED
    BY <2>1, SerialInit DEF Replays
<1>2. Inv /\ [Next]_vars => Inv'
  <2> SUFFICES ASSUME Inv, [Next]_vars
               PROVE  Inv'
    OBVIOUS
  <2>1. SerialInv'
    BY SerialStep
  <2>2. \A b \in Banks : Replays(b)'
    BY <2>1, ReplayStep
  <2>3. QED
    BY <2>1, <2>2
<1>3. Inv => FeedReplaysSurface
  BY CurrentIsLatest DEF Replays, FeedReplaysSurface
<1>4. QED
  BY <1>1, <1>2, <1>3, PTL DEF Spec

\* Importing a portal that did not change stores no change but of methods it
\* lists more than once and not alike (of which MCImport_duplicates shows one).
THEOREM UnchangedPortalTheorem ==
    ASSUME SerialImports
    PROVE  Spec => []OnlyConflictsAreReported
<1> DEFINE Inv == SerialInv /\ OnlyConflictsAreReported
<1>1. Init => Inv
  BY SerialInit DEF Init, OnlyConflictsAreReported
<1>2. Inv /\ [Next]_vars => Inv'
  <2> SUFFICES ASSUME Inv, [Next]_vars
               PROVE  Inv'
    OBVIOUS
  <2>1. SerialInv'
    BY SerialStep
  <2>2. CASE ~ \E i \in Importers : Commit(i)
    BY <2>1, <2>2, OnlyCommitPublishes DEF OnlyConflictsAreReported, Unchanged
  <2>3. ASSUME NEW i \in Importers, Commit(i)
        PROVE  OnlyConflictsAreReported'
    <3> SUFFICES ASSUME NEW b \in Banks, NEW m \in DOMAIN published'[b], m > 1,
                        published'[b][m].content = published'[b][m - 1].content,
                        NEW c \in changes'[b][m].rows
                 PROVE  c.type # "service" /\ ~AreAlike(published'[b][m].content.methods, c.name)
      BY DEF OnlyConflictsAreReported, Unchanged
    <3>a. published[b] \in Seq([id: Nat, content: Snapshot])
      BY DEF SerialInv, TypeInv, TypeOK
    <3>0. PICK n \in Nat : n = Len(published[b]) /\ DOMAIN published[b] = 1..n
      BY <3>a
    <3>1. CASE b # tx[i].bank
      <4>1. published'[b] = published[b] /\ changes'[b] = changes[b]
        BY <2>1, <2>3, <3>1, CommitEffect
      <4>2. QED
        BY <4>1 DEF OnlyConflictsAreReported, Unchanged
    <3>2. CASE b = tx[i].bank
      <4>1. /\ Len(published'[b]) = n + 1
            /\ published'[b][n + 1].content = tx[i].parsed
            /\ changes'[b][n + 1].rows = tx[i].delta
            /\ \A l \in 1..n : published'[b][l] = published[b][l]
            /\ \A l \in 1..n : changes'[b][l].rows = changes[b][l].rows
        BY <2>1, <2>3, <3>0, <3>2, CommitEffect
      <4>2. m \in 1..(n + 1)
        BY <2>1, <4>1 DEF SerialInv, TypeInv, TypeOK
      <4>3. CASE m \in 1..n
        <5>1. m - 1 \in 1..n
          BY <4>3
        <5>2. published[b][m].content = published[b][m - 1].content
          BY <4>1, <4>3, <5>1
        <5>3. m \in DOMAIN published[b] /\ changes'[b][m].rows = changes[b][m].rows
          BY <3>0, <4>1, <4>3
        <5>4. QED
          BY <4>1, <4>3, <5>2, <5>3 DEF OnlyConflictsAreReported, Unchanged
      <4>4. CASE m = n + 1
        <5>1. n \in DOMAIN published[b] /\ published[b] # <<>> /\ Latest(b) = published[b][n]
          BY <3>0, <4>4 DEF Latest
        <5>2. Latest(b).content = tx[i].parsed
          BY <3>0, <4>1, <4>4, <5>1
        <5>3. LatestId(b) > 0 /\ StateOf(LatestId(b)) = tx[i].parsed
          BY <5>1, <5>2, CurrentIsLatest
        <5>3a. tx[i].delta \in Deltas(LatestId(b), tx[i].parsed, tx[i].parsed)
          BY <2>3, <3>2, <5>3, CommitKnows
        <5>3b. LatestId(b) # 0
          BY <5>3
        <5>4. PICK idx \in StoredIndexes(tx[i].parsed.methods) :
                 tx[i].delta = ComputeChanges(tx[i].parsed, idx, tx[i].parsed)
          BY <5>3a, <5>3b DEF Deltas
        <5>5. tx[i].parsed \in Portals
          BY <2>3, CommitKnows
        <5>6. \A d \in tx[i].delta : d.type # "service" /\ ~AreAlike(tx[i].parsed.methods, d.name)
          BY <5>4, <5>5, SameSnapshotIsSilent, ImportAssumption
        <5>7. QED
          BY <4>1, <4>4, <5>6
      <4>5. QED
        BY <4>2, <4>3, <4>4
    <3>3. QED
      BY <3>1, <3>2
  <2>4. QED
    BY <2>1, <2>2, <2>3
<1>3. QED
  BY <1>1, <1>2, PTL DEF Spec

LEMMA VisibleCountType ==
    ASSUME NEW ms \in Seq(Method)
    PROVE  VisibleCount(ms) \in Nat
<1>1. IsFiniteSet(1..Len(ms))
  BY FS_Interval
<1>2. IsFiniteSet({i \in DOMAIN ms : ~ms[i].hidden})
  BY <1>1, FS_Subset
<1>3. QED
  BY <1>2, FS_CardinalityType DEF VisibleCount

\* The public surface is never stored empty and never shrinks below the ratio
\* in one import, whichever portals are fetched.
THEOREM SurfaceNeverCollapsesTheorem ==
    ASSUME SerialImports
    PROVE  Spec => []SurfaceNeverCollapses
<1> DEFINE Inv == SerialInv /\ SurfaceNeverCollapses
<1>1. Init => Inv
  BY SerialInit DEF Init, SurfaceNeverCollapses
<1>2. Inv /\ [Next]_vars => Inv'
  <2> SUFFICES ASSUME Inv, [Next]_vars
               PROVE  Inv'
    OBVIOUS
  <2>1. SerialInv'
    BY SerialStep
  <2>2. CASE ~ \E i \in Importers : Commit(i)
    BY <2>1, <2>2, OnlyCommitPublishes DEF SurfaceNeverCollapses
  <2>3. ASSUME NEW i \in Importers, Commit(i)
        PROVE  SurfaceNeverCollapses'
    <3> DEFINE Count(s) == VisibleCount(s.methods)
    <3> SUFFICES ASSUME NEW b \in Banks, NEW m \in DOMAIN published'[b]
                 PROVE  /\ Count(published'[b][m].content) > 0
                        /\ m > 1 => Count(published'[b][m].content) * RatioDen
                                      >= Count(published'[b][m - 1].content) * RatioNum
      BY DEF SurfaceNeverCollapses
    <3>0. PICK n \in Nat : n = Len(published[b]) /\ DOMAIN published[b] = 1..n
      BY DEF SerialInv, TypeInv, TypeOK
    <3>1. CASE b # tx[i].bank
      <4>1. published'[b] = published[b]
        BY <2>1, <2>3, <3>1, CommitEffect
      <4>2. QED
        BY <4>1 DEF SurfaceNeverCollapses
    <3>2. CASE b = tx[i].bank
      <4>1. /\ Len(published'[b]) = n + 1
            /\ published'[b][n + 1].content = tx[i].parsed
            /\ \A l \in 1..n : published'[b][l] = published[b][l]
        BY <2>1, <2>3, <3>0, <3>2, CommitEffect
      <4>2. m \in 1..(n + 1)
        BY <2>1, <4>1 DEF SerialInv, TypeInv, TypeOK
      <4>3. CASE m \in 1..n
        <5>1. m > 1 => m - 1 \in 1..n
          BY <4>3
        <5>2. QED
          BY <3>0, <4>1, <4>3, <5>1 DEF SurfaceNeverCollapses
      <4>4. CASE m = n + 1
        <5> DEFINE shown == StateOf(LatestId(b))
        <5>1. Sane(Count(shown), Count(tx[i].parsed)) /\ tx[i].parsed \in Snapshot
          BY <2>3, <3>2, CommitKnows, ImportAssumption
        <5>2. shown \in Snapshot
          BY StateOfType DEF SerialInv, TypeInv
        <5>3. shown.methods \in Seq(Method) /\ tx[i].parsed.methods \in Seq(Method)
          BY <5>1, <5>2 DEF Snapshot
        <5>4. Count(shown) \in Nat /\ Count(tx[i].parsed) \in Nat
          BY <5>3, VisibleCountType
        <5>5. n > 0 => shown = published[b][n].content /\ published'[b][n] = published[b][n]
          BY <3>0, <4>1, CurrentIsLatest DEF Latest
        <5> HIDE DEF shown, Count
        <5>6. /\ Count(tx[i].parsed) > 0
              /\ Count(tx[i].parsed) * RatioDen >= Count(shown) * RatioNum
          <6>1. \A x, y \in Nat : Sane(x, y) => y > 0 /\ y * RatioDen >= x * RatioNum
            BY RatioAssumption DEF Sane
          <6>2. QED
            BY <5>1, <5>4, <6>1
        <5>7. QED
          BY <3>0, <4>1, <4>4, <5>5, <5>6
      <4>5. QED
        BY <4>2, <4>3, <4>4
    <3>3. QED
      BY <3>1, <3>2
  <2>4. QED
    BY <2>1, <2>2, <2>3
<1>3. QED
  BY <1>1, <1>2, PTL DEF Spec

\* No method that no import listed as public and as hidden at once is announced
\* as added twice without a removal in between.
THEOREM FeedAlternatesTheorem ==
    ASSUME SerialImports
    PROVE  Spec => []FeedAlternates
<1> DEFINE Inv == SerialInv /\ (\A b \in Banks : Replays(b)) /\ FeedAlternates
<1>1. Init => Inv
  BY SerialInit DEF Init, FeedAlternates, Replays
<1>2. Inv /\ [Next]_vars => Inv'
  <2> SUFFICES ASSUME Inv, [Next]_vars
               PROVE  Inv'
    OBVIOUS
  <2>1. SerialInv' /\ \A b \in Banks : Replays(b)'
    BY SerialStep, ReplayStep
  <2>2. CASE ~ \E i \in Importers : Commit(i)
    BY <2>1, <2>2, OnlyCommitPublishes DEF FeedAlternates, Unambiguous, Adds, Removes
  <2>3. ASSUME NEW i \in Importers, Commit(i)
        PROVE  FeedAlternates'
    <3> SUFFICES ASSUME NEW b \in Banks, NEW k \in Unambiguous(b)',
                        NEW m1 \in DOMAIN changes'[b], NEW m2 \in DOMAIN changes'[b],
                        m1 < m2, Adds(b, m1, k)', Adds(b, m2, k)'
                 PROVE  \E l \in m1..m2 : Removes(b, l, k)'
      BY DEF FeedAlternates
    <3>a. published \in [Banks -> Seq([id: Nat, content: Snapshot])]
      BY DEF SerialInv, TypeInv, TypeOK
    <3>0. PICK n \in Nat : n = Len(published[b])
      BY <3>a
    <3>1. CASE b # tx[i].bank
      <4>1. changes'[b] = changes[b] /\ published'[b] = published[b]
        BY <2>1, <2>3, <3>1, CommitEffect
      <4>2. QED
        BY <4>1 DEF FeedAlternates, Unambiguous, Adds, Removes
    <3>2. CASE b = tx[i].bank
      <4>1. /\ Len(published'[b]) = n + 1
            /\ changes'[b][n + 1].rows = tx[i].delta
            /\ published'[b][n + 1].content = tx[i].parsed
            /\ \A m \in 1..n : published'[b][m] = published[b][m]
            /\ \A m \in 1..n : changes'[b][m].rows = changes[b][m].rows
        BY <2>1, <2>3, <3>0, <3>2, CommitEffect
      <4>2. /\ DOMAIN changes[b] = 1..n /\ DOMAIN changes'[b] = 1..(n + 1)
            /\ DOMAIN published[b] = 1..n /\ DOMAIN published'[b] = 1..(n + 1)
            /\ n \in Nat
        BY <2>1, <3>0, <4>1 DEF SerialInv, TypeInv, TypeOK, BatchPerImport
      <4>2a. /\ k \in Keys
             /\ \A m \in 1..n : AgreeOnHidden(published[b][m].content.methods, k)
             /\ AgreeOnHidden(tx[i].parsed.methods, k)
        <5>1. k \in Keys /\ \A m \in 1..(n + 1) : AgreeOnHidden(published'[b][m].content.methods, k)
          BY <4>2 DEF Unambiguous
        <5>2. n + 1 \in 1..(n + 1) /\ \A m \in 1..n : m \in 1..(n + 1)
          BY <4>2
        <5>3. QED
          BY <4>1, <5>1, <5>2
      <4>2b. k \in Unambiguous(b)
        BY <4>2, <4>2a DEF Unambiguous
      <4>3. \A m \in 1..n : /\ Adds(b, m, k)' <=> Adds(b, m, k)
                            /\ Removes(b, m, k)' <=> Removes(b, m, k)
        BY <4>1 DEF Adds, Removes
      <4>4. m1 \in 1..n /\ Adds(b, m1, k)
        BY <4>2, <4>3
      <4>5. CASE m2 \in 1..n
        <5>1. PICK l \in m1..m2 : Removes(b, l, k)
          BY <4>2, <4>2b, <4>3, <4>4, <4>5 DEF FeedAlternates
        <5>2. QED
          BY <4>3, <4>4, <4>5, <5>1
      <4>6. CASE m2 = n + 1
        <5>1. Announces(tx[i].delta, "added", k)
          BY <4>1, <4>6 DEF Adds
        <5>2. /\ published[b] # <<>> /\ n \in DOMAIN published[b]
              /\ Latest(b) = published[b][n] /\ Latest(b).content \in Portals
          BY <3>0, <4>4 DEF Latest, SerialInv, TypeInv, TypeOK, PublishedPortals
        <5>3. LatestId(b) > 0 /\ StateOf(LatestId(b)) = Latest(b).content
          BY <5>2, CurrentIsLatest
        <5>4. /\ tx[i].parsed \in Portals
              /\ tx[i].delta \in Deltas(LatestId(b), Latest(b).content, tx[i].parsed)
          BY <2>3, <3>2, <5>3, CommitKnows
        <5>5. LatestId(b) # 0
          BY <5>3
        <5>6. PICK idx \in StoredIndexes(Latest(b).content.methods) :
                 tx[i].delta = ComputeChanges(Latest(b).content, idx, tx[i].parsed)
          BY <5>4, <5>5 DEF Deltas
        <5>7. k \notin Surface(Latest(b).content.methods)
          <6>1. AgreeOnHidden(Latest(b).content.methods, k)
            BY <4>2, <4>2a, <5>2
          <6>2. QED
            BY <4>2a, <5>1, <5>2, <5>4, <5>6, <6>1, DeltaTracksSurface, ImportAssumption
        <5>8. ~Believed(b, k)
          BY <4>2b, <5>2, <5>7 DEF Replays
        <5>9. PICK l \in DOMAIN changes[b] : l > m1 /\ Removes(b, l, k)
          BY <4>2, <4>4, <5>8 DEF Believed
        <5>10. l \in m1..m2 /\ Removes(b, l, k)'
          BY <4>2, <4>3, <4>4, <4>6, <5>9
        <5>11. QED
          BY <5>10
      <4>7. QED
        BY <4>2, <4>5, <4>6
    <3>3. QED
      BY <3>1, <3>2
  <2>4. QED
    BY <2>1, <2>2, <2>3
<1>3. QED
  BY <1>1, <1>2, PTL DEF Spec

\* Neither method nor service nor field that was hidden before and after an
\* import is named by the public feed, whatever the portals and the index that
\* the database gives.
THEOREM FeedHidesHiddenTheorem ==
    ASSUME SerialImports
    PROVE  Spec => []FeedHidesHidden
<1> DEFINE Inv == SerialInv /\ FeedHidesHidden
<1>1. Init => Inv
  BY SerialInit DEF Init, FeedHidesHidden
<1>2. Inv /\ [Next]_vars => Inv'
  <2> SUFFICES ASSUME Inv, [Next]_vars
               PROVE  Inv'
    OBVIOUS
  <2>1. SerialInv'
    BY SerialStep
  <2>2. CASE ~ \E i \in Importers : Commit(i)
    BY <2>1, <2>2, OnlyCommitPublishes DEF FeedHidesHidden
  <2>3. ASSUME NEW i \in Importers, Commit(i)
        PROVE  FeedHidesHidden'
    <3> DEFINE Named(c, s) == \/ c.type = "service" /\ c.name \in VisibleServices(s)
                              \/ c.type # "service" /\ c.name \in Surface(s.methods)
    <3> SUFFICES ASSUME NEW b \in Banks, NEW m \in DOMAIN changes'[b],
                        NEW c \in Public(changes'[b][m].rows)
                 PROVE  /\ m > 1
                        /\ \E s \in {published'[b][m - 1].content, published'[b][m].content} :
                              Named(c, s)
      BY DEF FeedHidesHidden
    <3> HIDE DEF Named
    <3>a. published \in [Banks -> Seq([id: Nat, content: Snapshot])]
      BY DEF SerialInv, TypeInv, TypeOK
    <3>0. PICK n \in Nat : n = Len(published[b])
      BY <3>a
    <3>1. CASE b # tx[i].bank
      <4>1. changes'[b] = changes[b] /\ published'[b] = published[b]
        BY <2>1, <2>3, <3>1, CommitEffect
      <4>2. QED
        BY <4>1 DEF FeedHidesHidden, Named
    <3>2. CASE b = tx[i].bank
      <4>1. /\ Len(published'[b]) = n + 1
            /\ published'[b][n + 1].content = tx[i].parsed
            /\ changes'[b][n + 1].rows = tx[i].delta
            /\ \A l \in 1..n : published'[b][l] = published[b][l]
            /\ \A l \in 1..n : changes'[b][l].rows = changes[b][l].rows
        BY <2>1, <2>3, <3>0, <3>2, CommitEffect
      <4>2. DOMAIN changes[b] = 1..n /\ DOMAIN changes'[b] = 1..(n + 1)
        BY <2>1, <3>0, <4>1 DEF SerialInv, TypeInv, TypeOK, BatchPerImport
      <4>3. CASE m \in 1..n
        <5>1. c \in Public(changes[b][m].rows)
          BY <4>1, <4>3
        <5>2. /\ m > 1
              /\ \E s \in {published[b][m - 1].content, published[b][m].content} : Named(c, s)
          BY <4>2, <4>3, <5>1 DEF FeedHidesHidden, Named
        <5>3. m - 1 \in 1..n
          BY <4>3, <5>2
        <5>4. QED
          BY <4>1, <4>3, <5>2, <5>3
      <4>a. n > 0 \/ m # n + 1
        <5> SUFFICES ASSUME n = 0, m = n + 1 PROVE FALSE
          OBVIOUS
        <5>1. published[b] = <<>>
          BY <3>0, <3>a
        <5>2. LatestId(b) = 0
          BY <5>1, CurrentIsLatest
        <5>3. tx[i].delta = {}
          BY <2>3, <3>2, <5>2, CommitKnows DEF Deltas
        <5>4. QED
          BY <4>1, <5>3 DEF Public
      <4>4. CASE m = n + 1
        <5>1. /\ published[b] # <<>> /\ n \in DOMAIN published[b]
              /\ Latest(b) = published[b][n] /\ Latest(b).content \in Portals
          BY <3>0, <3>a, <4>4, <4>a DEF Latest, SerialInv, PublishedPortals
        <5>2. LatestId(b) > 0 /\ StateOf(LatestId(b)) = Latest(b).content
          BY <5>1, CurrentIsLatest
        <5>3. /\ tx[i].parsed \in Portals
              /\ tx[i].delta \in Deltas(LatestId(b), Latest(b).content, tx[i].parsed)
          BY <2>3, <3>2, <5>2, CommitKnows
        <5>4. LatestId(b) # 0
          BY <5>2
        <5>5. PICK idx \in StoredIndexes(Latest(b).content.methods) :
                 tx[i].delta = ComputeChanges(Latest(b).content, idx, tx[i].parsed)
          BY <5>3, <5>4 DEF Deltas
        <5>6. \E s \in {Latest(b).content, tx[i].parsed} : Named(c, s)
          BY <4>1, <4>4, <5>1, <5>3, <5>5, DeltaNamesPublic, ImportAssumption DEF Named
        <5>7. published'[b][m - 1].content = Latest(b).content /\ published'[b][m].content = tx[i].parsed
          BY <3>0, <4>1, <4>4, <5>1
        <5>8. QED
          BY <4>4, <4>a, <5>6, <5>7
      <4>5. QED
        BY <4>2, <4>3, <4>4
    <3>3. QED
      BY <3>1, <3>2
  <2>4. QED
    BY <2>1, <2>2, <2>3
<1>3. QED
  BY <1>1, <1>2, PTL DEF Spec

\* The ids of a bank's imports grow; the stored rows are those of the last Keep.
IdsGrow ==
    \A b \in Banks : \A m, n \in DOMAIN published[b] :
        m < n => published[b][m].id < published[b][n].id

\* Of increasing ids, those from place m on are as many as their places.
LEMMA IdsAreCounted ==
    ASSUME NEW s, NEW n \in Nat, NEW m \in 1..n, NEW low \in 1..m,
           \A x \in low..n : s[x] \in Nat,
           \A x, y \in low..n : x < y => s[x] < s[y]
    PROVE  Cardinality({y \in {s[x] : x \in low..n} : y > s[m]}) = n - m
<1> DEFINE above == {y \in {s[x] : x \in low..n} : y > s[m]}
           f == [x \in (m + 1)..n |-> s[x]]
<1>1. \A x \in (m + 1)..n : x \in low..n /\ s[x] > s[m]
  OBVIOUS
<1>2. \A x \in low..n : s[x] > s[m] => x \in (m + 1)..n
  OBVIOUS
<1>3. above = {s[x] : x \in (m + 1)..n}
  BY <1>1, <1>2
<1>4. \A x, y \in (m + 1)..n : s[x] = s[y] => x = y
  BY <1>1
<1>5. f \in Bijection((m + 1)..n, above)
  <2>1. f \in [(m + 1)..n -> above]
    BY <1>3
  <2>2. \A x, y \in (m + 1)..n : f[x] = f[y] => x = y
    BY <1>4
  <2>3. \A y \in above : \E x \in (m + 1)..n : f[x] = y
    BY <1>3
  <2> HIDE DEF f, above
  <2>4. QED
    BY <2>1, <2>2, <2>3 DEF Bijection, Injection, Surjection, IsInjective
<1> HIDE DEF above, f
<1>6. ExistsBijection((m + 1)..n, above)
  BY <1>5 DEF ExistsBijection
<1>7. IsFiniteSet((m + 1)..n) /\ Cardinality((m + 1)..n) = n - m
  BY FS_Interval
<1>8. Cardinality(above) = n - m
  BY <1>6, <1>7, FS_Bijection
<1>9. QED
  BY <1>8 DEF above

\* Exactly the last Keep imports of a bank are stored, whatever was rejected or
\* rolled back between them.
THEOREM KeepsLatestImportsTheorem ==
    ASSUME SerialImports
    PROVE  Spec => []KeepsLatestImports
<1> DEFINE Inv == SerialInv /\ IdsGrow /\ KeepsLatestImports
<1>1. Init => Inv
  <2>1. Init => \A b \in Banks : IdsOf(b) = {} /\ published[b] = <<>>
    BY DEF Init, IdsOf, RowsOf
  <2>2. QED
    BY <2>1, SerialInit DEF IdsGrow, KeepsLatestImports
<1>2. Inv /\ [Next]_vars => Inv'
  <2> SUFFICES ASSUME Inv, [Next]_vars
               PROVE  Inv'
    OBVIOUS
  <2>1. SerialInv'
    BY SerialStep
  <2>2. CASE ~ \E i \in Importers : Commit(i)
    <3>1. UNCHANGED <<snapshots, published>>
      BY <2>2, OnlyCommitPublishes
    <3>2. QED
      BY <2>1, <3>1, SameStore DEF IdsGrow, KeepsLatestImports
  <2>3. ASSUME NEW i \in Importers, Commit(i), NEW b \in Banks
        PROVE  /\ \A m, n \in DOMAIN published'[b] : m < n => published'[b][m].id < published'[b][n].id
               /\ IdsOf(b)' = {published'[b][n].id :
                                 n \in {m \in DOMAIN published'[b] : m + Keep > Len(published'[b])}}
    <3> DEFINE t == tx[i]
               row == [id |-> t.id, bank |-> t.bank, content |-> t.parsed]
               entry == [id |-> t.id, content |-> t.parsed]
    <3>a. published \in [Banks -> Seq([id: Nat, content: Snapshot])]
      BY DEF SerialInv, TypeInv, TypeOK
    <3>0. PICK n \in Nat : n = Len(published[b])
      BY <3>a
    <3>1. /\ t.bank \in Banks /\ t.id \in Nat
          /\ \A r \in snapshots : r.id \in Nat /\ r.id < t.id
          /\ t.doomed = Superfluous(IdsOf(t.bank) \cup {t.id})
          /\ snapshots' = {r \in snapshots \cup {row} : r.id \notin t.doomed}
          /\ published' = [published EXCEPT ![t.bank] = Append(published[t.bank], entry)]
      BY <2>3 DEF Commit, SerialInv, TypeInv, TypeOK, Transaction, WrittenIsNewest, DoomedIsOld, Row
    <3>1a. row.bank = t.bank /\ row.id = t.id /\ entry.id = t.id
      OBVIOUS
    <3> HIDE DEF row, entry
    <3>2. CASE b # t.bank
      <4>1. published'[b] = published[b]
        BY <3>1, <3>2, <3>a
      <4>2. t.doomed \subseteq IdsOf(t.bank) \cup {t.id}
        BY <3>1 DEF Superfluous
      <4>3. \A r \in snapshots : r.bank = b => r.id \notin t.doomed
        BY <3>1, <3>2, <4>2 DEF IdsOf, RowsOf, SerialInv, RowIds
      <4>4. RowsOf(b)' = RowsOf(b)
        BY <3>1, <3>1a, <3>2, <4>3 DEF RowsOf
      <4>4a. IdsOf(b)' = IdsOf(b)
        BY <4>4 DEF IdsOf
      <4>5. QED
        BY <4>1, <4>4a DEF IdsGrow, KeepsLatestImports
    <3>3. CASE b = t.bank
      <4> DEFINE s == [x \in 1..(n + 1) |-> published'[b][x].id]
                 low == IF n + 1 > Keep THEN n + 1 - Keep ELSE 1
                 ids == IdsOf(b) \cup {t.id}
      <4>1. /\ published'[b] \in Seq([id: Nat, content: Snapshot])
            /\ Len(published'[b]) = n + 1 /\ published'[b][n + 1] = entry
            /\ \A x \in 1..n : published'[b][x] = published[b][x]
        <5>1. published'[b] = Append(published[b], entry) /\ published[b] \in Seq([id: Nat, content: Snapshot])
          BY <3>1, <3>3, <3>a
        <5>2. published'[b] \in Seq([id: Nat, content: Snapshot])
          BY <2>1 DEF SerialInv, TypeInv, TypeOK
        <5>3. QED
          BY <3>0, <5>1, <5>2
      <4>2. /\ DOMAIN published[b] = 1..n /\ DOMAIN published'[b] = 1..(n + 1)
            /\ \A x \in 1..(n + 1) : s[x] \in Nat /\ s[x] = published'[b][x].id
            /\ s[n + 1] = t.id
            /\ \A x \in 1..n : s[x] = published[b][x].id
        <5>1. DOMAIN published[b] = 1..n /\ DOMAIN published'[b] = 1..(n + 1)
          BY <3>0, <3>a, <4>1
        <5>2. \A x \in 1..(n + 1) : published'[b][x] \in [id: Nat, content: Snapshot]
          BY <4>1, <5>1, ElementOfSeq
        <5>3. \A x \in 1..(n + 1) : s[x] \in Nat /\ s[x] = published'[b][x].id
          BY <5>2
        <5>4. s[n + 1] = t.id
          <6>1. n + 1 \in 1..(n + 1)
            OBVIOUS
          <6>2. QED
            BY <3>1a, <4>1, <5>3, <6>1
        <5>5. \A x \in 1..n : s[x] = published[b][x].id
          BY <4>1, <5>3
        <5>6. QED
          BY <5>1, <5>3, <5>4, <5>5
      <4> HIDE DEF s
      <4>2a. \A x, y \in 1..n : x < y => s[x] < s[y]
        <5>1. \A x, y \in 1..n : x < y => published[b][x].id < published[b][y].id
          BY <4>2 DEF IdsGrow
        <5>2. QED
          BY <4>2, <5>1
      <4>3. \A x \in 1..n : s[x] < t.id
        <5>1. ASSUME n > 0
              PROVE  s[n] < t.id
          <6>1. [id |-> Latest(b).id, bank |-> b, content |-> Latest(b).content] \in snapshots
            BY <3>0, <3>a, <5>1 DEF SerialInv, LatestIsStored
          <6>2. Latest(b).id < t.id
            BY <3>1, <6>1
          <6>3. n \in 1..n
            BY <5>1
          <6>4. QED
            BY <3>0, <4>2, <6>2, <6>3 DEF Latest
        <5>2. ASSUME NEW x \in 1..n
              PROVE  s[x] < t.id
          <6>0. x \in Nat /\ x <= n /\ n \in 1..n
            BY <5>2
          <6>1. x = n \/ s[x] < s[n]
            BY <4>2a, <6>0
          <6>2. s[x] \in Nat /\ s[n] \in Nat /\ s[n] < t.id
            BY <4>2, <5>1
          <6>3. QED
            BY <3>1, <6>1, <6>2
        <5>3. QED
          BY <5>2
      <4>4. \A x, y \in 1..(n + 1) : x < y => s[x] < s[y]
        <5> SUFFICES ASSUME NEW x \in 1..(n + 1), NEW y \in 1..(n + 1), x < y
                     PROVE  s[x] < s[y]
          OBVIOUS
        <5>1. x \in 1..n /\ (y \in 1..n \/ y = n + 1)
          OBVIOUS
        <5>2. QED
          BY <4>2, <4>2a, <4>3, <5>1
      <4>5. Keep \in Nat /\ Keep > 1
        BY ImportAssumption
      <4>6. low \in 1..(n + 1) /\ \A x \in 1..(n + 1) : x >= low <=> x + Keep >= n + 1
        BY <4>5
      <4>7. ids = {s[x] : x \in low..(n + 1)}
        <5>1. IdsOf(b) = {published[b][x].id : x \in {m \in 1..n : m + Keep > n}}
          BY <3>0, <4>2 DEF KeepsLatestImports
        <5>2. \A x \in 1..n : x + Keep > n <=> x \in low..(n + 1)
          BY <4>5, <4>6
        <5>3. ASSUME NEW v
              PROVE  v \in ids <=> v \in {s[x] : x \in low..(n + 1)}
          <6>1. v \in IdsOf(b) <=> \E x \in 1..n : x \in low..(n + 1) /\ v = s[x]
            BY <4>2, <5>1, <5>2
          <6>2. low..(n + 1) = {x \in 1..n : x \in low..(n + 1)} \cup {n + 1}
            BY <4>6
          <6>3. QED
            BY <4>2, <6>1, <6>2
        <5>4. QED
          BY <5>3
      <4> HIDE DEF low
      <4>8. ASSUME NEW x \in low..(n + 1)
            PROVE  s[x] \in Superfluous(ids) <=> x + Keep <= n + 1
        <5>1. x \in 1..(n + 1) /\ low \in 1..x /\ s[x] \in ids
          BY <4>6, <4>7
        <5>2. \A z \in low..(n + 1) : z \in 1..(n + 1)
          BY <4>6
        <5>2a. \A z \in low..(n + 1) : s[z] \in Nat
          BY <4>2, <5>2
        <5>2b. \A y, z \in low..(n + 1) : y < z => s[y] < s[z]
          BY <4>4, <5>2
        <5>2c. PICK top \in Nat : top = n + 1
          OBVIOUS
        <5>2d. /\ x \in 1..top /\ low \in 1..x
               /\ \A z \in low..top : s[z] \in Nat
               /\ \A y, z \in low..top : y < z => s[y] < s[z]
          BY <5>1, <5>2a, <5>2b, <5>2c
        <5>2e. Cardinality({y \in {s[z] : z \in low..top} : y > s[x]}) = top - x
          BY <5>2d, IdsAreCounted
        <5>3. Cardinality({y \in {s[z] : z \in low..(n + 1)} : y > s[x]}) = n + 1 - x
          BY <5>2c, <5>2e
        <5>4. Cardinality({y \in ids : y > s[x]}) = n + 1 - x
          BY <4>7, <5>3
        <5> HIDE DEF ids
        <5>5a. s[x] \in Superfluous(ids) <=>
                  Keep >= 1 /\ Cardinality({y \in ids : y > s[x]}) >= Keep
          BY <5>1 DEF Superfluous
        <5>5. s[x] \in Superfluous(ids) <=> n + 1 - x >= Keep
          BY <4>5, <5>4, <5>5a
        <5>6. QED
          BY <4>5, <5>1, <5>5
      <4>9. IdsOf(b)' = ids \ Superfluous(ids)
        <5>1. t.doomed = Superfluous(ids)
          BY <3>1, <3>3
        <5>2. RowsOf(b)' = {r \in RowsOf(b) \cup {row} : r.id \notin Superfluous(ids)}
          BY <3>1, <3>1a, <3>3, <5>1 DEF RowsOf
        <5>3. QED
          BY <3>1a, <5>2 DEF IdsOf
      <4>10. ASSUME NEW v
             PROVE  v \in IdsOf(b)' <=> v \in {s[x] : x \in {m \in 1..(n + 1) : m + Keep > n + 1}}
        <5>1. v \in IdsOf(b)' => \E x \in low..(n + 1) : v = s[x] /\ x + Keep > n + 1
          <6>1. SUFFICES ASSUME v \in IdsOf(b)' PROVE \E x \in low..(n + 1) : v = s[x] /\ x + Keep > n + 1
            OBVIOUS
          <6>2. PICK x \in low..(n + 1) : v = s[x]
            BY <4>7, <4>9, <6>1
          <6>3. ~(x + Keep <= n + 1)
            BY <4>8, <4>9, <6>1, <6>2
          <6>4. x \in Nat
            BY <4>6
          <6>5. QED
            BY <4>5, <6>2, <6>3, <6>4
        <5>2. ASSUME NEW x \in 1..(n + 1), x + Keep > n + 1, v = s[x]
              PROVE  v \in IdsOf(b)'
          <6>1. x \in low..(n + 1)
            BY <4>5, <4>6, <5>2
          <6>2. s[x] \notin Superfluous(ids)
            BY <4>5, <4>8, <5>2, <6>1
          <6>3. QED
            BY <4>7, <4>9, <5>2, <6>1, <6>2
        <5>3. \A x \in low..(n + 1) : x \in 1..(n + 1)
          BY <4>6
        <5>4. QED
          BY <5>1, <5>2, <5>3
      <4>11. IdsOf(b)' = {published'[b][x].id : x \in {m \in 1..(n + 1) : m + Keep > n + 1}}
        BY <4>2, <4>10
      <4>12. \A x, y \in DOMAIN published'[b] : x < y => published'[b][x].id < published'[b][y].id
        BY <4>2, <4>4
      <4>13. DOMAIN published'[b] = 1..(n + 1) /\ Len(published'[b]) = n + 1
        BY <4>1, <4>2
      <4>14. QED
        BY <4>11, <4>12, <4>13
    <3>4. QED
      BY <3>2, <3>3
  <2>4. QED
    BY <2>1, <2>2, <2>3 DEF IdsGrow, KeepsLatestImports
<1>3. QED
  BY <1>1, <1>2, PTL DEF Spec

-----------------------------------------------------------------------------
(* Refinement *)

CurrentContent(b) ==
    IF published[b] = <<>> THEN NoSnapshot ELSE Latest(b).content

ShowsLatest == \A b \in Banks : StateOf(LatestId(b)) = CurrentContent(b)

LEMMA ShownIsCurrent == SerialInv => ShowsLatest
BY CurrentIsLatest DEF CurrentContent, ShowsLatest

LEMMA ShownIsCurrentNext == SerialInv' => ShowsLatest'
BY ShownIsCurrent, PTL

\* The comparison and the plausibility check are the abstract module's.
LEMMA SameComparison ==
    /\ \A ms : History!StoredIndexes(ms) = StoredIndexes(ms)
    /\ \A ms : History!VisibleCount(ms) = VisibleCount(ms)
    /\ \A x, y : History!Sane(x, y) <=> Sane(x, y)
    /\ \A prev, idx, new :
          History!ComputeChanges(prev, idx, new) = ComputeChanges(prev, idx, new)
<1>1. /\ \A ms : History!StoredIndexes(ms) = StoredIndexes(ms)
      /\ \A ms : History!FirstIndex(ms) = FirstIndex(ms)
  BY DEF History!StoredIndexes, StoredIndexes, History!FirstIndex, FirstIndex,
         History!KeysOf, KeysOf, History!Records, Records
<1>2. \A ms : History!VisibleCount(ms) = VisibleCount(ms)
  BY DEF History!VisibleCount, VisibleCount, History!Cardinality, Cardinality
<1>3. \A x, y : History!Sane(x, y) <=> Sane(x, y)
  BY DEF History!Sane, Sane
<1>4. \A ms : History!HiddenServices(ms) = HiddenServices(ms)
  BY DEF History!HiddenServices, HiddenServices, History!HiddenFlags, HiddenFlags,
         History!ServiceIsHidden, ServiceIsHidden, History!Records, Records
<1>5. \A prev, new : History!ServiceChanges(prev, new) = ServiceChanges(prev, new)
  BY <1>4 DEF History!ServiceChanges, ServiceChanges, History!ServiceChange, ServiceChange
<1>6. \A old, new : /\ History!MethodChanges(old, new) = MethodChanges(old, new)
                    /\ History!FlipChanges(old, new) = FlipChanges(old, new)
                    /\ History!FieldChanges(old, new) = FieldChanges(old, new)
  BY DEF History!MethodChanges, MethodChanges, History!MethodChange, MethodChange,
         History!FlipChanges, FlipChanges,
         History!FieldChanges, FieldChanges, History!FieldChange, FieldChange
<1>7. \A prev, idx, new :
         History!ComputeChanges(prev, idx, new) = ComputeChanges(prev, idx, new)
  BY <1>1, <1>5, <1>6 DEF History!ComputeChanges, ComputeChanges
<1>8. QED
  BY <1>1, <1>2, <1>3, <1>7

\* A commit is the abstract step that replaces snapshot and history at once.
LEMMA CommitPublishes ==
    ASSUME SerialInv, SerialInv', NEW i \in Importers, Commit(i)
    PROVE  History!Next
<1> DEFINE t == tx[i]
           Rows(b) == [n \in DOMAIN changes[b] |-> changes[b][n].rows]
<1>1. /\ t.bank \in Banks /\ t.parsed \in Portals
      /\ Sane(VisibleCount(StateOf(LatestId(t.bank)).methods), VisibleCount(t.parsed.methods))
      /\ t.delta \in Deltas(LatestId(t.bank), StateOf(LatestId(t.bank)), t.parsed)
  BY CommitKnows
<1>2. ASSUME NEW b \in Banks
      PROVE  StateOf(LatestId(b))' = IF b = t.bank THEN t.parsed ELSE StateOf(LatestId(b))
  <2>1. \A c \in Banks : StateOf(LatestId(c)) = CurrentContent(c)
    BY ShownIsCurrent DEF ShowsLatest
  <2>2. \A c \in Banks : StateOf(LatestId(c))' = CurrentContent(c)'
    BY ShownIsCurrentNext DEF ShowsLatest
  <2>3. PICK n \in Nat : n = Len(published[b]) /\ DOMAIN published[b] = 1..n
    BY DEF SerialInv, TypeInv, TypeOK
  <2>4. CASE b = t.bank
    <3>1. Len(published'[b]) = n + 1 /\ published'[b][n + 1].content = t.parsed
      BY <2>3, <2>4, CommitEffect
    <3>2. published'[b] # <<>> /\ Latest(b)'.content = t.parsed
      BY <3>1 DEF Latest
    <3>3. QED
      BY <2>2, <2>4, <3>2 DEF CurrentContent
  <2>5. CASE b # t.bank
    <3>1. published'[b] = published[b]
      BY <2>5, CommitEffect
    <3>2. QED
      BY <2>1, <2>2, <2>5, <3>1 DEF CurrentContent, Latest
  <2>6. QED
    BY <2>4, <2>5
<1>3. ASSUME NEW b \in Banks
      PROVE  Rows(b)' = IF b = t.bank THEN Append(Rows(b), t.delta) ELSE Rows(b)
  <2>1. PICK n \in Nat : /\ n = Len(published[b]) /\ n = Len(changes[b])
                         /\ DOMAIN changes[b] = 1..n
    BY DEF SerialInv, TypeInv, TypeOK, BatchPerImport
  <2>2. CASE b = t.bank
    <3>1. DOMAIN changes'[b] = 1..(n + 1)
      <4>1. Len(published'[b]) = n + 1
        BY <2>1, <2>2, CommitEffect
      <4>2. changes'[b] \in Seq(Batch) /\ Len(changes'[b]) = n + 1
        BY <4>1 DEF SerialInv, TypeInv, TypeOK, BatchPerImport
      <4>3. QED
        BY <4>2
    <3>2. /\ changes'[b][n + 1].rows = t.delta
          /\ \A m \in 1..n : changes'[b][m].rows = changes[b][m].rows
      BY <2>1, <2>2, CommitEffect
    <3>3. Rows(b)' = [m \in 1..(n + 1) |-> IF m = n + 1 THEN t.delta ELSE changes[b][m].rows]
      BY <3>1, <3>2
    <3>4. Rows(b) = [m \in 1..n |-> changes[b][m].rows]
      BY <2>1
    <3>5. Append([m \in 1..n |-> changes[b][m].rows], t.delta)
             = [m \in 1..(n + 1) |-> IF m = n + 1 THEN t.delta ELSE changes[b][m].rows]
      OBVIOUS
    <3>6. QED
      BY <2>2, <3>3, <3>4, <3>5
  <2>3. CASE b # t.bank
    BY <2>3, CommitEffect
  <2>4. QED
    BY <2>2, <2>3
<1>4. Rows(t.bank) = <<>> <=> LatestId(t.bank) = 0
  <2>1. published[t.bank] = <<>> <=> LatestId(t.bank) = 0
    BY <1>1, CurrentIsLatest
  <2>2. PICK n \in Nat : /\ n = Len(published[t.bank]) /\ n = Len(changes[t.bank])
                         /\ DOMAIN changes[t.bank] = 1..n /\ DOMAIN published[t.bank] = 1..n
                         /\ published[t.bank] = <<>> <=> n = 0
    BY <1>1 DEF SerialInv, TypeInv, TypeOK, BatchPerImport
  <2>3. Rows(t.bank) = <<>> <=> n = 0
    BY <2>2
  <2>4. QED
    BY <2>1, <2>2, <2>3
<1>5. t.delta \in History!Deltas(t.bank, t.parsed)
  <2>1. History!Deltas(t.bank, t.parsed)
          = Deltas(LatestId(t.bank), StateOf(LatestId(t.bank)), t.parsed)
    BY <1>1, <1>4, SameComparison DEF History!Deltas, Deltas
  <2>2. QED
    BY <1>1, <2>1
<1>6. [b \in Banks |-> Rows(b)]'
        = [[b \in Banks |-> Rows(b)] EXCEPT ![t.bank] = Append(@, t.delta)]
  BY <1>1, <1>3
<1>7. [b \in Banks |-> StateOf(LatestId(b))]'
        = [[b \in Banks |-> StateOf(LatestId(b))] EXCEPT ![t.bank] = t.parsed]
  BY <1>1, <1>2
<1>8. PICK b \in Banks, s \in Portals : b = t.bank /\ s = t.parsed
  BY <1>1
<1>9. History!Publish(b, s)
  BY <1>1, <1>5, <1>6, <1>7, <1>8, SameComparison DEF History!Publish
<1>10. QED
  BY <1>8, <1>9 DEF History!Next

\* Imports made one at a time implement BankHistory: whatever fails, is
\* rejected or pruned on the way, readers of the tables see whole imports only.
THEOREM ImplementsHistoryTheorem ==
    ASSUME SerialImports
    PROVE  Spec => ImplementsHistory
<1>1. Init => History!Init
  <2> SUFFICES ASSUME Init PROVE History!Init
    OBVIOUS
  <2>1. \A b \in Banks : StateOf(LatestId(b)) = NoSnapshot
    BY SerialInit, ShownIsCurrent DEF ShowsLatest, CurrentContent, Init
  <2>2. \A b \in Banks : [n \in DOMAIN changes[b] |-> changes[b][n].rows] = <<>>
    BY DEF Init
  <2>3. QED
    BY <2>1, <2>2 DEF History!Init
<1>2. SerialInv /\ SerialInv' /\ [Next]_vars => [History!Next]_(History!vars)
  <2> SUFFICES ASSUME SerialInv, SerialInv', [Next]_vars
               PROVE  [History!Next]_(History!vars)
    OBVIOUS
  <2>1. ASSUME NEW i \in Importers, Commit(i)
        PROVE  History!Next
    BY <2>1, CommitPublishes
  <2>2. CASE ~ \E i \in Importers : Commit(i)
    <3>1. UNCHANGED <<snapshots, changes>>
      BY <2>2, OnlyCommitPublishes
    <3>2. QED
      BY <3>1, SameStore DEF History!vars
  <2>3. QED
    BY <2>1, <2>2
<1>3. Spec => []SerialInv
  BY SerialInit, SerialStep, PTL DEF Spec
<1>4. QED
  BY <1>1, <1>2, <1>3, PTL DEF Spec, ImplementsHistory, History!Spec

-----------------------------------------------------------------------------
(* Imports that overlap: what holds for any number of transactions at once  *)

\* A batch of changes is there for every import, and none ever goes.
StoreInv == TypeInv /\ BatchPerImport

LEMMA StoreStep == StoreInv /\ [Next]_vars => StoreInv'
<1> SUFFICES ASSUME StoreInv, [Next]_vars
             PROVE  BatchPerImport'
  BY TypeInvStep DEF StoreInv
<1>1. CASE ~ \E i \in Importers : Commit(i)
  BY <1>1, OnlyCommitPublishes DEF StoreInv, BatchPerImport
<1>2. ASSUME NEW i \in Importers, Commit(i)
      PROVE  BatchPerImport'
  <2> SUFFICES ASSUME NEW b \in Banks
               PROVE  Len(changes'[b]) = Len(published'[b])
    BY DEF BatchPerImport
  <2>1. QED
    BY <1>2, CommitAppends DEF StoreInv, BatchPerImport
<1>3. QED
  BY <1>1, <1>2

LEMMA StoreHolds == Spec => []StoreInv
<1>1. Init => StoreInv
  BY TypeInvInit DEF StoreInv, BatchPerImport, Init
<1>2. QED
  BY <1>1, StoreStep, PTL DEF Spec

\* Whatever is pruned, by whom and in which order, no row of the history goes.
THEOREM HistoryIsForeverTheorem == Spec => HistoryIsForever
<1>1. StoreInv /\ [Next]_vars =>
        [\A b \in Banks : \A n \in DOMAIN changes[b] :
            n \in DOMAIN changes'[b] /\ changes'[b][n].rows = changes[b][n].rows]_changes
  <2> SUFFICES ASSUME StoreInv, [Next]_vars, changes' # changes,
                      NEW b \in Banks, NEW n \in DOMAIN changes[b]
               PROVE  n \in DOMAIN changes'[b] /\ changes'[b][n].rows = changes[b][n].rows
    OBVIOUS
  <2>1. PICK i \in Importers : Commit(i)
    BY OnlyCommitPublishes
  <2>2. /\ changes[b] \in Seq(Batch) /\ Len(changes[b]) = Len(published[b])
        /\ n \in 1..Len(published[b])
    BY DEF StoreInv, TypeInv, TypeOK, BatchPerImport
  <2>3. changes'[b] \in Seq(Batch)
    BY StoreStep DEF StoreInv, TypeInv, TypeOK
  <2>4. CASE b = tx[i].bank
    <3>1. /\ Len(changes'[b]) = Len(published[b]) + 1
          /\ changes'[b][n].rows = changes[b][n].rows
      BY <2>1, <2>2, <2>4, CommitAppends DEF StoreInv
    <3>2. QED
      BY <2>2, <2>3, <3>1
  <2>5. CASE b # tx[i].bank
    BY <2>1, <2>5, CommitAppends DEF StoreInv
  <2>6. QED
    BY <2>4, <2>5
<1>2. QED
  BY <1>1, StoreHolds, PTL DEF Spec, HistoryIsForever

\* The import with this id was committed, and these are its changes.
Stored(b, id, rows) ==
    \E n \in DOMAIN published[b] : published[b][n].id = id /\ changes[b][n].rows = rows

\* A call has no result before it ends; what it is about to return is stored.
AnswersAreStored ==
    \A i \in Importers :
        /\ tx[i].phase # "idle" => tx[i].result = "none"
        /\ tx[i].phase = "committed" => Stored(tx[i].bank, tx[i].id, tx[i].delta)

AnswerInv == StoreInv /\ AnswersAreStored /\ ReturnsWhatWasStored

\* What is stored stays so.
LEMMA StoredStays ==
    ASSUME StoreInv, [Next]_vars, NEW b \in Banks, NEW n \in DOMAIN published[b]
    PROVE  /\ n \in DOMAIN published'[b]
           /\ published'[b][n].id = published[b][n].id
           /\ changes'[b][n].rows = changes[b][n].rows
<1>0. /\ published[b] \in Seq([id: Nat, content: Snapshot])
      /\ published'[b] \in Seq([id: Nat, content: Snapshot])
  BY StoreStep DEF StoreInv, TypeInv, TypeOK
<1>0a. n \in 1..Len(published[b])
  BY <1>0
<1>1. CASE ~ \E i \in Importers : Commit(i)
  BY <1>1, OnlyCommitPublishes
<1>2. ASSUME NEW i \in Importers, Commit(i)
      PROVE  /\ n \in DOMAIN published'[b]
             /\ published'[b][n].id = published[b][n].id
             /\ changes'[b][n].rows = changes[b][n].rows
  <2>1. CASE b = tx[i].bank
    <3>1. /\ Len(published'[b]) = Len(published[b]) + 1
          /\ published'[b][n] = published[b][n]
          /\ changes'[b][n].rows = changes[b][n].rows
      BY <1>0a, <1>2, <2>1, CommitAppends DEF StoreInv
    <3>2. n \in DOMAIN published'[b]
      BY <1>0, <1>0a, <3>1
    <3>3. QED
      BY <3>1, <3>2
  <2>2. CASE b # tx[i].bank
    BY <1>2, <2>2, CommitAppends DEF StoreInv
  <2>3. QED
    BY <2>1, <2>2
<1>3. QED
  BY <1>1, <1>2

\* A step of importer i leaves the answers of the others as they are.
LEMMA AnswerLocalStep ==
    ASSUME AnswerInv, [Next]_vars, NEW i \in Importers, NEW t \in Transaction,
           tx' = [tx EXCEPT ![i] = t],
           t.phase # "idle" => t.result = "none",
           t.phase = "committed" => Stored(t.bank, t.id, t.delta)',
           t.result = "done" =>
              \E n \in DOMAIN published'[t.bank] :
                 /\ published'[t.bank][n].id = t.id
                 /\ t.delta = Public(changes'[t.bank][n].rows)
    PROVE  AnswerInv'
<1>1. StoreInv'
  BY StoreStep DEF AnswerInv
<1>2. tx' \in [Importers -> Transaction] /\ tx'[i] = t /\ \A j \in Importers : j # i => tx'[j] = tx[j]
  BY DEF AnswerInv, StoreInv, TypeInv, TypeOK
<1>3. ASSUME NEW j \in Importers, j # i, tx[j].phase = "committed"
      PROVE  Stored(tx[j].bank, tx[j].id, tx[j].delta)'
  <2>0. tx[j].bank \in Banks /\ tx'[j] = tx[j]
    BY <1>2, <1>3 DEF AnswerInv, StoreInv, TypeInv, TypeOK, Transaction
  <2>1. PICK n \in DOMAIN published[tx[j].bank] :
           published[tx[j].bank][n].id = tx[j].id /\ changes[tx[j].bank][n].rows = tx[j].delta
    BY <1>3 DEF AnswerInv, AnswersAreStored, Stored
  <2>2. /\ n \in DOMAIN published'[tx[j].bank]
        /\ published'[tx[j].bank][n].id = published[tx[j].bank][n].id
        /\ changes'[tx[j].bank][n].rows = changes[tx[j].bank][n].rows
    <3>1. StoreInv /\ [Next]_vars
      BY DEF AnswerInv
    <3>2. QED
      BY <2>0, <2>1, <3>1, StoredStays
  <2>3. QED
    BY <2>0, <2>1, <2>2 DEF Stored
<1>4. ASSUME NEW j \in Importers, j # i, tx[j].result = "done"
      PROVE  \E n \in DOMAIN published'[tx'[j].bank] :
                /\ published'[tx'[j].bank][n].id = tx'[j].id
                /\ tx'[j].delta = Public(changes'[tx'[j].bank][n].rows)
  <2>0. tx[j].bank \in Banks /\ tx'[j] = tx[j]
    BY <1>2, <1>4 DEF AnswerInv, StoreInv, TypeInv, TypeOK, Transaction
  <2>1. PICK n \in DOMAIN published[tx[j].bank] :
           published[tx[j].bank][n].id = tx[j].id
           /\ tx[j].delta = Public(changes[tx[j].bank][n].rows)
    BY <1>4 DEF AnswerInv, ReturnsWhatWasStored
  <2>2. /\ n \in DOMAIN published'[tx[j].bank]
        /\ published'[tx[j].bank][n].id = published[tx[j].bank][n].id
        /\ changes'[tx[j].bank][n].rows = changes[tx[j].bank][n].rows
    <3>1. StoreInv /\ [Next]_vars
      BY DEF AnswerInv
    <3>2. QED
      BY <2>0, <2>1, <3>1, StoredStays
  <2>3. QED
    BY <2>0, <2>1, <2>2
<1>5. AnswersAreStored'
  BY <1>2, <1>3 DEF AnswerInv, AnswersAreStored
<1>6. ReturnsWhatWasStored'
  BY <1>2, <1>4 DEF ReturnsWhatWasStored
<1>7. QED
  BY <1>1, <1>5, <1>6 DEF AnswerInv

LEMMA AnswerStep == AnswerInv /\ [Next]_vars => AnswerInv'
<1> SUFFICES ASSUME AnswerInv, [Next]_vars
             PROVE  AnswerInv'
  OBVIOUS
<1>0. \A i \in Importers : tx[i] \in Transaction
  BY DEF AnswerInv, StoreInv, TypeInv, TypeOK
<1>a. StoreInv' /\ tx' \in [Importers -> Transaction]
  BY StoreStep DEF AnswerInv, StoreInv, TypeInv, TypeOK
<1>1. ASSUME NEW i \in Importers, NEW b \in Banks, NEW s \in Portals, Begin(i, b, s)
      PROVE  AnswerInv'
  <2> DEFINE t == [NoCall EXCEPT !.phase = "state", !.bank = b, !.parsed = s,
                                 !.prev = LatestId(b)]
  <2>1. tx' = [tx EXCEPT ![i] = t]
    BY <1>1 DEF Begin
  <2>2. t.phase = "state" /\ t.result = "none"
    BY DEF NoCall
  <2> HIDE DEF t
  <2>3. t \in Transaction
    BY <1>0, <1>a, <2>1 DEF AnswerInv, StoreInv, TypeInv, TypeOK
  <2>4. QED
    BY <2>1, <2>2, <2>3, AnswerLocalStep
<1>2. ASSUME NEW i \in Importers, NEW t, tx' = [tx EXCEPT ![i] = t],
             t.phase \in {"diffed", "written", "pruned"}, t.result = "none"
      PROVE  AnswerInv'
  <2>1. t \in Transaction
    BY <1>0, <1>a, <1>2 DEF AnswerInv, StoreInv, TypeInv, TypeOK
  <2>2. QED
    BY <1>2, <2>1, AnswerLocalStep
<1>3. ASSUME NEW i \in Importers, Compare(i)
      PROVE  AnswerInv'
  <2>1. PICK delta : tx' = [tx EXCEPT ![i].phase = "diffed", ![i].delta = delta]
    BY <1>3 DEF Compare
  <2>2. tx[i].result = "none"
    BY <1>3 DEF Compare, AnswerInv, AnswersAreStored
  <2> DEFINE t == [tx[i] EXCEPT !.phase = "diffed", !.delta = delta]
  <2>3. t.phase = "diffed" /\ t.result = "none"
    BY <1>0, <2>2 DEF Transaction
  <2>4. tx' = [tx EXCEPT ![i] = t]
    BY <2>1
  <2> HIDE DEF t
  <2>5. QED
    BY <1>2, <2>3, <2>4
<1>4. ASSUME NEW i \in Importers, WriteSnapshot(i)
      PROVE  AnswerInv'
  <2> DEFINE t == [tx[i] EXCEPT !.phase = "written", !.id = nextId]
  <2>1. t.phase = "written" /\ t.result = "none"
    BY <1>0, <1>4 DEF WriteSnapshot, AnswerInv, AnswersAreStored, Transaction
  <2>2. tx' = [tx EXCEPT ![i] = t]
    BY <1>4 DEF WriteSnapshot
  <2> HIDE DEF t
  <2>3. QED
    BY <1>2, <2>1, <2>2
<1>5. ASSUME NEW i \in Importers, Prune(i)
      PROVE  AnswerInv'
  <2> DEFINE t == [tx[i] EXCEPT !.phase = "pruned",
                                !.doomed = Superfluous(IdsOf(tx[i].bank) \cup {tx[i].id})]
  <2>1. t.phase = "pruned" /\ t.result = "none"
    BY <1>0, <1>5 DEF Prune, AnswerInv, AnswersAreStored, Transaction
  <2>2. tx' = [tx EXCEPT ![i] = t]
    BY <1>5 DEF Prune
  <2> HIDE DEF t
  <2>3. QED
    BY <1>2, <2>1, <2>2
<1>6. ASSUME NEW i \in Importers, Commit(i)
      PROVE  AnswerInv'
  <2>1. PICK t : t = [tx[i] EXCEPT !.phase = "committed"]
    OBVIOUS
  <2>2. PICK b \in Banks : b = tx[i].bank
    BY <1>0 DEF Transaction
  <2>3. /\ tx' = [tx EXCEPT ![i] = t]
        /\ t.phase = "committed" /\ t.result = "none"
        /\ t.bank = b /\ t.id = tx[i].id /\ t.delta = tx[i].delta
    BY <1>0, <1>6, <2>1, <2>2 DEF Commit, AnswerInv, AnswersAreStored, Transaction
  <2>4. t \in Transaction
    BY <1>0, <1>a, <2>3 DEF AnswerInv, StoreInv, TypeInv, TypeOK
  <2>5. PICK n \in Nat : n = Len(published[b])
    BY DEF AnswerInv, StoreInv, TypeInv, TypeOK
  <2>6. /\ Len(published'[b]) = n + 1
        /\ published'[b][n + 1] = [id |-> tx[i].id, content |-> tx[i].parsed]
        /\ changes'[b][n + 1].rows = tx[i].delta
    BY <1>6, <2>2, <2>5, CommitAppends DEF AnswerInv, StoreInv
  <2>7. published'[b] \in Seq([id: Nat, content: Snapshot])
    BY <1>a DEF StoreInv, TypeInv, TypeOK
  <2>8. n + 1 \in DOMAIN published'[b] /\ published'[b][n + 1].id = t.id
    BY <2>3, <2>6, <2>7
  <2>9. Stored(t.bank, t.id, t.delta)'
    BY <2>3, <2>6, <2>8 DEF Stored
  <2>10. QED
    BY <2>3, <2>4, <2>9, AnswerLocalStep
<1>7. ASSUME NEW i \in Importers, NEW result \in {"done", "failed", "rejected"},
             tx' = [tx EXCEPT ![i] = Finished(tx[i], result)],
             UNCHANGED <<changes, published>>,
             result = "done" => tx[i].phase = "committed"
      PROVE  AnswerInv'
  <2>1. PICK t : t = Finished(tx[i], result)
    OBVIOUS
  <2>2. /\ t \in Transaction /\ t.phase = "idle" /\ t.result = result
        /\ t.bank = tx[i].bank /\ t.id = tx[i].id
        /\ (result = "done" => t.delta = Public(tx[i].delta))
    BY <1>0, <2>1, FinishedType DEF Finished, NoCall, Results
  <2>3. ASSUME result = "done"
        PROVE  \E n \in DOMAIN published'[t.bank] :
                  /\ published'[t.bank][n].id = t.id
                  /\ t.delta = Public(changes'[t.bank][n].rows)
    <3>1. Stored(tx[i].bank, tx[i].id, tx[i].delta)
      BY <1>7, <2>3 DEF AnswerInv, AnswersAreStored
    <3>2. QED
      BY <1>7, <2>2, <2>3, <3>1 DEF Stored
  <2>4. tx' = [tx EXCEPT ![i] = t]
    BY <1>7, <2>1
  <2>5. QED
    BY <2>2, <2>3, <2>4, AnswerLocalStep
<1>8. CASE UNCHANGED vars
  BY <1>a, <1>8 DEF vars, AnswerInv, AnswersAreStored, Stored, ReturnsWhatWasStored
<1>9. QED
  <2>1. ASSUME NEW i \in Importers, Reject(i) \/ Return(i) \/ LoseAnswer(i) \/ Fail(i)
        PROVE  AnswerInv'
    BY <1>7, <2>1 DEF Reject, Return, LoseAnswer, Fail
  <2>2. QED
    BY <1>1, <1>3, <1>4, <1>5, <1>6, <1>8, <2>1 DEF Next

\* However imports overlap: what a call returns is the public part of the batch
\* that this very call stored.
THEOREM ReturnsWhatWasStoredTheorem == Spec => []ReturnsWhatWasStored
<1>1. Init => AnswerInv
  <2>1. Init => StoreInv
    BY TypeInvInit DEF StoreInv, BatchPerImport, Init
  <2>2. Init => AnswersAreStored /\ ReturnsWhatWasStored
    BY DEF Init, NoCall, AnswersAreStored, ReturnsWhatWasStored
  <2>3. QED
    BY <2>1, <2>2 DEF AnswerInv
<1>2. AnswerInv => ReturnsWhatWasStored
  BY DEF AnswerInv
<1>3. QED
  BY <1>1, <1>2, AnswerStep, PTL DEF Spec

\* Ids name one row or one transaction, also when the transactions overlap.
IdsAreOwn ==
    /\ RowIds
    /\ \A i \in Importers : tx[i].phase \in {"written", "pruned"} =>
          /\ tx[i].id > 0
          /\ \A r \in snapshots : r.id # tx[i].id
          /\ \A j \in Importers : tx[j].phase \in {"written", "pruned"} /\ tx[j].id = tx[i].id => j = i

\* What a clean-up has chosen is of its bank, and a newer row of it is stored.
DoomedIsSuperseded ==
    \A i \in Importers : tx[i].phase = "pruned" => \A x \in tx[i].doomed :
        /\ x < nextId
        /\ \A r \in snapshots : r.id = x => r.bank = tx[i].bank
        /\ \A j \in Importers : tx[j].phase \in {"written", "pruned"} /\ tx[j].id = x =>
              tx[j].bank = tx[i].bank
        /\ \E r \in snapshots : r.bank = tx[i].bank /\ r.id > x

OverlapInv == TypeInv /\ IdsAreOwn /\ DoomedIsSuperseded

\* Of the ids of a bank and one more, the superfluous ones are not the greatest
\* of the bank's: Keep is at least two.
LEMMA SuperfluousIsOld ==
    ASSUME NEW ids, NEW id, NEW x \in Superfluous(ids \cup {id})
    PROVE  x \in ids \cup {id} /\ \E y \in ids : y > x
<1> DEFINE above == {y \in ids \cup {id} : y > x}
<1>1. x \in ids \cup {id} /\ Cardinality(above) >= Keep
  BY DEF Superfluous
<1>2. Keep \in Nat /\ Keep > 1
  BY ImportAssumption
<1>3. ASSUME ~ \E y \in ids : y > x
      PROVE  FALSE
  <2>1. above = {} \/ above = {id}
    BY <1>3
  <2> HIDE DEF above
  <2>2. Cardinality(above) \in {0, 1}
    <3>1. CASE above = {}
      BY <3>1, FS_EmptySet
    <3>2. CASE above = {id}
      BY <3>2, FS_Singleton
    <3>3. QED
      BY <2>1, <3>1, <3>2
  <2>3. QED
    BY <1>1, <1>2, <2>2
<1>4. QED
  BY <1>1, <1>3

\* The rows that a commit leaves.
LEMMA CommitKeepsNewest ==
    ASSUME OverlapInv, NEW i \in Importers, Commit(i), NEW b \in Banks, NEW old \in snapshots,
           old.bank = b
    PROVE  \E r \in snapshots' : r \in snapshots /\ r.bank = b /\ r.id >= old.id
<1>0. /\ \A r \in snapshots : r.id \in Nat /\ r.id < nextId
      /\ nextId \in Nat
      /\ tx[i] \in Transaction /\ tx[i].phase = "pruned"
      /\ \A r \in snapshots : r.id \notin tx[i].doomed => r \in snapshots'
  BY DEF OverlapInv, TypeInv, TypeOK, IdsBelowNext, Row, Commit
<1>1. CASE b # tx[i].bank
  <2>1. old.id \notin tx[i].doomed
    BY <1>0, <1>1 DEF OverlapInv, DoomedIsSuperseded
  <2>2. old.id >= old.id
    BY <1>0
  <2>3. QED
    BY <1>0, <2>1, <2>2
<1>2. CASE b = tx[i].bank
  <2> DEFINE newer == {r.id : r \in {q \in snapshots : q.bank = b /\ q.id >= old.id}}
  <2>1. old.id \in newer
    BY <1>0
  <2>2. newer \in SUBSET Nat /\ \A x \in newer : x < nextId
    BY <1>0
  <2> HIDE DEF newer
  <2>3. PICK x \in newer : \A y \in newer : y <= x
    BY <1>0, <2>1, <2>2, GreatestBelow
  <2>4. PICK r \in snapshots : r.id = x /\ r.bank = b /\ r.id >= old.id
    BY <2>3 DEF newer
  <2>5. ASSUME r.id \in tx[i].doomed
        PROVE  FALSE
    <3>1. PICK q \in snapshots : q.bank = b /\ q.id > r.id
      BY <1>0, <1>2, <2>5 DEF OverlapInv, DoomedIsSuperseded
    <3>2. q.id \in Nat /\ r.id \in Nat /\ old.id \in Nat
      BY <1>0
    <3>3. q.id \in newer
      BY <2>4, <3>1, <3>2 DEF newer
    <3>4. QED
      BY <2>3, <2>4, <3>1, <3>2, <3>3
  <2>6. QED
    BY <1>0, <2>4, <2>5
<1>3. QED
  BY <1>1, <1>2

\* A step of one importer that leaves the rows alone, writes no id and chooses
\* nothing anew.
LEMMA OverlapLocalStep ==
    ASSUME OverlapInv, TypeInv', NEW i \in Importers, NEW t \in Transaction,
           tx' = [tx EXCEPT ![i] = t],
           UNCHANGED <<snapshots, nextId>>,
           t.phase \notin {"written", "pruned"}
    PROVE  OverlapInv'
<1>1. tx'[i] = t /\ \A j \in Importers : j # i => tx'[j] = tx[j]
  BY DEF OverlapInv, TypeInv, TypeOK
<1>2. IdsAreOwn'
  BY <1>1 DEF OverlapInv, IdsAreOwn, RowIds
<1>3. DoomedIsSuperseded'
  <2> SUFFICES ASSUME NEW j \in Importers, tx'[j].phase = "pruned", NEW x \in tx'[j].doomed
               PROVE  /\ x < nextId'
                      /\ \A r \in snapshots' : r.id = x => r.bank = tx'[j].bank
                      /\ \A k \in Importers :
                            tx'[k].phase \in {"written", "pruned"} /\ tx'[k].id = x =>
                               tx'[k].bank = tx'[j].bank
                      /\ \E r \in snapshots' : r.bank = tx'[j].bank /\ r.id > x
    BY DEF DoomedIsSuperseded
  <2>1. j # i /\ tx'[j] = tx[j] /\ \A k \in Importers : tx'[k].phase \in {"written", "pruned"} => tx'[k] = tx[k]
    BY <1>1
  <2>2. QED
    BY <2>1 DEF OverlapInv, DoomedIsSuperseded
<1>4. QED
  BY <1>2, <1>3 DEF OverlapInv

LEMMA OverlapCommit ==
    ASSUME OverlapInv, TypeInv', NEW i \in Importers, Commit(i)
    PROVE  OverlapInv'
<1> DEFINE t == tx[i]
           row == [id |-> t.id, bank |-> t.bank, content |-> t.parsed]
<1>0. /\ t.phase = "pruned" /\ t \in Transaction /\ t.id > 0
      /\ \A r \in snapshots : r.id # t.id
      /\ \A j \in Importers : tx[j].phase \in {"written", "pruned"} /\ tx[j].id = t.id => j = i
  BY DEF Commit, OverlapInv, TypeInv, TypeOK, IdsAreOwn
<1>1. /\ snapshots' \subseteq snapshots \cup {row}
      /\ row.id = t.id /\ row.bank = t.bank
      /\ nextId' = nextId
      /\ \A j \in Importers : tx'[j].phase \in {"written", "pruned"} => tx'[j] = tx[j] /\ j # i
  <2>1. tx' = [tx EXCEPT ![i] = [tx[i] EXCEPT !.phase = "committed"]]
    BY DEF Commit
  <2>2. [tx[i] EXCEPT !.phase = "committed"].phase = "committed"
    BY <1>0 DEF Transaction
  <2>3. tx \in [Importers -> Transaction]
    BY DEF OverlapInv, TypeInv, TypeOK
  <2>4. \A j \in Importers : tx'[j].phase \in {"written", "pruned"} => tx'[j] = tx[j] /\ j # i
    BY <2>1, <2>2, <2>3
  <2>5. QED
    BY <2>4 DEF Commit
<1> HIDE DEF row
<1>2. IdsAreOwn'
  <2>1. RowIds'
    BY <1>0, <1>1 DEF OverlapInv, IdsAreOwn, RowIds
  <2>2. ASSUME NEW j \in Importers, tx'[j].phase \in {"written", "pruned"}
        PROVE  /\ tx'[j].id > 0
               /\ \A r \in snapshots' : r.id # tx'[j].id
               /\ \A k \in Importers : tx'[k].phase \in {"written", "pruned"} /\ tx'[k].id = tx'[j].id => k = j
    <3>1. tx'[j] = tx[j] /\ j # i
      BY <1>1, <2>2
    <3>2. \A r \in snapshots' : r.id # tx[j].id
      BY <1>0, <1>1, <2>2, <3>1 DEF OverlapInv, IdsAreOwn
    <3>3. QED
      BY <1>1, <2>2, <3>1, <3>2 DEF OverlapInv, IdsAreOwn
  <2>3. QED
    BY <2>1, <2>2 DEF IdsAreOwn
<1>3. DoomedIsSuperseded'
  <2> SUFFICES ASSUME NEW j \in Importers, tx'[j].phase = "pruned", NEW x \in tx'[j].doomed
               PROVE  /\ x < nextId'
                      /\ \A r \in snapshots' : r.id = x => r.bank = tx'[j].bank
                      /\ \A k \in Importers :
                            tx'[k].phase \in {"written", "pruned"} /\ tx'[k].id = x =>
                               tx'[k].bank = tx'[j].bank
                      /\ \E r \in snapshots' : r.bank = tx'[j].bank /\ r.id > x
    BY DEF DoomedIsSuperseded
  <2>1. tx'[j] = tx[j] /\ j # i
    BY <1>1
  <2>2. /\ x < nextId
        /\ \A r \in snapshots : r.id = x => r.bank = tx[j].bank
        /\ \A k \in Importers : tx[k].phase \in {"written", "pruned"} /\ tx[k].id = x =>
              tx[k].bank = tx[j].bank
    BY <2>1 DEF OverlapInv, DoomedIsSuperseded
  <2>3. PICK old \in snapshots : old.bank = tx[j].bank /\ old.id > x
    BY <2>1 DEF OverlapInv, DoomedIsSuperseded
  <2>4. tx[j].bank \in Banks /\ x \in Nat
    BY <2>1 DEF OverlapInv, TypeInv, TypeOK, Transaction
  <2>5. PICK r \in snapshots' : r \in snapshots /\ r.bank = tx[j].bank /\ r.id >= old.id
    BY <2>3, <2>4, CommitKeepsNewest
  <2>6. r.id > x
    <3>1. r.id \in Nat /\ old.id \in Nat
      BY <2>5 DEF OverlapInv, TypeInv, TypeOK, Row
    <3>2. QED
      BY <2>3, <2>4, <2>5, <3>1
  <2>7. \A q \in snapshots' : q.id = x => q.bank = tx[j].bank
    BY <1>0, <1>1, <2>2
  <2>8. \A k \in Importers : tx'[k].phase \in {"written", "pruned"} /\ tx'[k].id = x => tx'[k].bank = tx[j].bank
    BY <1>1, <2>2
  <2>9. QED
    BY <1>1, <2>1, <2>2, <2>5, <2>6, <2>7, <2>8
<1>4. QED
  BY <1>2, <1>3 DEF OverlapInv

LEMMA OverlapStep == OverlapInv /\ [Next]_vars => OverlapInv'
<1> SUFFICES ASSUME OverlapInv, [Next]_vars
             PROVE  OverlapInv'
  OBVIOUS
<1>0. /\ TypeInv' /\ tx' \in [Importers -> Transaction] /\ tx \in [Importers -> Transaction]
      /\ nextId \in Nat /\ nextId > 0
      /\ \A r \in snapshots : r.id \in Nat /\ r.id < nextId
      /\ \A i \in Importers : tx[i].id < nextId
  <2>1. TypeInv /\ TypeInv'
    BY TypeInvStep DEF OverlapInv
  <2>2. /\ tx' \in [Importers -> Transaction] /\ tx \in [Importers -> Transaction]
        /\ nextId \in Nat /\ nextId > 0
    BY <2>1 DEF TypeInv, TypeOK
  <2>3. /\ \A r \in snapshots : r.id \in Nat /\ r.id < nextId
        /\ \A i \in Importers : tx[i].id < nextId
    BY <2>1 DEF TypeInv, TypeOK, IdsBelowNext, Row
  <2>4. QED
    BY <2>1, <2>2, <2>3
<1>1. ASSUME NEW i \in Importers, NEW t, tx' = [tx EXCEPT ![i] = t],
             UNCHANGED <<snapshots, nextId>>, t.phase \notin {"written", "pruned"}
      PROVE  OverlapInv'
  <2>1. t \in Transaction
    BY <1>0, <1>1
  <2>2. QED
    BY <1>0, <1>1, <2>1, OverlapLocalStep
<1>2. ASSUME NEW i \in Importers, NEW b \in Banks, NEW s \in Portals, Begin(i, b, s)
      PROVE  OverlapInv'
  <2> DEFINE t == [NoCall EXCEPT !.phase = "state", !.bank = b, !.parsed = s,
                                 !.prev = LatestId(b)]
  <2>1. tx' = [tx EXCEPT ![i] = t] /\ UNCHANGED <<snapshots, nextId>>
    BY <1>2 DEF Begin
  <2>2. t.phase = "state"
    BY DEF NoCall
  <2> HIDE DEF t
  <2>3. QED
    BY <1>1, <2>1, <2>2
<1>3. ASSUME NEW i \in Importers, Compare(i)
      PROVE  OverlapInv'
  <2>1. PICK delta : tx' = [tx EXCEPT ![i].phase = "diffed", ![i].delta = delta]
    BY <1>3 DEF Compare
  <2> DEFINE t == [tx[i] EXCEPT !.phase = "diffed", !.delta = delta]
  <2>2. tx' = [tx EXCEPT ![i] = t] /\ UNCHANGED <<snapshots, nextId>>
    BY <1>3, <2>1 DEF Compare
  <2>3. t.phase = "diffed"
    BY <1>0 DEF Transaction
  <2> HIDE DEF t
  <2>4. QED
    BY <1>1, <2>2, <2>3
<1>4. ASSUME NEW i \in Importers, WriteSnapshot(i)
      PROVE  OverlapInv'
  <2> DEFINE t == [tx[i] EXCEPT !.phase = "written", !.id = nextId]
  <2>1. /\ tx' = [tx EXCEPT ![i] = t] /\ nextId' = nextId + 1 /\ snapshots' = snapshots
        /\ t.phase = "written" /\ t.id = nextId /\ t.bank = tx[i].bank
    BY <1>0, <1>4 DEF WriteSnapshot, Transaction
  <2> HIDE DEF t
  <2>2. tx'[i] = t /\ \A j \in Importers : j # i => tx'[j] = tx[j]
    BY <1>0, <2>1
  <2>3. IdsAreOwn'
    <3>1. ASSUME NEW j \in Importers, tx'[j].phase \in {"written", "pruned"}
          PROVE  /\ tx'[j].id > 0
                 /\ \A r \in snapshots' : r.id # tx'[j].id
                 /\ \A k \in Importers : tx'[k].phase \in {"written", "pruned"} /\ tx'[k].id = tx'[j].id => k = j
      <4>1. CASE j = i
        BY <1>0, <2>1, <2>2, <4>1
      <4>2. CASE j # i
        BY <1>0, <2>1, <2>2, <3>1, <4>2 DEF OverlapInv, IdsAreOwn
      <4>3. QED
        BY <4>1, <4>2
    <3>2. QED
      BY <2>1, <3>1 DEF OverlapInv, IdsAreOwn, RowIds
  <2>4. DoomedIsSuperseded'
    <3> SUFFICES ASSUME NEW j \in Importers, tx'[j].phase = "pruned", NEW x \in tx'[j].doomed
                 PROVE  /\ x < nextId'
                        /\ \A r \in snapshots' : r.id = x => r.bank = tx'[j].bank
                        /\ \A k \in Importers :
                              tx'[k].phase \in {"written", "pruned"} /\ tx'[k].id = x =>
                                 tx'[k].bank = tx'[j].bank
                        /\ \E r \in snapshots' : r.bank = tx'[j].bank /\ r.id > x
      BY DEF DoomedIsSuperseded
    <3>1. j # i /\ tx'[j] = tx[j]
      BY <2>1, <2>2
    <3>2. x \in Nat
      BY <1>0, <3>1 DEF Transaction
    <3>3. /\ x < nextId
          /\ \A r \in snapshots : r.id = x => r.bank = tx[j].bank
          /\ \A k \in Importers : tx[k].phase \in {"written", "pruned"} /\ tx[k].id = x =>
                tx[k].bank = tx[j].bank
          /\ \E r \in snapshots : r.bank = tx[j].bank /\ r.id > x
      BY <3>1 DEF OverlapInv, DoomedIsSuperseded
    <3>4. QED
      BY <1>0, <2>1, <2>2, <3>1, <3>2, <3>3
  <2>5. QED
    BY <1>0, <2>3, <2>4 DEF OverlapInv
<1>5. ASSUME NEW i \in Importers, Prune(i)
      PROVE  OverlapInv'
  <2> DEFINE ids == IdsOf(tx[i].bank)
             t == [tx[i] EXCEPT !.phase = "pruned", !.doomed = Superfluous(ids \cup {tx[i].id})]
  <2>1. /\ tx' = [tx EXCEPT ![i] = t] /\ UNCHANGED <<snapshots, nextId>>
        /\ tx[i].phase = "written"
        /\ t.phase = "pruned" /\ t.id = tx[i].id /\ t.bank = tx[i].bank
        /\ t.doomed = Superfluous(ids \cup {tx[i].id})
    BY <1>0, <1>5 DEF Prune, Transaction
  <2> HIDE DEF t
  <2>2. /\ tx'[i] = t /\ \A j \in Importers : j # i => tx'[j] = tx[j]
        /\ \A j \in Importers : /\ tx'[j].phase \in {"written", "pruned"} <=> tx[j].phase \in {"written", "pruned"}
                                /\ tx'[j].phase \in {"written", "pruned"} => tx'[j].id = tx[j].id /\ tx'[j].bank = tx[j].bank
    BY <1>0, <2>1
  <2>3. IdsAreOwn'
    BY <2>1, <2>2 DEF OverlapInv, IdsAreOwn, RowIds
  <2>4. DoomedIsSuperseded'
    <3> SUFFICES ASSUME NEW j \in Importers, tx'[j].phase = "pruned", NEW x \in tx'[j].doomed
                 PROVE  /\ x < nextId'
                        /\ \A r \in snapshots' : r.id = x => r.bank = tx'[j].bank
                        /\ \A k \in Importers :
                              tx'[k].phase \in {"written", "pruned"} /\ tx'[k].id = x =>
                                 tx'[k].bank = tx'[j].bank
                        /\ \E r \in snapshots' : r.bank = tx'[j].bank /\ r.id > x
      BY DEF DoomedIsSuperseded
    <3>1. CASE j # i
      <4>1. /\ x < nextId
            /\ \A r \in snapshots : r.id = x => r.bank = tx[j].bank
            /\ \A k \in Importers : tx[k].phase \in {"written", "pruned"} /\ tx[k].id = x =>
                  tx[k].bank = tx[j].bank
            /\ \E r \in snapshots : r.bank = tx[j].bank /\ r.id > x
        BY <2>2, <3>1 DEF OverlapInv, DoomedIsSuperseded
      <4>2. QED
        BY <2>1, <2>2, <3>1, <4>1
    <3>2. CASE j = i
      <4>1. x \in ids \cup {tx[i].id} /\ \E y \in ids : y > x
        <5>1. x \in Superfluous(ids \cup {tx[i].id})
          BY <2>1, <2>2, <3>2
        <5> HIDE DEF ids
        <5>2. QED
          BY <5>1, SuperfluousIsOld
      <4>2. \A y \in ids : \E r \in snapshots : r.id = y /\ r.bank = tx[i].bank
        BY DEF IdsOf, RowsOf
      <4>3. x < nextId /\ \E r \in snapshots : r.bank = tx[i].bank /\ r.id > x
        BY <1>0, <4>1, <4>2
      <4>4. \A r \in snapshots : r.id = x => r.bank = tx[i].bank
        BY <2>1, <4>1, <4>2 DEF OverlapInv, IdsAreOwn, RowIds
      <4>5. \A k \in Importers : tx[k].phase \in {"written", "pruned"} /\ tx[k].id = x =>
               tx[k].bank = tx[i].bank
        BY <2>1, <4>1, <4>2 DEF OverlapInv, IdsAreOwn
      <4>6. QED
        BY <2>1, <2>2, <3>2, <4>3, <4>4, <4>5
    <3>3. QED
      BY <3>1, <3>2
  <2>5. QED
    BY <1>0, <2>3, <2>4 DEF OverlapInv
<1>6. ASSUME NEW i \in Importers, Commit(i)
      PROVE  OverlapInv'
  BY <1>0, <1>6, OverlapCommit
<1>7. ASSUME NEW i \in Importers, Reject(i) \/ Return(i) \/ LoseAnswer(i) \/ Fail(i)
      PROVE  OverlapInv'
  <2>1. PICK result \in {"done", "failed", "rejected"} : tx' = [tx EXCEPT ![i] = Finished(tx[i], result)]
    BY <1>7 DEF Reject, Return, LoseAnswer, Fail
  <2>2. UNCHANGED <<snapshots, nextId>>
    BY <1>7 DEF Reject, Return, LoseAnswer, Fail
  <2>3. Finished(tx[i], result).phase = "idle"
    BY <1>0, FinishedType DEF Results
  <2>4. QED
    BY <1>1, <2>1, <2>2, <2>3
<1>8. CASE UNCHANGED vars
  BY <1>0, <1>8 DEF vars, OverlapInv, IdsAreOwn, RowIds, DoomedIsSuperseded
<1>9. QED
  BY <1>2, <1>3, <1>4, <1>5, <1>6, <1>7, <1>8 DEF Next

\* Not even when imports of one bank overlap, each having chosen what to prune
\* before the others committed, does the newest stored snapshot of the bank go
\* without a newer one in its place.
THEOREM CurrentIsNeverPrunedTheorem == Spec => CurrentIsNeverPruned
<1>1. Init => OverlapInv
  <2> SUFFICES ASSUME Init PROVE OverlapInv
    OBVIOUS
  <2>1. \A i \in Importers : tx[i].phase = "idle"
    BY DEF Init, NoCall
  <2>2. snapshots = {}
    BY DEF Init
  <2>3. QED
    BY <2>1, <2>2, TypeInvInit DEF OverlapInv, IdsAreOwn, RowIds, DoomedIsSuperseded
<1>2. OverlapInv /\ [Next]_vars =>
        [\A b \in Banks : IdsOf(b) # {} =>
            \E r \in snapshots' : r.bank = b /\ r.id >= LatestId(b)]_snapshots
  <2> SUFFICES ASSUME OverlapInv, [Next]_vars, snapshots' # snapshots,
                      NEW b \in Banks, IdsOf(b) # {}
               PROVE  \E r \in snapshots' : r.bank = b /\ r.id >= LatestId(b)
    OBVIOUS
  <2>1. PICK i \in Importers : Commit(i)
    BY OnlyCommitPublishes
  <2>2. LatestId(b) \in IdsOf(b)
    BY LatestIdType DEF IsLatest, OverlapInv, TypeInv
  <2>3. PICK old \in snapshots : old.bank = b /\ old.id = LatestId(b)
    BY <2>2 DEF IdsOf, RowsOf
  <2>4. QED
    BY <2>1, <2>3, CommitKeepsNewest
<1>3. QED
  BY <1>1, <1>2, OverlapStep, PTL DEF Spec, CurrentIsNeverPruned

=============================================================================
