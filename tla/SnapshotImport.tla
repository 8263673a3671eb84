--------------------------- MODULE SnapshotImport ---------------------------
(***************************************************************************)
(* import_snapshot (app/snapshot_import.py): one database transaction that *)
(* reads the bank's latest snapshot, rejects an implausible new one, stores *)
(* the new one and the changes, and prunes old snapshots.  The tables are  *)
(* the ones of migrations 001 and 004 as app/repository.py uses them.      *)
(*                                                                         *)
(* A transaction's writes live in tx[i] until Commit applies them; its     *)
(* reads see the committed tables and its own row (READ COMMITTED).  An    *)
(* importer is one call in flight; in the program the runner's lock allows *)
(* one at a time, and get_latest_snapshot's comment speaks of overlapping  *)
(* ones, so their number is a parameter.                                   *)
(***************************************************************************)
EXTENDS Diff

CONSTANTS Banks,
          Importers,        \* calls of import_snapshot that may be in flight
          Portals,          \* what a parser may return
          Keep,             \* snapshots_keep
          ConnectionDrops,  \* may the connection die while COMMIT is answered?
          MaxSnapshots      \* bound: ids the snapshots sequence hands out

ASSUME ImportAssumption ==
    /\ Banks # {}
    /\ Portals \subseteq Snapshot
    /\ Keep \in Nat \ {0, 1}          \* config.py refuses less than 2
    /\ ConnectionDrops \in BOOLEAN
    /\ MaxSnapshots \in Nat

VARIABLES snapshots,   \* committed rows: [id, bank, content]
          changes,     \* changes[b]: one batch per committed import, oldest
                       \* first; an empty batch stands for no rows
          nextId,      \* the snapshots_id sequence, never rolled back
          tx,          \* tx[i]: the transaction of importer i
          published    \* history: [id, content] of every committed import of b

vars == <<snapshots, changes, nextId, tx, published>>

-----------------------------------------------------------------------------
NoSnapshot == [services |-> {}, methods |-> <<>>]

Phases == {"idle", "state", "diffed", "written", "pruned", "committed"}

\* "none": no call yet, or one in flight.
Results == {"none", "done", "failed", "rejected"}

Transaction ==
    [phase: Phases, result: Results, bank: Banks, parsed: Snapshot,
     prev: Nat, delta: SUBSET Change, id: Nat, doomed: SUBSET Nat]

NoCall ==
    [phase |-> "idle", result |-> "none", bank |-> CHOOSE b \in Banks : TRUE,
     parsed |-> NoSnapshot, prev |-> 0, delta |-> {}, id |-> 0, doomed |-> {}]

\* Mutant of Finished: the hidden changes are returned as well.
FinishedWithAll(t, result) ==
    [NoCall EXCEPT !.result = result, !.bank = t.bank, !.id = t.id,
                   !.delta = IF result = "done" THEN t.delta ELSE {}]

\* The importer's call ends; the list it returns, if any, stays in delta.
Finished(t, result) ==
    [NoCall EXCEPT !.result = result, !.bank = t.bank, !.id = t.id,
                   !.delta = IF result = "done" THEN Public(t.delta) ELSE {}]

Row == [id: Nat, bank: Banks, content: Snapshot]

\* snap is 0 once the snapshot is gone (ON DELETE SET NULL).
Batch == [snap: Nat, rows: SUBSET Change]

TypeOK ==
    /\ snapshots \subseteq Row
    /\ changes \in [Banks -> Seq(Batch)]
    /\ nextId \in Nat \ {0}
    /\ tx \in [Importers -> Transaction]
    /\ published \in [Banks -> Seq([id: Nat, content: Snapshot])]

RowsOf(b) == {r \in snapshots : r.bank = b}

IdsOf(b) == {r.id : r \in RowsOf(b)}

IsLatest(id, b) == id \in IdsOf(b) /\ \A x \in IdsOf(b) : x <= id

-----------------------------------------------------------------------------
(* What the queries return *)

\* get_latest_snapshot: the largest id, 0 when the bank has no snapshot.
LatestId(b) == IF IdsOf(b) = {} THEN 0 ELSE CHOOSE id \in IdsOf(b) : IsLatest(id, b)

\* get_snapshot_state: no rows when the snapshot is not there (any more).
StateOf(id) ==
    IF \E r \in snapshots : r.id = id
    THEN (CHOOSE r \in snapshots : r.id = id).content
    ELSE NoSnapshot

\* Mutant of Superfluous: one snapshot too many is kept.
SuperfluousOffByOne(ids) ==
    {x \in ids : Keep >= 1 /\ Cardinality({y \in ids : y > x}) > Keep}

\* Mutant of Superfluous: ORDER BY id ASC.
SuperfluousNewest(ids) ==
    {x \in ids : Keep >= 1 /\ Cardinality({y \in ids : y < x}) >= Keep}

\* get_snapshots_for_cleanup: ORDER BY id DESC OFFSET Keep.
Superfluous(ids) ==
    {x \in ids : Keep >= 1 /\ Cardinality({y \in ids : y > x}) >= Keep}

\* The possible results of compute_changes for snapshot prev and new content s.
Deltas(prev, base, s) ==
    IF prev = 0
    THEN {{}}
    ELSE {ComputeChanges(base, idx, s) : idx \in StoredIndexes(base.methods)}

-----------------------------------------------------------------------------
Init ==
    /\ snapshots = {}
    /\ changes = [b \in Banks |-> <<>>]
    /\ nextId = 1
    /\ tx = [i \in Importers |-> NoCall]
    /\ published = [b \in Banks |-> <<>>]

\* snapshot_to_records, BEGIN, get_latest_snapshot.
Begin(i, b, s) ==
    /\ tx[i].phase = "idle"
    /\ tx' = [tx EXCEPT ![i] =
                [NoCall EXCEPT !.phase = "state", !.bank = b, !.parsed = s,
                               !.prev = LatestId(b)]]
    /\ UNCHANGED <<snapshots, changes, nextId, published>>

\* Mutant of Plausible: the first import of a bank is not checked.
PlausibleOrFirst(i) ==
    tx[i].prev # 0 =>
        Sane(VisibleCount(StateOf(tx[i].prev).methods), VisibleCount(tx[i].parsed.methods))

Plausible(i) ==
    Sane(VisibleCount(StateOf(tx[i].prev).methods), VisibleCount(tx[i].parsed.methods))

\* get_snapshot_state, then check_sanity raises SnapshotRejected: ROLLBACK.
Reject(i) ==
    /\ tx[i].phase = "state"
    /\ ~Plausible(i)
    /\ tx' = [tx EXCEPT ![i] = Finished(@, "rejected")]
    /\ UNCHANGED <<snapshots, changes, nextId, published>>

\* get_snapshot_state, check_sanity passes, compute_changes.
Compare(i) ==
    /\ tx[i].phase = "state"
    /\ Plausible(i)
    /\ \E delta \in Deltas(tx[i].prev, StateOf(tx[i].prev), tx[i].parsed) :
          tx' = [tx EXCEPT ![i].phase = "diffed", ![i].delta = delta]
    /\ UNCHANGED <<snapshots, changes, nextId, published>>

\* _write_snapshot: the id is taken from the sequence, for good.
WriteSnapshot(i) ==
    /\ tx[i].phase = "diffed"
    /\ nextId <= MaxSnapshots
    /\ tx' = [tx EXCEPT ![i].phase = "written", ![i].id = nextId]
    /\ nextId' = nextId + 1
    /\ UNCHANGED <<snapshots, changes, published>>

\* create_changes, get_snapshots_for_cleanup, delete_snapshots.
Prune(i) ==
    /\ tx[i].phase = "written"
    /\ tx' = [tx EXCEPT ![i].phase = "pruned",
                        ![i].doomed = Superfluous(IdsOf(tx[i].bank) \cup {tx[i].id})]
    /\ UNCHANGED <<snapshots, changes, nextId, published>>

\* Mutant of Detach: ON DELETE CASCADE, as migration 001 had it.
DetachCascading(batches, ids) ==
    [n \in DOMAIN batches |->
        IF batches[n].snap \in ids THEN [snap |-> 0, rows |-> {}] ELSE batches[n]]

\* What a deleted snapshot does to the changes that refer to it.
Detach(batches, ids) ==
    [n \in DOMAIN batches |->
        IF batches[n].snap \in ids THEN [batches[n] EXCEPT !.snap = 0] ELSE batches[n]]

\* COMMIT, as the database executes it.  The own row is among the doomed when
\* Keep imports that began later have overtaken this one.
Commit(i) ==
    LET t == tx[i]
    IN  /\ t.phase = "pruned"
        /\ snapshots' = {r \in snapshots \cup {[id |-> t.id, bank |-> t.bank, content |-> t.parsed]} :
                           r.id \notin t.doomed}
        /\ changes' = [changes EXCEPT ![t.bank] =
                          Detach(Append(@, [snap |-> t.id, rows |-> t.delta]), t.doomed)]
        /\ published' = [published EXCEPT ![t.bank] =
                          Append(@, [id |-> t.id, content |-> t.parsed])]
        /\ tx' = [tx EXCEPT ![i].phase = "committed"]
        /\ UNCHANGED nextId

\* The answer to COMMIT arrives: import_snapshot returns Public(delta).
Return(i) ==
    /\ tx[i].phase = "committed"
    /\ tx' = [tx EXCEPT ![i] = Finished(@, "done")]
    /\ UNCHANGED <<snapshots, changes, nextId, published>>

\* The connection dies before the answer: import_snapshot raises.
LoseAnswer(i) ==
    /\ ConnectionDrops
    /\ tx[i].phase = "committed"
    /\ tx' = [tx EXCEPT ![i] = Finished(@, "failed")]
    /\ UNCHANGED <<snapshots, changes, nextId, published>>

\* Any statement fails, or the connection dies: ROLLBACK, import_snapshot raises.
Fail(i) ==
    /\ tx[i].phase \in {"state", "diffed", "written", "pruned"}
    /\ tx' = [tx EXCEPT ![i] = Finished(@, "failed")]
    /\ UNCHANGED <<snapshots, changes, nextId, published>>

Next ==
    \E i \in Importers :
        \/ \E b \in Banks, s \in Portals : Begin(i, b, s)
        \/ Reject(i)
        \/ Compare(i)
        \/ WriteSnapshot(i)
        \/ Prune(i)
        \/ Commit(i)
        \/ Return(i)
        \/ LoseAnswer(i)
        \/ Fail(i)

Spec == Init /\ [][Next]_vars

-----------------------------------------------------------------------------
(* Properties *)

\* What a visitor who only reads the public feed of b believes: k is on the
\* portal if it was on the first snapshot and never removed, or was added and
\* not removed since.
Adds(b, n, k) == Announces(changes[b][n].rows, "added", k)

Removes(b, n, k) == Announces(changes[b][n].rows, "removed", k)

Believed(b, k) ==
    \/ /\ k \in Surface(published[b][1].content.methods)
       /\ \A m \in DOMAIN changes[b] : ~Removes(b, m, k)
    \/ \E n \in DOMAIN changes[b] :
          /\ Adds(b, n, k)
          /\ \A m \in DOMAIN changes[b] : m > n => ~Removes(b, m, k)

\* The methods that no import of b has listed as public and as hidden at once.
Unambiguous(b) ==
    {k \in Keys : \A n \in DOMAIN published[b] : AgreeOnHidden(published[b][n].content.methods, k)}

\* The public feed replayed from the first snapshot is exactly the public
\* surface of the snapshot the dashboard shows, whatever was hidden, shown
\* again, rejected, rolled back or pruned in between: for each method that was
\* never ambiguous, whatever the others are.
FeedReplaysSurface ==
    \A b \in Banks : published[b] # <<>> =>
        \A k \in Unambiguous(b) : Believed(b, k) <=> k \in Surface(StateOf(LatestId(b)).methods)

\* No method that was never ambiguous is announced as added twice without a
\* removal in between.
FeedAlternates ==
    \A b \in Banks : \A k \in Unambiguous(b) : \A m, n \in DOMAIN changes[b] :
        /\ m < n
        /\ Adds(b, m, k)
        /\ Adds(b, n, k)
        => \E l \in m..n : Removes(b, l, k)

\* What the public feed names was public in the snapshot before or after the
\* change: neither method nor service nor field of the hidden part leaks.
FeedHidesHidden ==
    \A b \in Banks : \A n \in DOMAIN changes[b] : \A c \in Public(changes[b][n].rows) :
        /\ n > 1
        /\ \E s \in {published[b][n - 1].content, published[b][n].content} :
              \/ c.type = "service" /\ c.name \in VisibleServices(s)
              \/ c.type # "service" /\ c.name \in Surface(s.methods)

Unchanged(b, n) == n > 1 /\ published[b][n].content = published[b][n - 1].content

\* A portal that did not change between two imports adds to the history what
\* concerns the methods it lists more than once and not alike, and nothing else.
OnlyConflictsAreReported ==
    \A b \in Banks : \A n \in DOMAIN published[b] : Unchanged(b, n) =>
        \A c \in changes[b][n].rows :
            c.type # "service" /\ ~AreAlike(published[b][n].content.methods, c.name)

\* A portal that did not change between two imports adds nothing to the
\* history, so the digest stays silent.  Violated by what the portals list twice.
UnchangedPortalIsSilent ==
    \A b \in Banks : \A n \in DOMAIN published[b] : Unchanged(b, n) => changes[b][n].rows = {}

\* From one stored snapshot to the next the public surface never collapses
\* below min_snapshot_ratio, and is never empty.
SurfaceNeverCollapses ==
    \A b \in Banks : \A n \in DOMAIN published[b] :
        LET count(m) == VisibleCount(published[b][m].content.methods)
        IN  /\ count(n) > 0
            /\ n > 1 => count(n) * RatioDen >= count(n - 1) * RatioNum

\* Exactly the last Keep imports of a bank are still stored: a service id the
\* dashboard handed out stays valid for Keep - 1 further imports.
KeepsLatestImports ==
    \A b \in Banks :
        IdsOf(b) = {published[b][n].id :
                      n \in {m \in DOMAIN published[b] : m + Keep > Len(published[b])}}

\* The list handed to the runner, hence the digest, is the public part of the
\* batch this import stored.
ReturnsWhatWasStored ==
    \A i \in Importers : tx[i].result = "done" =>
        \E n \in DOMAIN published[tx[i].bank] :
            /\ published[tx[i].bank][n].id = tx[i].id
            /\ tx[i].delta = Public(changes[tx[i].bank][n].rows)

\* The history is kept for good: pruning snapshots never touches a change.
HistoryIsForever ==
    [][\A b \in Banks : \A n \in DOMAIN changes[b] :
          n \in DOMAIN changes'[b] /\ changes'[b][n].rows = changes[b][n].rows]_changes

\* The snapshot the dashboard shows is never the one that is cleaned up, not
\* even when imports of one bank overlap.
CurrentIsNeverPruned ==
    [][\A b \in Banks : IdsOf(b) # {} =>
          \E r \in snapshots' : r.bank = b /\ r.id >= LatestId(b)]_snapshots

-----------------------------------------------------------------------------
(* Refinement: imports made one at a time implement BankHistory.  Commit is *)
(* the step that publishes; everything else is invisible.                  *)

History == INSTANCE BankHistory WITH
    current <- [b \in Banks |-> StateOf(LatestId(b))],
    history <- [b \in Banks |-> [n \in DOMAIN changes[b] |-> changes[b][n].rows]]

\* "Everything runs in one transaction" (snapshot_import.py:110): whoever reads
\* the committed tables sees whole imports of plausible snapshots, each with
\* the changes against the snapshot it replaced.
ImplementsHistory == History!Spec

=============================================================================
