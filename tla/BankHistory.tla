----------------------------- MODULE BankHistory -----------------------------
(***************************************************************************)
(* What an import promises, seen by everybody who reads the database: per  *)
(* bank a current snapshot and a history of changes, both replaced by one  *)
(* indivisible step, and only by a plausible snapshot.  SnapshotImport is  *)
(* shown to implement it; ParserRunner builds on it.                       *)
(***************************************************************************)
EXTENDS Diff

CONSTANTS Banks, Portals, NoSnapshot

VARIABLES current,   \* current[b]: the snapshot the dashboard shows
          history    \* history[b]: sequence of sets of changes

vars == <<current, history>>

Init ==
    /\ current = [b \in Banks |-> NoSnapshot]
    /\ history = [b \in Banks |-> <<>>]

\* The first snapshot of a bank is a baseline and reports no change.
Deltas(b, s) ==
    IF history[b] = <<>>
    THEN {{}}
    ELSE {ComputeChanges(current[b], idx, s) : idx \in StoredIndexes(current[b].methods)}

Publish(b, s) ==
    /\ Sane(VisibleCount(current[b].methods), VisibleCount(s.methods))
    /\ \E delta \in Deltas(b, s) : history' = [history EXCEPT ![b] = Append(@, delta)]
    /\ current' = [current EXCEPT ![b] = s]

Next == \E b \in Banks, s \in Portals : Publish(b, s)

Spec == Init /\ [][Next]_vars
==============================================================================
