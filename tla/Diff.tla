-------------------------------- MODULE Diff --------------------------------
(***************************************************************************)
(* The comparison of two snapshots of a bank's API portal (app/diff.py)    *)
(* and the plausibility check made before a snapshot is stored             *)
(* (app/snapshot_import.py, check_sanity).  Pure operators: no state.      *)
(*                                                                         *)
(* A method is abstracted to what the comparison tells apart: its identity *)
(* (method_key), the service it is listed under, whether it is hidden and  *)
(* the names of its response fields.  The list of changes the code builds  *)
(* holds at most one entry per service name and per method key, so a set   *)
(* of records stands for it; its order matters to no property.             *)
(***************************************************************************)
EXTENDS Integers, Sequences, FiniteSets

CONSTANTS Keys,        \* method identities, "GET /path" or "service / GET name"
          Services,    \* service names
          Fields,      \* response field names
          RatioNum,    \* min_snapshot_ratio is RatioNum / RatioDen
          RatioDen

ASSUME RatioAssumption ==
    /\ RatioNum \in Nat
    /\ RatioDen \in Nat \ {0}
    /\ RatioNum <= RatioDen

Method == [key: Keys, service: Services, hidden: BOOLEAN, fields: SUBSET Fields]

\* A parsed snapshot: the dictionary of services, whose values, concatenated
\* in the dictionary's order, are the methods.
Snapshot == [services: SUBSET Services, methods: Seq(Method)]

Change == [type: {"service", "method", "field"},
           action: {"added", "removed", "modified"},
           name: Keys \cup Services,
           hidden: BOOLEAN,
           gone: SUBSET Fields,
           came: SUBSET Fields]

Records(ms) == {ms[i] : i \in DOMAIN ms}

KeysOf(ms) == {ms[i].key : i \in DOMAIN ms}

-----------------------------------------------------------------------------
(* Indexing by key *)

\* _index over a freshly parsed list: the first occurrence of a key wins.
FirstIndex(ms) ==
    [k \in KeysOf(ms) |->
        ms[CHOOSE i \in DOMAIN ms :
              /\ ms[i].key = k
              /\ \A j \in DOMAIN ms : ms[j].key = k => i <= j]]

\* _index over the rows of a stored snapshot.  The query that reads them back
\* has no ORDER BY, so which of several rows with one key comes first is the
\* database's choice.
StoredIndexes(ms) ==
    {idx \in [KeysOf(ms) -> Records(ms)] : \A k \in KeysOf(ms) : idx[k].key = k}

-----------------------------------------------------------------------------
(* Visibility *)

ServiceIsHidden(flags) == flags # {} /\ FALSE \notin flags

HiddenFlags(svc, ms) == {m.hidden : m \in {r \in Records(ms) : r.service = svc}}

HiddenServices(ms) ==
    {svc \in {m.service : m \in Records(ms)} : ServiceIsHidden(HiddenFlags(svc, ms))}

VisibleServices(s) == s.services \ HiddenServices(s.methods)

VisibleCount(ms) == Cardinality({i \in DOMAIN ms : ~ms[i].hidden})

\* The method keys a visitor of the dashboard can see.
Surface(ms) == {m.key : m \in {r \in Records(ms) : ~r.hidden}}

\* The entries of ms for k are all public or all hidden; and they agree on all
\* that the comparison looks at.  No portal guarantees either.
AgreeOnHidden(ms, k) ==
    \A m, n \in Records(ms) : m.key = k /\ n.key = k => m.hidden = n.hidden

AreAlike(ms, k) ==
    \A m, n \in Records(ms) :
        m.key = k /\ n.key = k => m.hidden = n.hidden /\ m.fields = n.fields

-----------------------------------------------------------------------------
(* compute_changes *)

MethodChange(action, k, hidden) ==
    [type |-> "method", action |-> action, name |-> k, hidden |-> hidden,
     gone |-> {}, came |-> {}]

ServiceChange(action, svc, hidden) ==
    [type |-> "service", action |-> action, name |-> svc, hidden |-> hidden,
     gone |-> {}, came |-> {}]

ServiceChanges(prev, new) ==
    {ServiceChange("added", svc, svc \in HiddenServices(new.methods)) :
        svc \in new.services \ prev.services}
    \cup
    {ServiceChange("removed", svc, svc \in HiddenServices(prev.methods)) :
        svc \in prev.services \ new.services}

\* Mutant of MethodChanges: the known keys are not taken out of the new ones.
MethodChangesRepeated(old, new) ==
    {MethodChange("added", k, new[k].hidden) : k \in DOMAIN new}
    \cup
    {MethodChange("removed", k, old[k].hidden) : k \in DOMAIN old \ DOMAIN new}

MethodChanges(old, new) ==
    {MethodChange("added", k, new[k].hidden) : k \in DOMAIN new \ DOMAIN old}
    \cup
    {MethodChange("removed", k, old[k].hidden) : k \in DOMAIN old \ DOMAIN new}

\* Mutant of FlipChanges: the flip carries the new visibility, so a method that
\* was hidden disappears in silence.
FlipChangesQuiet(old, new) ==
    {MethodChange(IF new[k].hidden THEN "removed" ELSE "added", k, new[k].hidden) :
        k \in {x \in DOMAIN old \cap DOMAIN new : old[x].hidden # new[x].hidden}}

\* A method that became hidden or visible is reported as removed or added,
\* and always publicly.
FlipChanges(old, new) ==
    {MethodChange(IF new[k].hidden THEN "removed" ELSE "added", k, FALSE) :
        k \in {x \in DOMAIN old \cap DOMAIN new : old[x].hidden # new[x].hidden}}

\* Mutant of FieldChange: the changed fields of a hidden method are public.
FieldChangeShown(k, old, new) ==
    [type |-> "field", action |-> "modified", name |-> k, hidden |-> FALSE,
     gone |-> old.fields \ new.fields, came |-> new.fields \ old.fields]

\* _field_change, for the common keys that did not flip.
FieldChange(k, old, new) ==
    [type |-> "field", action |-> "modified", name |-> k, hidden |-> new.hidden,
     gone |-> old.fields \ new.fields, came |-> new.fields \ old.fields]

\* Mutant of FieldChanges: methods with the same fields are reported too.
FieldChangesAlways(old, new) ==
    {FieldChange(k, old[k], new[k]) :
        k \in {x \in DOMAIN old \cap DOMAIN new : old[x].hidden = new[x].hidden}}

FieldChanges(old, new) ==
    {FieldChange(k, old[k], new[k]) :
        k \in {x \in DOMAIN old \cap DOMAIN new :
                  /\ old[x].hidden = new[x].hidden
                  /\ old[x].fields # new[x].fields}}

\* oldIdx is the index of prev's rows; that of the new list is determined.
ComputeChanges(prev, oldIdx, new) ==
    LET newIdx == FirstIndex(new.methods)
    IN  ServiceChanges(prev, new)
          \cup MethodChanges(oldIdx, newIdx)
          \cup FlipChanges(oldIdx, newIdx)
          \cup FieldChanges(oldIdx, newIdx)

Public(delta) == {c \in delta : ~c.hidden}

\* The public part of delta says that method k was added, or removed.
Announces(delta, action, k) ==
    \E c \in delta : c.type = "method" /\ c.action = action /\ c.name = k /\ ~c.hidden

-----------------------------------------------------------------------------
(* check_sanity, on counts of visible methods only; 0 also stands for "no  *)
(* previous snapshot", which the code treats alike.                        *)

\* Mutant of Sane: the ratio is taken the wrong way round.
SaneReversed(prevVisible, newVisible) ==
    /\ newVisible # 0
    /\ prevVisible # 0 /\ RatioNum > 0 => prevVisible * RatioDen >= newVisible * RatioNum

Sane(prevVisible, newVisible) ==
    /\ newVisible # 0
    /\ prevVisible # 0 /\ RatioNum > 0 => newVisible * RatioDen >= prevVisible * RatioNum
=============================================================================
