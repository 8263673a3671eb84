----------------------------- MODULE Migrations -----------------------------
(***************************************************************************)
(* run_migrations of app/database.py: what the start of the application    *)
(* does to the schema.  Starts may overlap, fail and be cut short at any   *)
(* await.                                                                  *)
(***************************************************************************)
EXTENDS Naturals, FiniteSets, FiniteSetsExt

CONSTANTS Starts,     \* processes that may be starting at a time
          Versions,   \* the files, 1..n in the order of their names
          Blank,      \* those without a statement under "Up"
          MaxRuns     \* bound: times the statements of a file take effect

\* What is assumed of the constants.
MigrationsAssumption ==
    /\ \E n \in 0..Cardinality(Versions) : Versions = 1..n
    /\ Blank \subseteq Versions
    /\ MaxRuns \in Nat \ {0}

VARIABLES tracking,   \* table schema_migrations: "absent", "goose", "ours"
          recorded,   \* its rows
          schema,     \* schema[v]: how often the statements of v took effect
          start,
          wasGoose    \* history variable: the tracking table was goose's

migrationVars == <<tracking, recorded, schema, start, wasGoose>>

\* applied: what was recorded when it looked; open: the version whose
\* statements are in its open transaction, if any.
Idle == [pc |-> "down", applied |-> {}, open |-> {}]

MigrationsTypeOK ==
    /\ tracking \in {"absent", "goose", "ours"}
    /\ recorded \subseteq Versions
    /\ schema \in [Versions -> 0..MaxRuns]
    /\ \A s \in Starts : /\ start[s].pc \in {"down", "check", "drop", "create", "look", "apply", "up"}
                         /\ start[s].applied \subseteq Versions
                         /\ start[s].open \subseteq Versions /\ Cardinality(start[s].open) <= 1

\* A new database, or one that goose brought to some version.
Init ==
    /\ recorded = {}
    /\ start = [s \in Starts |-> Idle]
    /\ \/ tracking = "absent" /\ schema = [v \in Versions |-> 0]
       \/ tracking = "goose" /\ \E n \in Versions :
             schema = [v \in Versions |-> IF v <= n /\ v \notin Blank THEN 1 ELSE 0]
    /\ wasGoose = (tracking = "goose")

Goes(s, pc) == start' = [start EXCEPT ![s].pc = pc]

-----------------------------------------------------------------------------
\* CREATE TABLE IF NOT EXISTS.
Create(s) ==
    /\ start[s].pc = "down"
    /\ tracking' = IF tracking = "absent" THEN "ours" ELSE tracking
    /\ Goes(s, "check")
    /\ UNCHANGED <<recorded, schema, wasGoose>>

Check(s) ==
    /\ start[s].pc = "check"
    /\ Goes(s, IF tracking = "ours" THEN "look" ELSE "drop")
    /\ UNCHANGED <<tracking, recorded, schema, wasGoose>>

Drop(s) ==
    /\ start[s].pc = "drop" /\ tracking # "absent"
    /\ tracking' = "absent" /\ recorded' = {}
    /\ Goes(s, "create")
    /\ UNCHANGED <<schema, wasGoose>>

Recreate(s) ==
    /\ start[s].pc = "create" /\ tracking = "absent"
    /\ tracking' = "ours"
    /\ Goes(s, "look")
    /\ UNCHANGED <<recorded, schema, wasGoose>>

Look(s) ==
    /\ start[s].pc = "look" /\ tracking = "ours"
    /\ start' = [start EXCEPT ![s] = [pc |-> "apply", applied |-> recorded, open |-> {}]]
    /\ UNCHANGED <<tracking, recorded, schema, wasGoose>>

\* The first file, in the order of names, that is not applied and not blank.
Pending(s) == Versions \ (start[s].applied \cup Blank)

\* The statements, in a transaction; a second start waits for the locks.
Execute(s) ==
    /\ start[s].pc = "apply" /\ start[s].open = {} /\ Pending(s) # {}
    /\ \A r \in Starts : start[r].open = {}
    /\ schema[Min(Pending(s))] < MaxRuns
    /\ start' = [start EXCEPT ![s].open = {Min(Pending(s))}]
    /\ UNCHANGED <<tracking, recorded, schema, wasGoose>>

Took(versions) == [v \in Versions |-> IF v \in versions THEN schema[v] + 1 ELSE schema[v]]

\* The row and the commit; there must not be such a row.
Commit(s) ==
    /\ start[s].open # {}
    /\ tracking = "ours" /\ start[s].open \cap recorded = {}
    /\ recorded' = recorded \cup start[s].open
    /\ schema' = Took(start[s].open)
    /\ start' = [start EXCEPT ![s].applied = @ \cup start[s].open, ![s].open = {}]
    /\ UNCHANGED <<tracking, wasGoose>>

\* Mutant of Survives: the statements are not in the transaction of the row.
Autocommitted(s) == start[s].open

\* What is left of an open transaction when it fails.
Survives(s) == {}

\* A statement fails (the row is there already, a table is gone, the database
\* is), or the process ends: whatever was open is rolled back.
Fail(s) ==
    /\ start[s].pc # "down"
    /\ schema' = Took(Survives(s))
    /\ start' = [start EXCEPT ![s] = Idle]
    /\ UNCHANGED <<tracking, recorded, wasGoose>>

Up(s) ==
    /\ start[s].pc = "apply" /\ Pending(s) = {}
    /\ Goes(s, "up")
    /\ UNCHANGED <<tracking, recorded, schema, wasGoose>>

Next == \E s \in Starts :
    \/ Create(s) \/ Check(s) \/ Drop(s) \/ Recreate(s) \/ Look(s)
    \/ Execute(s) \/ Commit(s) \/ Fail(s) \/ Up(s)

Spec == Init /\ [][Next]_migrationVars

-----------------------------------------------------------------------------
(* Properties *)

Real == Versions \ Blank

\* However starts overlap, fail and are cut short: what is recorded took effect;
\* files take effect in the order of their names; an application that is up has
\* them all; and on a database that goose never had each took effect once.
FilesTakeEffect ==
    /\ \A v \in recorded : schema[v] > 0
    /\ \A v, w \in Real : v < w /\ schema[w] > 0 => schema[v] > 0
    /\ \A s \in Starts : start[s].pc = "up" => \A v \in Real : schema[v] > 0
    /\ ~wasGoose => \A v \in Versions : schema[v] = (IF v \in recorded THEN 1 ELSE 0)

\* No start of the application leaves a schema that the next cannot go on from.
SchemaIsWhole == MigrationsTypeOK /\ FilesTakeEffect

=============================================================================
