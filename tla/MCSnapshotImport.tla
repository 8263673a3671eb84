-------------------------- MODULE MCSnapshotImport --------------------------
(***************************************************************************)
(* Instances of SnapshotImport for TLC: two endpoints, two services, one   *)
(* response field, and portals chosen so that every branch of the diff and *)
(* of the plausibility check is taken (ratio 1/2).                         *)
(***************************************************************************)
EXTENDS SnapshotImport, TLC

CONSTANTS k1, k2, payments, accounts, f1

M(k, svc, hid, flds) == [key |-> k, service |-> svc, hidden |-> hid, fields |-> flds]

S(svcs, ms) == [services |-> svcs, methods |-> ms]

Both     == S({payments, accounts}, <<M(k1, payments, FALSE, {}), M(k2, accounts, FALSE, {})>>)
OneLess  == S({payments}, <<M(k1, payments, FALSE, {f1})>>)
K2Hidden == S({payments, accounts}, <<M(k1, payments, FALSE, {}), M(k2, accounts, TRUE, {})>>)
K1Hidden == S({payments, accounts}, <<M(k1, payments, TRUE, {f1}), M(k2, accounts, FALSE, {f1})>>)
K1HiddenBare == S({payments, accounts}, <<M(k1, payments, TRUE, {}), M(k2, accounts, FALSE, {f1})>>)
\* k1 listed under two services, alike: an operation with two tags.
TwoTags  == S({payments, accounts}, <<M(k1, payments, FALSE, {}), M(k1, accounts, FALSE, {}),
                                      M(k2, accounts, FALSE, {})>>)
AllHidden == S({payments}, <<M(k1, payments, TRUE, {})>>)
\* A new hidden endpoint next to a known one, under a service of its own.
HiddenNew == S({payments, accounts}, <<M(k2, accounts, FALSE, {}), M(k1, payments, TRUE, {})>>)
OnlyK2   == S({accounts}, <<M(k2, accounts, FALSE, {})>>)

\* k1 listed twice, once public and once in a closed section, and with
\* different fields: what first-wins indexing does not make unique.
Conflicting ==
    S({payments, accounts}, <<M(k1, payments, FALSE, {}), M(k1, accounts, TRUE, {f1}),
                              M(k2, accounts, FALSE, {})>>)

\* TwoTags stands for Both as well.
AllPortals == {OneLess, K2Hidden, K1Hidden, K1HiddenBare, TwoTags, AllHidden, OnlyK2, HiddenNew,
               Conflicting}
TwoPortals == {Both, OneLess}
ConflictingPortals == {Both, Conflicting, OneLess, TwoTags}

ImporterSymmetry == Permutations(Importers)

=============================================================================
