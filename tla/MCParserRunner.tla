--------------------------- MODULE MCParserRunner ---------------------------
(***************************************************************************)
(* Instances of ParserRunner for TLC: two banks, two tasks, and portals    *)
(* between which an import changes nothing, something public or something  *)
(* hidden, or is rejected.                                                 *)
(***************************************************************************)
EXTENDS ParserRunner, TLC

CONSTANTS k1, k2, payments, accounts, tbank, sber

M(k, svc, hid) == [key |-> k, service |-> svc, hidden |-> hid, fields |-> {}]

S(svcs, ms) == [services |-> svcs, methods |-> ms]

Empty == S({}, <<>>)

Both      == S({payments, accounts}, <<M(k2, accounts, FALSE), M(k1, payments, FALSE)>>)
OnlyK2    == S({accounts}, <<M(k2, accounts, FALSE)>>)
HiddenNew == S({payments, accounts}, <<M(k2, accounts, FALSE), M(k1, payments, TRUE)>>)
AllHidden == S({payments}, <<M(k1, payments, TRUE)>>)

AllPortals == {Both, OnlyK2, HiddenNew, AllHidden}

ThreePortals == {Both, OnlyK2, HiddenNew}

\* Enough where the contents of the history do not matter.
TwoPortals == {Both, OnlyK2}

BankOrder == <<tbank, sber>>

TaskSymmetry == Permutations(Tasks)

=============================================================================
