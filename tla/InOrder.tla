------------------------------ MODULE InOrder ------------------------------
(***************************************************************************)
(* What a comprehension with a condition makes of a list, without          *)
(* recursion: [x for x in list if x in set].                               *)
(***************************************************************************)
EXTENDS Naturals, FiniteSets

\* The numbers of a finite set, smallest first.
Ascending(S) ==
    [k \in 1..Cardinality(S) |-> CHOOSE i \in S : Cardinality({j \in S : j <= i}) = k]

\* The members of a sequence that are in a set, in their order.
Among(list, set) ==
    LET places == Ascending({k \in DOMAIN list : list[k] \in set})
    IN  [k \in DOMAIN places |-> list[places[k]]]

=============================================================================
