------------------------------- MODULE Lists -------------------------------
(***************************************************************************)
(* What a loop makes that goes through a list and appends the elements     *)
(* that pass a test to a new one. It is SelectSeq, said by counting        *)
(* positions and not by recursion, so that facts about it can be proved.   *)
(***************************************************************************)
EXTENDS Integers, Sequences, FiniteSets

Rank(I, i) == Cardinality({j \in I : j <= i})

(* The n-th of a set of positions, and the elements at these positions.    *)
Nth(I, n) == CHOOSE i \in I : Rank(I, i) = n
Sublist(s, I) == [n \in 1 .. Cardinality(I) |-> s[Nth(I, n)]]

Passing(s, Test(_)) == {i \in DOMAIN s : Test(s[i])}
Kept(s, Test(_)) == Sublist(s, Passing(s, Test))
=============================================================================
