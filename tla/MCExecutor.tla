----------------------------- MODULE MCExecutor -----------------------------
(***************************************************************************)
(* A small routing table for Executor: two models, each served by a        *)
(* provider of its own; a weighted name that splits the calls for one of   *)
(* them over both providers; a fallback chain that passes over that name.  *)
(* Two greetings are similar to each other; any other conversation is      *)
(* similar to itself alone.                                                *)
(***************************************************************************)
EXTENDS Executor, TLC

CONSTANTS mA, mB, hybrid, pA, pB, Greetings

MCAlias == [m \in Models |-> m]
MCWeighted ==
    [m \in Models |-> IF m = hybrid
        THEN {[model |-> mA, provider |-> pA], [model |-> mA, provider |-> pB]}
        ELSE {}]
MCChain == [m \in Models |->
    IF m = mA THEN SelectSeq(<<hybrid, mB>>, LAMBDA x : x \in Models) ELSE <<>>]
MCServes == [m \in Models |-> CASE m = mA -> pA
                                [] m = mB /\ pB \in Registered -> pB
                                [] OTHER -> None]
MCSimilar == (Greetings \X Greetings) \cup {<<p, p>> : p \in Texts}
Anyone == {{}}
OnlyA == {{mA, hybrid}}

(* Neither requests nor greetings are told apart by the run of requests    *)
(* together.                                                               *)
Symmetry == Permutations(Requests) \cup Permutations(Greetings)
=============================================================================
