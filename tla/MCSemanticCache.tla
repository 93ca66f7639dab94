-------------------------- MODULE MCSemanticCache --------------------------
(***************************************************************************)
(* SemanticCache for TLC: two prompts so similar that one answers for the  *)
(* other, and one that resembles neither. It starts empty, with a small    *)
(* file of which something expires first, or with one that fills a cache   *)
(* of twenty.                                                              *)
(***************************************************************************)
EXTENDS SemanticCache

CONSTANTS p1, p2, p3, m1, m2

MCScore == [x \in Prompts \X Prompts |-> CASE x[1] = x[2] -> 3
                                           [] x[1] # x[2] /\ p3 \notin {x[1], x[2]} -> 2
                                           [] OTHER -> 1]

Saved(p, m, a, t) == [prompt |-> p, model |-> m, answer |-> a, expiresAt |-> t]

MCAnswers == -19 .. 3

MCFiles == {<<>>,
            <<Saved(p3, m1, -2, 2), Saved(p1, m1, -1, 1), Saved(p2, m2, 0, 2)>>,
            [i \in 1 .. 20 |-> Saved(IF i % 2 = 0 THEN p1 ELSE p3, m1, i - 20, 3)]}

(* Kept is SelectSeq.                                                      *)
ASSUME KeptAssumption ==
    \A n \in 0 .. 5 : \A s \in [1 .. n -> 1 .. 3] :
        Kept(s, LAMBDA e : e # 2) = SelectSeq(s, LAMBDA e : e # 2)
=============================================================================
