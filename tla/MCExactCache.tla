---------------------------- MODULE MCExactCache ----------------------------
(***************************************************************************)
(* ExactCache for TLC: request hashes and responses are interchangeable.   *)
(***************************************************************************)
EXTENDS ExactCache

Interchangeable == Permutations(Keys) \cup Permutations(Values)
=============================================================================
