--------------------------- MODULE MCVirtualKeys ---------------------------
(***************************************************************************)
(* Small instances of VirtualKeys.                                         *)
(***************************************************************************)
EXTENDS VirtualKeys, TLC

CONSTANTS Budgets, Spends, RPMs, Expiries, Enableds

MCSettings == [enabled : Enableds, expiresAt : Expiries, budget : Budgets,
               spent : Spends, rpm : RPMs]

RequestSymmetry == Permutations(Requests)
=============================================================================
