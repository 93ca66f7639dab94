--------------------------- MODULE MCConversation ---------------------------
(***************************************************************************)
(* Conversation for TLC: two calls of different functions, of which        *)
(* neither is special.                                                     *)
(***************************************************************************)
EXTENDS Conversation

CONSTANTS c1, c2, f1, f2

MCNameOf == c1 :> f1 @@ c2 :> f2

Interchangeable == {c1 :> c2 @@ c2 :> c1 @@ f1 :> f2 @@ f2 :> f1}
=============================================================================
