------------------------- MODULE MCSessionLifecycle -------------------------
(* Two connections of one account and one of another, a limit of one.      *)
EXTENDS SessionLifecycle, TLC
CONSTANTS c1, c2, c3, a1, a2
MCAccountOf == (c1 :> a1) @@ (c2 :> a1) @@ (c3 :> a2)
=============================================================================
