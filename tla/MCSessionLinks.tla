--------------------------- MODULE MCSessionLinks ---------------------------
(* A session that goes through two redirects with two sockets, while       *)
(* threads route packets to stream 1 and one packet at most can be held.   *)
EXTENDS SessionLinks, TLC

LinksSymmetry == Permutations(Links)
=============================================================================
