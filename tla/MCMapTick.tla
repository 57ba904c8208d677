----------------------------- MODULE MCMapTick ------------------------------
(* Two continents with one vessel between them, one instance, two workers. *)
EXTENDS MapTick
=============================================================================
