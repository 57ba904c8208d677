---------------------------- MODULE MCSendQueue ----------------------------
(* Two producers/workers and a third thread that only has to exist so that *)
(* a completion can be handled while both others are inside startSend().   *)
EXTENDS SendQueue, TLC
=============================================================================
