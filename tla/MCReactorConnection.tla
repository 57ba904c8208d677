------------------------ MODULE MCReactorConnection -------------------------
(* One thread posts to, and closes, the connection, beside the acceptor,   *)
(* the worker, the peer and stop().                                        *)
EXTENDS ReactorConnection, TLC
=============================================================================
