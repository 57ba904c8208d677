-------------------------- MODULE MCIocpConnection --------------------------
(* Two workers dispatch the completions of one connection; a thread of the *)
(* world posts to it and closes it.                                        *)
EXTENDS IocpConnection, TLC
=============================================================================
