-------------------------- MODULE MCDatabaseAsync ---------------------------
(* One thread beside the world thread and the delay thread; three          *)
(* operations between them, of at most two statements.                     *)
EXTENDS DatabaseAsync, TLC
=============================================================================
