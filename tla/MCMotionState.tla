--------------------------- MODULE MCMotionState ----------------------------
(* One type of change of each kind.                                        *)
EXTENDS MotionState
=============================================================================
