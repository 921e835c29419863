--------------------------- MODULE MCRunUncaught ---------------------------
(* RunUncaught for TLC: one creator with one post. *)
EXTENDS RunUncaught, TLC

CONSTANTS i1, x1

MCOwner == x1 :> i1
=============================================================================
