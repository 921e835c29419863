---------------------------- MODULE MCRunStream ----------------------------
(* RunStream for TLC: one creator, with one post. *)
EXTENDS RunStream, TLC

CONSTANTS i1, x1

MCOnePost == x1 :> i1
=============================================================================
