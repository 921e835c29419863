--------------------------- MODULE MCRunPipeline ---------------------------
(* RunPipeline for TLC: two creators with a post each. *)
EXTENDS RunPipeline, TLC

CONSTANTS i1, i2, x1, x2

MCOwner == x1 :> i1 @@ x2 :> i2

\* One creator, who has posted twice: one scrape may insert both posts.
MCTwoPosts == x1 :> i1 @@ x2 :> i1
=============================================================================
