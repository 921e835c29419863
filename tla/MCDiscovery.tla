---------------------------- MODULE MCDiscovery ----------------------------
(* Discovery for TLC: four contents in a row, each near the next, and two queries. *)
EXTENDS Discovery

CONSTANTS q1, q2

MCDist == [p \in Hashes \X Hashes |-> IF p[1] > p[2] THEN p[1] - p[2] ELSE p[2] - p[1]]
MCVerdict == <<3, 2, 3, 1>>
MCCopies == <<1, 1, 2, 1>>
MCMatches == q1 :> <<4, 2>> @@ q2 :> <<1>>
MCNearness == q1 :> <<3, 4, 2, 1>> @@ q2 :> <<4, 3, 2, 1>>
=============================================================================
