----------------------------- MODULE MCRelease -----------------------------
(* Release for TLC: three images, of which the second adds an older file, and both a newer one. *)
EXTENDS Release, TLC

CONSTANTS api, messaging, worker

MCScript == api :> "upgrade" @@ messaging :> "migrate" @@ worker :> "none"
MCFiles == <<{1, 3}, {1, 2, 3}, {1, 2, 3, 4}>>
MCHeadOf == <<1, 1, 2>>
=============================================================================
