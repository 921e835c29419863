---------------------------- MODULE RunLifecycle ----------------------------
(***************************************************************************)
(* What a run promises to whoever watches it, with no queue, worker or     *)
(* counter in sight: it is queued, it runs, it may spend a while rating    *)
(* what it found, and it ends once, completed or failed.  It is completed  *)
(* only when nothing it found is still to be handled, and it waits in      *)
(* `rating` only while something is.                                       *)
(*                                                                         *)
(* The lifecycle is the one the migrations of the runs table describe:     *)
(* queued -> running -> (rating) -> completed | failed.                    *)
(***************************************************************************)
CONSTANTS Runs, Signals

VARIABLES
    status,     \* the run's status
    todo        \* the signals it has found and not yet handled

lifecycleVars == <<status, todo>>

LifecycleInit ==
    /\ status = [r \in Runs |-> "absent"]
    /\ todo = [r \in Runs |-> {}]

Create(r) ==
    /\ status[r] = "absent"
    /\ status' = [status EXCEPT ![r] = "queued"]
    /\ UNCHANGED todo

Start(r) ==
    /\ status[r] = "queued"
    /\ status' = [status EXCEPT ![r] = "running"]
    /\ UNCHANGED todo

\* A scrape adds what it found; only a running run finds anything.
Find(r, found) ==
    /\ status[r] = "running"
    /\ todo' = [todo EXCEPT ![r] = @ \cup found]
    /\ UNCHANGED status

\* A signal is handled; the last one ends a run that was only waiting for it.
Handle(r, x) ==
    /\ x \in todo[r]
    /\ todo' = [todo EXCEPT ![r] = @ \ {x}]
    /\ status' = [status EXCEPT ![r] =
                     IF @ = "rating" /\ todo[r] = {x} THEN "completed" ELSE @]

\* The end of the scrape phase.  A run over an empty watchlist never starts running.
FanIn(r) ==
    /\ status[r] \in {"queued", "running"}
    /\ \/ status' = [status EXCEPT ![r] = "failed"]
       \/ status' = [status EXCEPT ![r] = IF todo[r] = {} THEN "completed" ELSE "rating"]
    /\ UNCHANGED todo

LifecycleNext ==
    \E r \in Runs :
       \/ Create(r) \/ Start(r) \/ FanIn(r)
       \/ \E found \in SUBSET Signals : Find(r, found)
       \/ \E x \in Signals : Handle(r, x)

Spec == LifecycleInit /\ [][LifecycleNext]_lifecycleVars
=============================================================================
