---------------------------- MODULE RunUncaught ----------------------------
(***************************************************************************)
(* RunPipeline with every process up, and a model call that may fail with  *)
(* something other than a RatingError.  rate_signal catches RatingError    *)
(* only; the call raises a ValueError when the worker has no key for the   *)
(* run's provider (the API resolved the model in its own environment), and *)
(* a JSONDecodeError when a provider answers 200 with a body that is not   *)
(* JSON.  Celery then records the task as failed and drops it.             *)
(***************************************************************************)
EXTENDS RunPipeline

\* The exception leaves rate_signal between the model call and the announcement.
RateRaises(r, x) ==
    /\ rate[r][x] = "called"
    /\ RateTask(r, x) \notin crashed
    /\ crashed' = crashed \cup {RateTask(r, x)}
    /\ UNCHANGED <<rating_model, runs, database, dispatch, cohort, scrapeTasks, finalize,
                   ratingTasks>>

UncaughtSpec ==
    /\ Init
    /\ [][Next \/ \E r \in Runs, x \in Signals : RateRaises(r, x)]_pipelineVars
    /\ Fairness

\* rate_signal's docstring: every terminal outcome counts once toward rated_count, and
\* that "total-coverage guarantee" is what lets the run converge from `rating` to
\* `completed`, "no matter how individual ratings land".
RatingConverges ==
    \A r \in Runs : (runs[r].status = "rating") ~> (runs[r].status = "completed")
=============================================================================
