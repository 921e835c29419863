---------------------------- MODULE RunPipeline ----------------------------
(***************************************************************************)
(* A scrape run, from POST /runs to its terminal status.                   *)
(*                                                                         *)
(* The API writes the runs row and sends one message to the broker; the    *)
(* worker's dispatch task reads the watchlist and starts a chord: one      *)
(* scrape_influencer task per influencer, and finalize_run once they have  *)
(* all returned.  Each scrape task enqueues one rate_signal task per new   *)
(* signal, and those tasks run beside the remaining scrapes, beside the    *)
(* chord's callback and beside the tasks of other runs.  They share the    *)
(* runs row, raw_signals, signal_ratings and the rollup in Postgres, and a *)
(* step of this module is one committed statement (or one call to a model, *)
(* a scraper or the message bus) of one task.                              *)
(*                                                                         *)
(* A signal stands for the content of one post: its payload carries the    *)
(* creator's handle, so each signal has one owner.  Captions, timestamps,  *)
(* models' names and error texts are left out.                             *)
(***************************************************************************)
EXTENDS Integers, FiniteSets

CONSTANTS
    Runs,           \* the runs the API may create
    Influencers,    \* the creators that may be on the watchlist
    Signals,        \* the posts there are to find
    Owner,          \* the creator of each post
    MaxRetries,     \* rate_signal's max_retries
    MaxFaults       \* how many tasks may stop half way

ASSUME RunsAssumption == IsFiniteSet(Influencers) /\ IsFiniteSet(Signals)
ASSUME OwnerAssumption == Owner \in [Signals -> Influencers]
ASSUME BoundsAssumption == MaxRetries \in Nat /\ MaxFaults \in Nat

VARIABLES
    rating_model,   \* is RATING_MODEL set in the worker's environment?
    runs,           \* the runs table
    watchlist,      \* the influencers table
    signals,        \* raw_signals
    rollup,         \* the rows the daily_signal_rollup view has counted
    ratings,        \* the content that has a row in signal_ratings
    dispatch,       \* where each run's dispatch has come to
    cohort,         \* the influencers dispatch_run read, per run
    scrape,         \* where each scrape_influencer task has come to
    new_items,      \* what the run's scrape tasks report as newly inserted
    landed,         \* the rows they did commit (history: nothing reads it)
    error,          \* the influencers whose scrape ended in an error
    finalize,       \* where each run's finalize_run has come to
    rate,           \* where each rate_signal task of a run has come to
    retries,        \* the attempts each of them has used up
    swept,          \* the content with a rate_signal task of the beat sweep
    crashed         \* the tasks that stopped half way and never resume

pipelineVars == <<rating_model, runs, watchlist, signals, rollup, ratings, dispatch,
                  cohort, scrape, new_items, landed, error, finalize, rate, retries,
                  swept, crashed>>

database == <<watchlist, signals, rollup, ratings>>
scrapeTasks == <<scrape, new_items, landed, error>>
ratingTasks == <<rate, retries, swept>>

-----------------------------------------------------------------------------
(* Types *)

Statuses == {"absent", "queued", "running", "rating", "completed", "failed"}
Terminal == {"completed", "failed"}

RunRow == [status: Statuses, model: BOOLEAN, total: Nat, done_count: Nat,
           inserted: Nat, rated_count: Nat, finished: BOOLEAN]

DispatchStates == {"idle", "unsent", "sent", "read", "fanned"}
ScrapeStates == {"idle", "queued", "started", "scraped", "counted", "enqueued", "returned"}
FinalizeStates == {"idle", "refreshed", "no_refresh", "say_scrape_done", "say_done", "returned"}
RateStates == {"idle", "queued", "called", "ended", "say_rating", "say_done", "announced"}

Tasks == [task: {"dispatch", "finalize"}, run: Runs]
         \cup [task: {"scrape"}, run: Runs, influencer: Influencers]
         \cup [task: {"rate"}, run: Runs, signal: Signals]

DispatchTask(r) == [task |-> "dispatch", run |-> r]
FinalizeTask(r) == [task |-> "finalize", run |-> r]
ScrapeTask(r, i) == [task |-> "scrape", run |-> r, influencer |-> i]
RateTask(r, x) == [task |-> "rate", run |-> r, signal |-> x]

TypeOK ==
    /\ rating_model \in BOOLEAN
    /\ runs \in [Runs -> RunRow]
    /\ watchlist \subseteq Influencers
    /\ signals \subseteq Signals
    /\ rollup \subseteq Signals
    /\ ratings \subseteq Signals
    /\ dispatch \in [Runs -> DispatchStates]
    /\ cohort \in [Runs -> SUBSET Influencers]
    /\ scrape \in [Runs -> [Influencers -> ScrapeStates]]
    /\ new_items \in [Runs -> SUBSET Signals]
    /\ landed \in [Runs -> SUBSET Signals]
    /\ error \in [Runs -> SUBSET Influencers]
    /\ finalize \in [Runs -> FinalizeStates]
    /\ rate \in [Runs -> [Signals -> RateStates]]
    /\ retries \in [Runs -> [Signals -> 0 .. MaxRetries]]
    /\ swept \subseteq Signals
    /\ crashed \subseteq Tasks

-----------------------------------------------------------------------------
(* Helpers *)

\* The posts of influencer i.
PostsOf(i) == {x \in Signals : Owner[x] = i}

\* rating_model = model or default_model(): the rating stage is on for run r.
RatingOn(r) == runs[r].model \/ rating_model

\* The scrape tasks whose done_count UPDATE has been committed.
Counted(r) == {i \in Influencers : scrape[r][i] \in {"counted", "enqueued", "returned"}}

\* The new signals those UPDATEs added to runs.inserted.
Accounted(r) == {x \in new_items[r] : Owner[x] \in Counted(r)}

\* The signals whose rate_signal task has bumped runs.rated_count.
Announced(r) == {x \in Signals : rate[r][x] \in {"say_rating", "say_done", "announced"}}

\* Mutated AllReturned: fan in on done_count = total instead of on the tasks' return.
AllReturnedOnCount(r) ==
    dispatch[r] = "fanned" /\ cohort[r] \subseteq Counted(r)

\* The chord's barrier: every task of the group has returned.
AllReturned(r) ==
    /\ dispatch[r] = "fanned"
    /\ \A i \in cohort[r] : scrape[r][i] = "returned"

-----------------------------------------------------------------------------
(* The statements that write a row of the runs table. *)

NoRun == [status |-> "absent", model |-> FALSE, total |-> 0, done_count |-> 0,
          inserted |-> 0, rated_count |-> 0, finished |-> FALSE]

InsertedRow(model, total) ==
    [NoRun EXCEPT !.status = "queued", !.model = model, !.total = total]

TrueUpTotal(row, total) == [row EXCEPT !.total = total]

\* status = CASE WHEN status = 'queued' THEN 'running' ELSE status END
MarkRunning(row) ==
    [row EXCEPT !.status = IF row.status = "queued" THEN "running" ELSE row.status]

\* done_count = done_count + 1, inserted = inserted + n
AddScrape(row, n) ==
    [row EXCEPT !.done_count = row.done_count + 1, !.inserted = row.inserted + n]

\* Mutated PostScrapeStatus: any new signal sends the run to `rating`.
PostScrapeStatusUnchecked(row, failed, rating_on) ==
    IF failed THEN "failed"
    ELSE IF rating_on /\ row.inserted > 0 THEN "rating" ELSE "completed"

\* The status finalize_run's UPDATE gives the row, off its CURRENT counters.
PostScrapeStatus(row, failed, rating_on) ==
    IF failed THEN "failed"
    ELSE IF rating_on /\ row.inserted > 0 /\ row.rated_count < row.inserted
         THEN "rating"
         ELSE "completed"

\* finished_at is stamped only with a terminal status.
Decide(row, status) ==
    [row EXCEPT !.status = status,
                !.finished = row.finished \/ status \in Terminal]

\* Mutated LastRating: without the guard on the status.
LastRatingUnguarded(row) == row.rated_count + 1 >= row.inserted

\* Does this bump bring rated_count up to inserted in a run that waits for just that?
LastRating(row) == row.status = "rating" /\ row.rated_count + 1 >= row.inserted

\* rated_count = rated_count + 1, and the flip of the last one.
AddRating(row) ==
    [row EXCEPT !.rated_count = row.rated_count + 1,
                !.status = IF LastRating(row) THEN "completed" ELSE row.status,
                !.finished = row.finished \/ LastRating(row)]

-----------------------------------------------------------------------------
(* The initial state: an empty schema and any watchlist loaded into it. *)

Init ==
    /\ rating_model \in BOOLEAN
    /\ runs = [r \in Runs |-> NoRun]
    /\ watchlist \in SUBSET Influencers
    /\ signals = {}
    /\ rollup = {}
    /\ ratings = {}
    /\ dispatch = [r \in Runs |-> "idle"]
    /\ cohort = [r \in Runs |-> {}]
    /\ scrape = [r \in Runs |-> [i \in Influencers |-> "idle"]]
    /\ new_items = [r \in Runs |-> {}]
    /\ landed = [r \in Runs |-> {}]
    /\ error = [r \in Runs |-> {}]
    /\ finalize = [r \in Runs |-> "idle"]
    /\ rate = [r \in Runs |-> [x \in Signals |-> "idle"]]
    /\ retries = [r \in Runs |-> [x \in Signals |-> 0]]
    /\ swept = {}
    /\ crashed = {}

-----------------------------------------------------------------------------
(* The API *)

\* POST /influencers: a handle that is already there changes nothing here.
CreateInfluencer(i) ==
    /\ i \notin watchlist
    /\ watchlist' = watchlist \cup {i}
    /\ UNCHANGED <<rating_model, runs, signals, rollup, ratings, dispatch, cohort,
                   scrapeTasks, finalize, ratingTasks, crashed>>

\* POST /signals: the idempotent upsert, outside any run.
CreateSignal(x) ==
    /\ x \notin signals
    /\ Owner[x] \in watchlist
    /\ signals' = signals \cup {x}
    /\ UNCHANGED <<rating_model, runs, watchlist, rollup, ratings, dispatch, cohort,
                   scrapeTasks, finalize, ratingTasks, crashed>>

\* POST /runs, up to the commit of the row: with a model that resolves, or with none.
CreateRun(r) ==
    /\ runs[r].status = "absent"
    /\ \E model \in BOOLEAN :
          runs' = [runs EXCEPT ![r] = InsertedRow(model, Cardinality(watchlist))]
    /\ dispatch' = [dispatch EXCEPT ![r] = "unsent"]
    /\ UNCHANGED <<rating_model, database, cohort, scrapeTasks, finalize, ratingTasks, crashed>>

\* The same request, after the commit: the message to the broker.
SendDispatch(r) ==
    /\ dispatch[r] = "unsent"
    /\ DispatchTask(r) \notin crashed
    /\ dispatch' = [dispatch EXCEPT ![r] = "sent"]
    /\ UNCHANGED <<rating_model, runs, database, cohort, scrapeTasks, finalize,
                   ratingTasks, crashed>>

-----------------------------------------------------------------------------
(* dispatch_run *)

\* Re-read the watchlist and true up the row's total, in one transaction.
DispatchRun(r) ==
    /\ dispatch[r] = "sent"
    /\ dispatch' = [dispatch EXCEPT ![r] = "read"]
    /\ cohort' = [cohort EXCEPT ![r] = watchlist]
    /\ runs' = [runs EXCEPT ![r] = TrueUpTotal(@, Cardinality(watchlist))]
    /\ UNCHANGED <<rating_model, database, scrapeTasks, finalize, ratingTasks, crashed>>

\* chord(header)(finalize_run): queue one scrape task per influencer that was read.
StartChord(r) ==
    /\ dispatch[r] = "read"
    /\ DispatchTask(r) \notin crashed
    /\ dispatch' = [dispatch EXCEPT ![r] = "fanned"]
    /\ scrape' = [scrape EXCEPT ![r] =
                     [i \in Influencers |-> IF i \in cohort[r] THEN "queued" ELSE @[i]]]
    /\ UNCHANGED <<rating_model, runs, database, cohort, new_items, landed, error,
                   finalize, ratingTasks, crashed>>

-----------------------------------------------------------------------------
(* scrape_influencer *)

\* The first statement: queued -> running, whichever task comes first.
ScrapeStart(r, i) ==
    /\ scrape[r][i] = "queued"
    /\ scrape' = [scrape EXCEPT ![r][i] = "started"]
    /\ runs' = [runs EXCEPT ![r] = MarkRunning(@)]
    /\ UNCHANGED <<rating_model, database, dispatch, cohort, new_items, landed, error,
                   finalize, ratingTasks, crashed>>

\* The scrape returns.  It counts as new what ON CONFLICT let through; a post that no
\* partition covers rolls the live scrape back to nothing, so of the rows it reports
\* only those inserted after that are kept (module ScrapeWrite has the detail).
ScrapeReturns(r, i) ==
    /\ scrape[r][i] = "started"
    /\ ScrapeTask(r, i) \notin crashed
    /\ \E fresh \in SUBSET (PostsOf(i) \ signals) :
          /\ \E kept \in SUBSET fresh :
                /\ signals' = signals \cup kept
                /\ landed' = [landed EXCEPT ![r] = @ \cup kept]
          /\ new_items' = [new_items EXCEPT ![r] = @ \cup fresh]
    /\ scrape' = [scrape EXCEPT ![r][i] = "scraped"]
    /\ UNCHANGED <<rating_model, runs, watchlist, rollup, ratings, dispatch, cohort, error,
                   finalize, ratingTasks, crashed>>

\* The scrape raises: the task reports nothing new, whatever was committed before.
ScrapeRaises(r, i) ==
    /\ scrape[r][i] = "started"
    /\ ScrapeTask(r, i) \notin crashed
    /\ \E kept \in SUBSET (PostsOf(i) \ signals) :
          /\ signals' = signals \cup kept
          /\ landed' = [landed EXCEPT ![r] = @ \cup kept]
    /\ error' = [error EXCEPT ![r] = @ \cup {i}]
    /\ scrape' = [scrape EXCEPT ![r][i] = "scraped"]
    /\ UNCHANGED <<rating_model, runs, watchlist, rollup, ratings, dispatch, cohort,
                   new_items, finalize, ratingTasks, crashed>>

\* Mutated CountScrape: counts the posts that are stored, not the ones this call inserted.
CountScrapeStored(r, i) ==
    /\ scrape[r][i] = "scraped"
    /\ ScrapeTask(r, i) \notin crashed
    /\ scrape' = [scrape EXCEPT ![r][i] = "counted"]
    /\ runs' = [runs EXCEPT ![r] = AddScrape(@, Cardinality(signals \cap PostsOf(i)))]
    /\ UNCHANGED <<rating_model, database, dispatch, cohort, new_items, landed, error,
                   finalize, ratingTasks, crashed>>

\* The accounting UPDATE: done_count + 1, inserted + the number of new items.
CountScrape(r, i) ==
    /\ scrape[r][i] = "scraped"
    /\ ScrapeTask(r, i) \notin crashed
    /\ scrape' = [scrape EXCEPT ![r][i] = "counted"]
    /\ runs' = [runs EXCEPT ![r] =
                   AddScrape(@, Cardinality(new_items[r] \cap PostsOf(i)))]
    /\ UNCHANGED <<rating_model, database, dispatch, cohort, new_items, landed, error,
                   finalize, ratingTasks, crashed>>

\* One rate_signal.delay per new item, when the run or the worker names a model.
EnqueueRatings(r, i) ==
    /\ scrape[r][i] = "counted"
    /\ ScrapeTask(r, i) \notin crashed
    /\ scrape' = [scrape EXCEPT ![r][i] = "enqueued"]
    /\ rate' = [rate EXCEPT ![r] =
                   [x \in Signals |-> IF RatingOn(r) /\ x \in new_items[r] \cap PostsOf(i)
                                      THEN "queued" ELSE @[x]]]
    /\ UNCHANGED <<rating_model, runs, database, dispatch, cohort, new_items, landed, error,
                   finalize, retries, swept, crashed>>

\* Publish the `progress` delta and return to the chord.
PublishProgress(r, i) ==
    /\ scrape[r][i] = "enqueued"
    /\ ScrapeTask(r, i) \notin crashed
    /\ scrape' = [scrape EXCEPT ![r][i] = "returned"]
    /\ UNCHANGED <<rating_model, runs, database, dispatch, cohort, new_items, landed, error,
                   finalize, ratingTasks, crashed>>

-----------------------------------------------------------------------------
(* finalize_run *)

\* The chord calls back once every scrape has returned: refresh the rollup ...
RefreshForRun(r) ==
    /\ finalize[r] = "idle"
    /\ AllReturned(r)
    /\ \/ /\ rollup' = signals
          /\ finalize' = [finalize EXCEPT ![r] = "refreshed"]
       \/ /\ UNCHANGED rollup
          /\ finalize' = [finalize EXCEPT ![r] = "no_refresh"]
    /\ UNCHANGED <<rating_model, runs, watchlist, signals, ratings, dispatch, cohort,
                   scrapeTasks, ratingTasks, crashed>>

\* Mutated RunFailed: forgets that the refresh may have failed.
RunFailedIgnoringRefresh(r) == cohort[r] # {} /\ error[r] = cohort[r]

\* failed = every influencer errored, or the refresh did.
RunFailed(r) ==
    \/ finalize[r] = "no_refresh"
    \/ cohort[r] # {} /\ error[r] = cohort[r]

\* ... then one UPDATE moves the run out of the scrape phase, and stamps finished_at
\* when that ends it.
DecideRun(r) ==
    /\ finalize[r] \in {"refreshed", "no_refresh"}
    /\ FinalizeTask(r) \notin crashed
    /\ LET status == PostScrapeStatus(runs[r], RunFailed(r), RatingOn(r)) IN
          /\ runs' = [runs EXCEPT ![r] = Decide(@, status)]
          /\ finalize' = [finalize EXCEPT ![r] =
                             IF status \in Terminal THEN "say_done" ELSE "say_scrape_done"]
    /\ UNCHANGED <<rating_model, database, dispatch, cohort, scrapeTasks, ratingTasks, crashed>>

\* Publish `scrape_done`, or `done` if the run is over.
PublishFanIn(r) ==
    /\ finalize[r] \in {"say_scrape_done", "say_done"}
    /\ FinalizeTask(r) \notin crashed
    /\ finalize' = [finalize EXCEPT ![r] = "returned"]
    /\ UNCHANGED <<rating_model, runs, database, dispatch, cohort, scrapeTasks, ratingTasks,
                   crashed>>

-----------------------------------------------------------------------------
(* rate_signal, enqueued by a run *)

\* The content has a rating: nothing to do but announce it.
AlreadyRated(r, x) ==
    /\ rate[r][x] = "queued"
    /\ x \in ratings
    /\ rate' = [rate EXCEPT ![r][x] = "ended"]
    /\ UNCHANGED <<rating_model, runs, database, dispatch, cohort, scrapeTasks, finalize,
                   retries, swept, crashed>>

\* It has none: look for a near-identical one, then call the model, with no lock held.
CallModel(r, x) ==
    /\ rate[r][x] = "queued"
    /\ x \notin ratings
    /\ rate' = [rate EXCEPT ![r][x] = "called"]
    /\ UNCHANGED <<rating_model, runs, database, dispatch, cohort, scrapeTasks, finalize,
                   retries, swept, crashed>>

\* The answer (or the copied rating) is stored, unless another task was first:
\* ON CONFLICT DO NOTHING.
StoreRating(r, x) ==
    /\ rate[r][x] = "called"
    /\ RateTask(r, x) \notin crashed
    /\ ratings' = ratings \cup {x}
    /\ rate' = [rate EXCEPT ![r][x] = "ended"]
    /\ UNCHANGED <<rating_model, runs, watchlist, signals, rollup, dispatch, cohort,
                   scrapeTasks, finalize, retries, swept, crashed>>

\* Mutated RetryRating: no limit on the attempts.
RetryRatingForever(r, x) ==
    /\ rate[r][x] = "called"
    /\ RateTask(r, x) \notin crashed
    /\ rate' = [rate EXCEPT ![r][x] = "queued"]
    /\ retries' = [retries EXCEPT ![r][x] = @ + 1]
    /\ UNCHANGED <<rating_model, runs, database, dispatch, cohort, scrapeTasks, finalize,
                   swept, crashed>>

\* RatingError with attempts left: back to the queue with a countdown.
RetryRating(r, x) ==
    /\ rate[r][x] = "called"
    /\ RateTask(r, x) \notin crashed
    /\ retries[r][x] < MaxRetries
    /\ rate' = [rate EXCEPT ![r][x] = "queued"]
    /\ retries' = [retries EXCEPT ![r][x] = @ + 1]
    /\ UNCHANGED <<rating_model, runs, database, dispatch, cohort, scrapeTasks, finalize,
                   swept, crashed>>

\* Mutated GiveUpRating: the task dies without announcing its signal.
GiveUpSilently(r, x) ==
    /\ rate[r][x] = "called"
    /\ RateTask(r, x) \notin crashed
    /\ retries[r][x] >= MaxRetries
    /\ rate' = [rate EXCEPT ![r][x] = "announced"]
    /\ UNCHANGED <<rating_model, runs, database, dispatch, cohort, scrapeTasks, finalize,
                   retries, swept, crashed>>

\* RatingError on the last attempt: give up, and announce the signal all the same.
GiveUpRating(r, x) ==
    /\ rate[r][x] = "called"
    /\ RateTask(r, x) \notin crashed
    /\ retries[r][x] >= MaxRetries
    /\ rate' = [rate EXCEPT ![r][x] = "ended"]
    /\ UNCHANGED <<rating_model, runs, database, dispatch, cohort, scrapeTasks, finalize,
                   retries, swept, crashed>>

\* Mutated AnnounceRating: says `done` off the counters, not off the status.
AnnounceByCount(r, x) ==
    /\ rate[r][x] = "ended"
    /\ RateTask(r, x) \notin crashed
    /\ runs' = [runs EXCEPT ![r] = AddRating(@)]
    /\ rate' = [rate EXCEPT ![r][x] =
                   IF AddRating(runs[r]).rated_count >= runs[r].inserted
                   THEN "say_done" ELSE "say_rating"]
    /\ UNCHANGED <<rating_model, database, dispatch, cohort, scrapeTasks, finalize, retries,
                   swept, crashed>>

\* _announce_rating, the UPDATE: it comes to owe `done` if the row came back completed,
\* and a `rating` delta otherwise.
AnnounceRating(r, x) ==
    /\ rate[r][x] = "ended"
    /\ RateTask(r, x) \notin crashed
    /\ runs' = [runs EXCEPT ![r] = AddRating(@)]
    /\ rate' = [rate EXCEPT ![r][x] =
                   IF AddRating(runs[r]).status = "completed" THEN "say_done" ELSE "say_rating"]
    /\ UNCHANGED <<rating_model, database, dispatch, cohort, scrapeTasks, finalize, retries,
                   swept, crashed>>

\* _announce_rating, the delta.
PublishRating(r, x) ==
    /\ rate[r][x] \in {"say_rating", "say_done"}
    /\ RateTask(r, x) \notin crashed
    /\ rate' = [rate EXCEPT ![r][x] = "announced"]
    /\ UNCHANGED <<rating_model, runs, database, dispatch, cohort, scrapeTasks, finalize,
                   retries, swept, crashed>>

-----------------------------------------------------------------------------
(* The beat's backstops *)

\* sweep_unrated: a batch of stored content without a rating, with no run to announce to.
SweepUnrated ==
    /\ rating_model
    /\ \E batch \in SUBSET (signals \ (ratings \cup swept)) :
          /\ batch # {}
          /\ swept' = swept \cup batch
    /\ UNCHANGED <<rating_model, runs, database, dispatch, cohort, scrapeTasks, finalize,
                   rate, retries, crashed>>

\* rate_signal with run_id = None: it stores a rating or gives up, and says nothing.
RateSwept(x) ==
    /\ x \in swept
    /\ swept' = swept \ {x}
    /\ ratings' \in {ratings, ratings \cup {x}}
    /\ UNCHANGED <<rating_model, runs, watchlist, signals, rollup, dispatch, cohort,
                   scrapeTasks, finalize, rate, retries, crashed>>

\* refresh_rollup_task.
RefreshRollup ==
    /\ rollup' = signals
    /\ UNCHANGED <<rating_model, runs, watchlist, signals, ratings, dispatch, cohort,
                   scrapeTasks, finalize, ratingTasks, crashed>>

-----------------------------------------------------------------------------
(* A task that stops between two of its statements: its process is killed, or it raises  *)
(* what it does not catch (a database or broker error; module RunUncaught has the errors  *)
(* of the model call).  Celery has acknowledged the message, so it does not come back.          *)

Underway ==
    {DispatchTask(r) : r \in {s \in Runs : dispatch[s] \in {"unsent", "read"}}}
    \cup {FinalizeTask(r) : r \in {s \in Runs : finalize[s] \notin {"idle", "returned"}}}
    \cup {t \in [task: {"scrape"}, run: Runs, influencer: Influencers] :
             scrape[t.run][t.influencer] \notin {"idle", "queued", "returned"}}
    \cup {t \in [task: {"rate"}, run: Runs, signal: Signals] :
             rate[t.run][t.signal] \notin {"idle", "queued", "announced"}}

Crash ==
    /\ Cardinality(crashed) < MaxFaults
    /\ \E t \in Underway \ crashed : crashed' = crashed \cup {t}
    /\ UNCHANGED <<rating_model, runs, database, dispatch, cohort, scrapeTasks, finalize,
                   ratingTasks>>

-----------------------------------------------------------------------------

DispatchStep(r) == SendDispatch(r) \/ DispatchRun(r) \/ StartChord(r)

ScrapeStep(r, i) ==
    \/ ScrapeStart(r, i) \/ ScrapeReturns(r, i) \/ ScrapeRaises(r, i)
    \/ CountScrape(r, i) \/ EnqueueRatings(r, i)

RateStep(r, x) ==
    \/ AlreadyRated(r, x) \/ CallModel(r, x) \/ StoreRating(r, x) \/ RetryRating(r, x)
    \/ GiveUpRating(r, x) \/ AnnounceRating(r, x)

\* Everything but the publication of a delta.
WorkStep ==
    \/ \E i \in Influencers : CreateInfluencer(i)
    \/ \E x \in Signals : CreateSignal(x) \/ RateSwept(x)
    \/ SweepUnrated
    \/ RefreshRollup
    \/ Crash
    \/ \E r \in Runs :
          \/ CreateRun(r)
          \/ DispatchStep(r)
          \/ \E i \in Influencers : ScrapeStep(r, i)
          \/ RefreshForRun(r)
          \/ DecideRun(r)
          \/ \E x \in Signals : RateStep(r, x)

PublishStep ==
    \E r \in Runs :
       \/ \E i \in Influencers : PublishProgress(r, i)
       \/ PublishFanIn(r)
       \/ \E x \in Signals : PublishRating(r, x)

Next == WorkStep \/ PublishStep

Spec == Init /\ [][Next]_pipelineVars

\* A worker that is up takes its tasks off the queue and moves each of them on; the API
\* finishes the request it began.  Nothing makes a request, a sweep or a crash happen.
Fairness ==
    \A r \in Runs :
       /\ WF_pipelineVars(DispatchStep(r))
       /\ WF_pipelineVars(RefreshForRun(r) \/ DecideRun(r) \/ PublishFanIn(r))
       /\ \A i \in Influencers : WF_pipelineVars(ScrapeStep(r, i) \/ PublishProgress(r, i))
       /\ \A x \in Signals : WF_pipelineVars(RateStep(r, x) \/ PublishRating(r, x))

FairSpec == Spec /\ Fairness

-----------------------------------------------------------------------------
(* Properties *)

\* The three counters of the row agree with the tasks behind them at every commit: no
\* bump is lost, doubled or made for a signal the run has not accounted for, whatever
\* the order in which scrapes, ratings and the sweep run (tasks.py: the two UPDATEs of
\* scrape_influencer and _announce_rating).
LedgerBalances ==
    \A r \in Runs :
       /\ runs[r].done_count = Cardinality(Counted(r))
       /\ runs[r].inserted = Cardinality(Accounted(r))
       /\ runs[r].rated_count = Cardinality(Announced(r))
       /\ Announced(r) \subseteq Accounted(r)

\* A run waits in `rating` only while a rating is still owed to it, so there is always a
\* bump left to end it (finalize_run decides off the row's current rated_count so that a
\* rating that lands during the callback cannot strand the run).
NoStrandedRun ==
    \A r \in Runs :
       runs[r].status = "rating" => runs[r].rated_count < runs[r].inserted

\* A completed run for which rating is on has announced every signal it inserted.
CompletedMeansHandled ==
    \A r \in Runs :
       runs[r].status = "completed" /\ RatingOn(r) => Announced(r) = Accounted(r)

\* The scrape phase is over for good once finalize_run begins: every influencer that was
\* fanned out to has returned and been counted, and the total is the number of them.
FanInIsABarrier ==
    \A r \in Runs :
       runs[r].status \in Terminal \cup {"rating"} =>
          /\ \A i \in cohort[r] : scrape[r][i] = "returned"
          /\ runs[r].done_count = runs[r].total
          /\ runs[r].total = Cardinality(cohort[r])

\* When a run leaves the scrape phase for anything but `failed`, the rollup shows every
\* row its scrapes committed, those of a scrape that failed half way included.
RollupCoversRun ==
    \A r \in Runs :
       runs[r].status \in {"rating", "completed"} => landed[r] \subseteq rollup

\* A terminal status is never left, whatever rating tasks of a failed run still announce,
\* and finished_at is set by the very step that makes the status terminal.
TerminalIsFinal ==
    [][\A r \in Runs :
          /\ runs[r].status \in Terminal => runs'[r].status = runs[r].status
          /\ runs'[r].finished <=> runs'[r].status \in Terminal]_pipelineVars

\* The tasks of r that have committed and owe the run's watchers a `done`.
OwesDone(r) ==
    {f \in {"finalize"} : finalize[r] = "say_done"}
    \cup {x \in Signals : rate[r][x] = "say_done"}

\* A task comes to owe a `done` in the step that ends the run and in no other: watchers
\* are told once, and not before the row says so.
DoneMarksTheEnd ==
    [][\A r \in Runs :
          (OwesDone(r)' \ OwesDone(r) # {})
             <=> (runs[r].status \notin Terminal /\ runs'[r].status \in Terminal)]_pipelineVars

\* With every process up, each run that was created ends (task-contract: the row sits in
\* `queued` and the run picks up when the worker returns).
EveryRunEnds ==
    \A r \in Runs : (runs[r].status = "queued") ~> (runs[r].status \in Terminal)

-----------------------------------------------------------------------------
(* The inductive invariant behind these properties *)

\* How far the tasks of a run can have come, relative to one another.
Shape(r) ==
    /\ runs[r].status = "absent" <=> dispatch[r] = "idle"
    /\ dispatch[r] # "fanned" => \A i \in Influencers : scrape[r][i] = "idle"
    /\ \A i \in Influencers : i \notin cohort[r] => scrape[r][i] = "idle"
    /\ \A x \in Signals :
          rate[r][x] # "idle" =>
             /\ x \in new_items[r]
             /\ scrape[r][Owner[x]] \in {"enqueued", "returned"}
             /\ RatingOn(r)
    /\ finalize[r] # "idle" => AllReturned(r)
    /\ runs[r].status \in Terminal \cup {"rating"}
          <=> finalize[r] \in {"say_scrape_done", "say_done", "returned"}

\* What the counters say of the status.
StatusFits(r) ==
    /\ runs[r].status = "rating" => RatingOn(r) /\ runs[r].rated_count < runs[r].inserted
    /\ runs[r].status = "completed" /\ RatingOn(r) =>
          runs[r].rated_count >= runs[r].inserted
    /\ runs[r].finished <=> runs[r].status \in Terminal
    /\ dispatch[r] \in {"read", "fanned"} => runs[r].total = Cardinality(cohort[r])

\* What the rollup has seen of a run's rows.
RollupFits(r) ==
    /\ landed[r] \subseteq signals
    /\ finalize[r] = "refreshed" \/ runs[r].status \in {"rating", "completed"} =>
          landed[r] \subseteq rollup

\* RunPipelineProofs shows that every step preserves this.
IInv ==
    /\ TypeOK
    /\ LedgerBalances
    /\ \A r \in Runs : Shape(r) /\ StatusFits(r) /\ RollupFits(r)

-----------------------------------------------------------------------------
(* The refinement *)

\* The run's lifecycle, with the handled signals abstracted from the rating tasks.
Lifecycle == INSTANCE RunLifecycle WITH
    status <- [r \in Runs |-> runs[r].status],
    todo <- [r \in Runs |-> IF RatingOn(r) THEN Accounted(r) \ Announced(r) ELSE {}]

LifecycleSpec == Lifecycle!Spec
=============================================================================
