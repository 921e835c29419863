# Verification of the scrape pipeline, its readers, its agents and its releases

TLA+ models of this repository's services and deploy tooling, checked with TLC on small
instances; every safety and action property they state is also proved with TLAPS, for every value
of the constants (section 5). `PROJECT.json` maps each definition to the lines it models.

## 1. The system

| Component | State it keeps | Operations | Modelled in |
|---|---|---|---|
| API (`services/api/api/main.py`) | none of its own; rows of `runs`, `influencers`, `raw_signals`, `digests` | create a run (row, then broker message), add influencers and signals, move a watermark, read routes, SSE streams, digest delivery | `RunPipeline`, `ScrapeWrite`, `RunStream` |
| Task contract (`packages/task-contract`) | the broker's queue | `send_task(DISPATCH_RUN)` | `RunPipeline` (`SendDispatch`, `DispatchRun`) |
| Worker tasks (`services/worker/worker/tasks.py`) | the `runs` row's status and counters, the Celery chord | `dispatch_run`, `scrape_influencer`, `finalize_run`, `rate_signal`, `_announce_rating`, `sweep_unrated`, `refresh_rollup_task`, `embed_signal`, `sweep_unembedded` | `RunPipeline`, `ContentStage` |
| Scrape and signal writes (`scrape.py`, `common/signals.py`) | `raw_signals`, `influencers.last_scraped_at` | live and demo scrape, `insert_signal` | `ScrapeWrite` |
| Embedding stage, semantic rating cache (`common/embedding.py`, `backfill.py`, `_semantic_cache_lookup`) | `signal_embeddings`, `signal_ratings` | embed a signal, both sweeps, backfill, copy a near neighbour's rating | `ContentStage` |
| Search and themes (`common/search.py`, `clusters.py`, `digests.py`) | none (reads) | rank fusion, greedy clustering, the flat list | `Discovery` |
| Progress stream (`stream_run`) | one Redis subscription per watcher | subscribe, snapshot, relay, close | `RunStream` |
| Chat gateway (`services/chat/chat/main.py`) | `msg_messages`, per-instance `conns`, one Redis subscription per instance | WebSocket send and typing, REST send, history, subscriber loop | `ChatGateway` |
| Agent loop (`services/agent`, `services/agent-ts`) | one conversation per request | call the model, run tools, stream events | `AgentLoop` |
| Migrations (`migrate.py`, `upgrade.py`, Alembic) and deploy configuration (`.railway/railway.ts`, `railway.json`) | `schema_migrations`, `alembic_version`, the served images | apply pending files, then Alembic, then serve | `Release` |
| Preview environments (`preview-env.yml`, `railway-preview.py`) | the host's environment `pr-<n>`, one queue per pull request | up, down | `Previews` |
| Managed agent control (`agentctl.py`) | the vendor's agents, deployments and credentials | deploy, teardown | `AgentControl` (a preview's tier) |
| Digest delivery, MCP server, session/env/seed, CI | a write-once row, or none | | not modelled, section 7 |

How they interact:

* The API commits a `runs` row and then sends one message. The worker reads the
  watchlist, corrects `total`, and starts a Celery **chord**: one
  `scrape_influencer` per creator, and `finalize_run` when all have returned.
* A scrape commits its rows, adds itself to `done_count` and `inserted`, enqueues a
  `rate_signal` and an `embed_signal` per new row, and only then publishes its delta and
  returns. Rating tasks therefore run beside other scrapes, beside `finalize_run` and
  beside other runs.
* Each rating task announces once: one `UPDATE` that bumps `rated_count` and flips
  `rating` to `completed` when it is the last. `finalize_run` decides the status off
  the row's *current* `rated_count`. Whichever of the two is second ends the run.
* A rating task first embeds the caption and looks for a rated neighbour to copy from;
  embed tasks, both sweeps and the backfill write the same two tables. Themes and search
  read them, per request.
* Deltas go through Redis pub/sub, after the commit and best-effort. Watchers
  subscribe first, read the row second, and relay from then on.
* Chat: persist, commit, publish on one channel; each instance's single subscriber
  task pushes to the sockets that this instance holds.
* The agent loop is a generator that the SSE handler pulls; its tools are calls to the API,
  one of which creates a run.
* A push deploys several services on one database; two of them bring its schema up first,
  with nothing that locks them apart. A preview is built and torn down by a workflow whose
  runs share a concurrency group per pull request.

What is hard: the order of independent tasks that share one row; the fan-in barrier
with tasks that fail; stale reads (a watermark from dispatch time, a snapshot sent
after it was read, an "already rated" check before the model call, a list of applied
migrations, an agent's version); messages published after a commit by several processes;
processes that stop between a commit and what should follow it; calls answered with an
error after they took effect; a reconnect that overtakes the end of the connection it
replaces. `PROJECT.json` lists each hazard at its line, with the properties that cover it
or why none does.

What makes each component correct:

* *Run pipeline*: the counters agree with the tasks behind them; the barrier is one;
  a run in `rating` is owed a rating; a terminal status is final and stamped by the
  statement that makes it so; a run that did not fail shows all its rows in the
  rollup; every run ends when nothing stops.
* *Scrape writes*: overlapping scrapes lose nothing behind the watermark; a call reports the
  rows it committed, and nothing when it raised.
* *Contents*: a copied rating is of a near neighbour, and its chain ends at a model's own;
  the backfill reports what it brought in; backlogs drain. *Themes and search*: a partition
  with near members and the strongest in front; fusion ranks what both lists found first.
* *Stream*: a watcher misses no bump and no end, however it reconnects.
* *Chat*: a live client that has read the history has, or is about to get, each
  published message meant for it, on whichever instance it was sent.
* *Agent loop*: each `tool_use` is answered before the next call, the stream tells what was
  done, turns are bounded.
* *Release*: a migration in a transaction takes effect once, whoever applies it; code that
  has a preDeploy has its schema; what failed is made good, but for a file that cannot be
  repeated and was cut from its record. *Previews*: an up that succeeds
  leaves a whole preview, a down that succeeds leaves nothing.

## 2. Modules

`RunLifecycle` is what a run promises to a watcher: `queued`, `running`, perhaps
`rating`, then `completed` or `failed`, once. Two variables, no tasks.

`RunPipeline` is the pipeline itself. A step is one committed statement, or one call
to Apify, a model or Redis, of one task. `runs`, `watchlist`, `signals`, `ratings`
and `rollup` are the tables; `dispatch`, `scrape`, `finalize` and `rate` say where
each task has come to in its function body; `crashed` holds the tasks that stopped
half way. `landed` is a history variable (the rows a run committed) that nothing
reads. Actions follow the code in order: `CreateRun`, `SendDispatch`, `DispatchRun`,
`StartChord`; `ScrapeStart`, `ScrapeReturns` or `ScrapeRaises`, `CountScrape`,
`EnqueueRatings`, `PublishProgress`; `RefreshForRun`, `DecideRun`, `PublishFanIn`;
`AlreadyRated`, `CallModel`, `StoreRating`, `RetryRating`, `GiveUpRating`,
`AnnounceRating`, `PublishRating`; `SweepUnrated`, `RateSwept`, `RefreshRollup`. It
implements `RunLifecycle` (`LifecycleSpec`): the status maps to itself, and what is
still to be handled is `Accounted \ Announced` when rating is on. `RunUncaught` adds one
action: a model call that raises something other than `RatingError`.

`RunStream` composes `RunPipeline` with the watchers of `GET /runs/{id}/stream`: each
publishing step of a task also appends its delta to the inbox of every subscribed
watcher. A snapshot is the row's status and the bumps the row includes; reading it in a
thread and sending it are two steps, as in the code.

`ScrapeWrite` zooms into the scrape, which is two steps of `RunPipeline`, for one
creator and statement by statement: the live transaction with its rollbacks and its
one commit, the demo's commit per row, and the watermark with a clock, so that several
runs and the API overlap inside it. `omitted` (what each request's limit left out)
is a history variable. Which posts a limit leaves out is open: the scraper reads the grid,
where a pinned old post comes first (`20260708000004_older_partitions.sql`).

`ContentStage` zooms into what `RunPipeline` calls `CallModel` and `StoreRating`, and adds
the embedding side: `signal_embeddings` and `signal_ratings`, a message per slot with the
stage its task has come to (check, embed, probe, copy or call the model, store), the two
sweeps, and the backfill with its open transaction, in front of which an insert of the same
key waits. A rating is the content it was copied from (itself when a model gave it), and a
vector is its distance to the others. Contents are numbered in the order of their hash, by
which the sweeps take their batches. `Discovery` extends it by what is read: the greedy
clustering (its two loops as recursive functions over the sorted rows), the sorts and the fusion,
evaluated on every reachable content of the tables and compared with what they promise. Sorting is
`InOrder`, the set in the order given by how many of its elements come before each.

`ChatGateway` has the instances, their `conns` tables and subscriber tasks, what Redis
has delivered to each, the sockets' states as the server sees them, and the requests,
which stop between the commit and the publish or are retried. `newest` and `published`
are history variables; `known` and `caught_up` are the client's side.

`AgentLoop` is one turn, of the Python service or of its TypeScript port (`impl`): `pc`
distinguishes the loop running (in the model call, in a tool) from the loop suspended at a
`yield`, from which only the handler's next pull takes it on. A message is its role and its
blocks; the model's answers and the tools' outcomes are any.

`AgentControl` has the calls of `agentctl deploy` and `teardown` for a preview's agent as
actions of one job; `Previews` extends it by the pull request, the workflow's concurrency
group (one run, one that waits, the newest takes the place of the one that waits), and the
calls of `railway-preview.py`. Each call may fail without an effect, or be answered with an
error after it took effect; `gql` repeats such a call, `agentctl` does not. Every `up` pins the
sources and queues the deploys again, service by service in the order of the code's lists
(`LoopsOn`). `intent`, `fate` and `halfDown` are history variables; `halfDown` holds from a `down`
that failed with the environment gone to the next `down` that succeeds.

`Release` has the services with their deploys, the newest image, `schema_migrations`, how
often each version took effect (`effects`, a history variable) and `alembic_version`. A
transaction is one step (its record's primary key undoes it, whole, when another applier
was first), a `transaction:false` file is two. Cut between them and tried again, a file that is
in `Repeatable` runs once more and any other fails (`Executes`): `CREATE INDEX CONCURRENTLY` of
`migrate.py`'s docstring does, `... IF NOT EXISTS` does not. Which service has which preDeploy is the
constant `Script`: `upgrade.py` for the API, `migrate.py` for messaging, none for the worker.
(`messaging` is in `railway.ts` with its preDeploy, behind the flag `PROVISION_MESSAGING`;
today's second applier is a second deploy of the API or an operator's.)

The theorems about a module are in the one named after it: `RunPipelineProofs` (of `RunUncaught` too),
`RunStreamProofs` (which builds on it), `ScrapeWriteProofs`, `DiscoveryProofs` (of `ContentStage`
too), `ChatGatewayProofs`, `AgentLoopProofs`, `PreviewsProofs` (of `AgentControl` too) and
`ReleaseProofs`. The `MC*` modules give the constants values.

## 3. Runs

| Run | Instance | Shows |
|---|---|---|
| `pipeline_safety` | 1 run, 2 creators with a post each, 1 retry, 1 task that stops | counters, barrier, status, rollup and `done` are consistent in every interleaving |
| `pipeline_liveness` | 1 run, 1 creator with 2 posts, 1 retry, nothing stops | every run ends, and the pipeline implements the lifecycle |
| `stream` | 1 creator, 1 post, 1 watcher that connects twice | no gap, `done` is coming and never early, every watcher is told |
| `scrape_write` | 2 runs on one creator, 4 instants, limit 2, one real and one synthetic post without a partition | what the watermark hides has no partition, was beyond a limit, or is what `scrape_rollback` reports as lost; calls report their rows |
| `content` | 4 contents in a row, each near the next, one that the provider refuses, 2 messages at once, 1 retry, 1 other failure, batches and commits of 2 | ratings are rooted and copied from near neighbours, the backfill's report is right, backlogs drain, themes and fusion keep their promises on every reachable table |
| `chat` | 2 instances, 2 users, 2 sockets of one user on one instance, 2 requests for one message on different instances | nothing is missed, the newest socket is routed to, recipients are reached |
| `agent` | both implementations, answers of up to 2 tools, 3 model calls, with and without an earlier exchange | requests are well formed, the stream is a story, runs are told, turns end |
| `previews` | 1 pull request, 5 events, 3 faults | an up that succeeds is whole, a down that succeeds leaves nothing |
| `release` | 3 services, 3 images (the second adds an older file), 2 `transaction:false` files of which one can be repeated, 2 deploys that stop or go back | a file takes effect once, code has its schema, retries converge unless a file that cannot be repeated was cut in two |
| `uncaught` (violation) | 1 post | a model call that raises something else leaves the run in `rating`, against `rate_signal`'s docstring |
| `scrape_rollback` (violation) | as `scrape_write` | a rollback takes rows that stay counted and reported, and that the watermark leaves behind, against `scrape.py`'s docstring |
| `chat_subscriber` (violation) | as `chat` | one dead socket ends the instance's subscriber, against the comment in `lifespan` |

Why the bounds are enough. In the pipeline all sharing is through one row and sets of
content, and each hazard needs at most two tasks and the callback: two scrapes (so that
one is counted while the other is out) with a rating each, or one scrape with two
ratings (so that there is a last one and one before it). Two runs interact only through
`ratings`, `signals` and the rollup; the sweep and the API are already a second party
to each of these, and the proofs cover any number of runs. A watcher's second connect is
what reconnection needs. For the watermark, two overlapping tasks, a post before, during
and after them, and a feed longer than the limit are reachable with four instants. In the
chat module each property is about one socket and one message; a second socket of the
same user on the same instance is the interesting neighbour, and two requests give a
retry and a sender on the other instance. For the contents, a chain of copies needs three
near neighbours and a race needs two messages about one content beside the backfill; the
fourth content is what a batch of two must get past when the first is refused for good. An
agent's turn needs one call that asks twice and one after it, the last of which gives up.
A preview is torn down, resumed and torn down again within five events, with three faults
between them. A release needs three images for a deploy that goes back behind one that
failed. `MaxRetries` is the tasks' `max_retries` (3 in the code, 0 or 1 here); `MaxFaults`
bounds the tasks that stop or the calls that fail, `MaxStops` the deploys that stop or go
back, `MaxEvents` a pull request's events, `MaxConnects` how often a watcher connects,
`MaxTime` the clock; `Requests` and `Sockets` are used once each.

Deadlock is checked except in the runs whose system really stops: a clock at `MaxTime` with all
runs returned (`scrape_write`), all sockets and requests used up (`chat`), a turn that has ended
(`agent`), a pull request without another event (`previews`), the last image served
(`release`).

## 4. Fairness

* Pipeline: weak fairness of each task's steps, since a worker that is up keeps
  consuming its queue and nothing in the code disables a task for good. None for the
  API's callers, for the sweep or for the beat refresh, and none is needed. Which
  way a scrape or a model call ends is not constrained: retries are bounded by
  `max_retries`, so every outcome leads on. It is claimed only with `MaxFaults = 0`: a
  worker that dies in a scrape leaves the chord incomplete, and the code has no recovery.
* Stream: the same for the tasks, and weak fairness of the event loop on a watcher's
  snapshot and relay. A client may leave at any moment.
* Contents: weak fairness of the tasks and of the backfill's process. The beat has strong
  fairness of a sweep that enqueues something the provider would take: it fires for ever, and
  its batch is enqueued whole in the code, one by one into two slots here. `BacklogDrains`
  therefore speaks of contents the provider takes, with fewer refused ones than a batch holds;
  a full batch of refused captions does starve the rest in the code (50 of them).
* Chat: weak fairness of each instance's subscriber. Requests, sockets and restarts have
  none.
* Agent: weak fairness of the loop, whose model and tool calls have timeouts; the handler
  pulls as long as its client is there. `EveryTurnEnds` excepts the Python loop whose client
  has gone, which nobody resumes.
* Release: weak fairness of each service's deploy. Its steps are a process that runs; that a
  failed deploy is tried again is an operator's doing, or the next push's.
* Previews: none; its properties are about runs that succeed.

## 5. Proofs

Each safety property below is proved for every value of the constants that the named
assumptions admit. None of them is inductive alone; what follows says what each inductive
invariant adds, and why. TLC checked each invariant on the instance of its run first.

| Module | Theorem | Property |
|---|---|---|
| `RunPipelineProofs` | `TypeCorrect`, `Invariance` | `TypeOK`, the inductive invariant |
| | `LedgerTheorem`, `NoStrandedRunTheorem`, `CompletedTheorem`, `BarrierTheorem`, `RollupTheorem` | `LedgerBalances`, `NoStrandedRun`, `CompletedMeansHandled`, `FanInIsABarrier`, `RollupCoversRun` |
| | `TerminalTheorem`, `DoneTheorem` | the action properties `TerminalIsFinal`, `DoneMarksTheEnd` |
| | `RefinementTheorem` | `LifecycleSpec`: the pipeline implements `RunLifecycle` |
| | `UncaughtKeepsTheRows`, `UncaughtKeepsTheLifecycle` | the same invariants and `LifecycleSpec`, under `UncaughtSpec` |
| | `ALostRatingStrandsItsRun` | why `RatingConverges` fails: a lost rating is final |
| `RunStreamProofs` | `StreamTypesHold`, `NothingFallsBetween`, `TheEndIsTold` | `StreamTypeOK`, `NoGap`, `DoneIsComing` |
| | `WatchersOnlyWatch`, `WatchedRunsKeepTheirLifecycle` | `StreamSpec` implements `RunPipeline`'s `Spec`, and so `LifecycleSpec` |
| `ScrapeWriteProofs` | `ScrapeTypeCorrect`, `NothingBehindTheWatermark`, `EveryCallReportsItsRows`, `AFailureStoresNothing` | `ScrapeTypeOK`, `WatermarkCoversFeed`, `CallReportsItsRows`, `FailureStoresNothing` |
| | `WithPartitionsNothingIsLost` | with every month covered, only a limit hides posts behind the watermark |
| `DiscoveryProofs` | `ContentTypesHold`, `ChainsEndAtAModel`, `TheReportCountsItsRows` | `ContentTypeOK`, `RatingsAreRooted`, `BackfillCountsItsRows` |
| | `ThemesHold` | `ThemesAreRight` |
| | `FusionHolds`, with `BothBeatOne`, `OneListKeepsItsOrder` | `FusionIsFaithful`, and the scores behind it |
| `ChatGatewayProofs` | `ChatTypesHold`, `TheNewestIsRouted`, `NoMessageIsMissed` | `ChatTypeOK`, `NewestIsRouted`, `NothingMissed` |
| `AgentLoopProofs` | `AgentTypeCorrect`, `RequestsAreWellFormed`, `StreamIsAStory`, `EveryRunIsTold` | `AgentTypeOK`, `RequestIsWellFormed`, `StreamTellsTheStory`, `RunsAreTold` |
| `PreviewsProofs` | `PreviewTypesHold`, `NothingIsLeft`, `APreviewIsWhole` | `PreviewTypeOK`, `TornDown`, `UpIsWhole` |
| `ReleaseProofs` | `ReleaseTypeCorrect`, `OnceOnly`, `SchemaFirst` | `ReleaseTypeOK`, `TakesEffectOnce`, `CodeHasItsSchema` |

**Pipeline** (any sets of runs and finite sets of creators and posts, any owner function, any
bounds on retries and faults: the three `ASSUME`s of `RunPipeline`). That a run in `rating` is
owed a bump needs `rated_count` to be the number of announced tasks (`LedgerBalances`), each of
which belongs to a signal that was accounted for before its task existed (`Shape`); that in turn
needs a scrape to count before it enqueues, and the callback to come after all returns. `IInv` is
therefore `TypeOK`, the ledger, and for each run `Shape` (how far its tasks can be relative to
each other), `StatusFits` (what the counters say of the status) and `RollupFits`. The proof goes
by action. What one run's step changes belongs to that run, so a lemma per action covers the run
that moves (`IInvByRun` puts them together), `OthersKeep` the runs that do not, and
`BystandersGrow` the tables that only grow under them. Two cardinality lemmas turn "one more task"
into "one more in the counter".

`DoneTheorem` adds that who owes a `done` owes it for a run that has ended (`EndInv`; with `IInv`,
`FullInv`): as a rating that ends the run finds `rated_count` one short of `inserted`, nobody owes
one before. The refinement is a step simulation. `Moves` lists the ways a run's status and its
unhandled signals change together; `RunStepMoves` shows that each action moves its run in one of
these ways, `OthersStand` that the other runs stand still, `MovesAreSteps` that each way is an
action of `RunLifecycle` or a stutter.

**Uncaught** (the same assumptions). An exception that leaves `rate_signal` changes no row and no
task's place, only `crashed`, so `FullInv` and the lifecycle survive it: the rows stay consistent, and
convergence alone is lost. That it is lost for good is `ALostRatingStrandsItsRun`: a signal whose task
died between the model call and the announcement is accounted for and not announced
(`LostIsUnhandled`), so its run is not `completed`; and it stays so (`LostStep`), since no step of
another task, of the chord, of the sweep or of another run takes the task on. The one statement that
could queue the task again, the fan-out of its scrape task, has been passed (`Shape`). `UncaughtSpec`
includes the fairness, so no scheduling helps: where TLC shows one behaviour that violates
`RatingConverges`, the theorem says that every behaviour with such a loss does not complete the run.

**Stream** (the same assumptions; any watchers and connections). `StreamInv` is `FullInv`, the type
and `WatchInv` of each watcher. `NoGap` has to hold from the moment the row is *read*, before the
snapshot is sent, for a delta that is relayed in between is in neither; and a `done` may only have
been sent for a run that has ended, or a stream would close early. The pipeline's steps are split
into those that publish and those that work: work takes nothing from what is yet to be published
(`WorkKeeps`), the step that ends the run adds the `done` it owes (`EndingOwes`, from
`DoneMarksTheEnd`), and publishing moves one delta into every subscribed inbox (`PublishWatch`). Since a step with watchers is
a step of the pipeline without them (`StreamStepIsAStep`), the composition implements the pipeline.

**Scrape writes** (`ScrapeAssumption`: it includes that the API's own writer, `"api"`, is not the
name of a run; the code tells them apart by the call that inserts). `WatermarkCoversFeed` is not that nothing is
ever missing, for the code does lose posts: it says which ones. `Uncovered` and `LeftOut` are the
code's own terms (no partition; beyond `resultsLimit`, counted only for scrapes that moved the
watermark). `Lost` is the defect of `scrape_rollback`: rows that a post without a partition rolled
back, which the call goes on to report. Taking any of the three out breaks the property in
`scrape_write`, and `WithPartitionsNothingIsLost` takes the defect out by its cause. `WatermarkInv`
says, for each task, what its watermark will cover when it gets to move it (`MarkOf`): before the
request everything behind the one it has read, while it inserts also what it holds, has left to
insert, has left out or may have lost, and when it returns the last two become `LeftOut` and
`Lost`. What is settled stays so (`SettledStays`), since a call that has returned is final.
`AccountOf` sets a call's rows against what it will report, which includes that what its open
transaction holds is reported: that is why a rollback's loss is in `Lost`.

**Contents** (`ContentAssumption`; contents need not be finitely many). `TaskHolds` per message: one
that probes has embedded its content, one that copies holds a rated neighbour within `CacheMax`,
which stays so as rows are only added. A new rating keeps chains rooted because nobody can have
copied from a content before it was rated, so no circle closes (`RatingStays`). The backfill's
open rows are its alone (`OwnRows`): not in the table, inserted by nobody else while the unique
key is held, each counted once, and at most as many as rows since the last commit
(`NextInBatch`, about the remainder).

**Themes** (`ContentAssumption`, and `DiscoveryAssumption`: finitely many contents, at least one row
of each, a verdict on each, a flat list that shows at least one; any threshold, which two copies of a
content need not even be within). `ThemesAreRight` speaks of the tables only, so it has to follow
from their types alone, whichever tables these are. The clustering is what has an invariant: after n
rows of the outer loop, `Clustered` says that these rows are assigned, that an unassigned row is too
far from *every* seed so far, that each cluster is `Led` by one of the n rows with the later rows it
holds behind it, each content once, and that two clusters are `Apart`. The distance clause is what
carries a later cluster past the stronger seeds before it; without "of every seed" the property would
not survive the next round. `Gathered` is the same for the inner loop. What a loop of any length has
come to is a function of the number of rounds; that there is one, and that a fact which each round
keeps holds at its end, is derived from the well-foundedness of finite sets (`LoopTrace`,
`CountingUp`), since the induction theorems themselves are out of reach. Sorting is by counting:
with a strict total order, what comes before an element numbers the set from 0 (`PlacesInOrder`), so a
listing is all of the set in order and the only one (`ListingIsInOrder`, `OneListing`). The orders are
shown to be such: of rows (`StrongerOrders`, where the copy breaks the tie), and of clusters
(`MoreProminentOrders`, whose last tie-break is total only because two clusters' seeds differ).

**Fusion** (also `FusionAssumption`: at most k + 1 candidates; the code has 50 and k = 60). A score is
an integer, in fractions of `Unit`, a common multiple of all k + rank, so no rounding hides in it.
Times 2k + 2, the share of any rank is more than a whole unit and that of the first is two
(`BothBeatOne`, from `RankShares`): two shares therefore beat one, whatever the ranks. (The code adds
floats; what the scores are apart by, at least 1 / ((2k + 1)(k + 1)), is far above their rounding.) The
rest follows the list through the code: filtering keeps order and loses nothing else (`ThoseStayInOrder`),
the fused list is in the order of its scores (`FusedInOrder`), hydration and the limit keep it so
(`HitsInOrder`); and for one list alone the fusion is that list, as it is itself in the order that
has only one listing (`FusedAlone`). That a ranking has no content twice is an assumption on
Postgres' answers.

**Chat** (`ChatAssumption`). What is in an instance's channel names exactly those a message is for,
and what is in hand those who are left (`EnvelopesInv`); a message is stored before it is published
(`StoredFirst`), so a client that reads the history after its socket is open has what was published
before; a socket that is the newest and open is in the table (`SocketsInv`).

**Agent loop** (any histories, answers, tools and number of turns: `AgentAssumption`, and
`HistoryAssumption`, that a client sends whole exchanges). The inductive invariant says how far the
results are along what was asked (`MessagesInv`), and what the last event says of where the loop is
(`LastEventInv`); three lemmas say when a conversation, a story and what is told of the runs stay
right as a sequence grows.

**Previews** (any number of events and of faults). For each call an `up` stands at, `UpHas` says what
it has made sure of by then; `DownHas` what a `down` has removed. Neither depends on what earlier
runs left half done, which is what "finds what is there and adds the rest" means. `FateFits` ties
the fate of the last event to the run that is its, through the queue of the concurrency group;
`LoopHas` says how far a loop over the services has come. `DialsHome` says that agent and
environment go together unless a `down` has parted them. One lemma
per call keeps these (`Core`), and the properties are read off at `RunEnds`.

**Release** (`ReleaseAssumption`: later images keep the files and revisions of earlier ones; only
marked files are repeatable or not; one service at most runs `alembic upgrade`, as in `railway.ts`,
so that its read of the revision and its move are one step). What a
service serves says nothing about what its deploy is about to do, so the inductive invariant adds
`DeployOK` for each deploy: until its files are applied, whatever is neither recorded nor pending
is not its image's; from then on all are recorded; a file awaiting its record has taken effect.
Records, effects and the revision only grow, which is why another deploy's steps keep it
(`OthersAreKept`, `ServedIsKept`).

Only model-checked: liveness and everything under fairness (`EveryRunEnds`, `EveryWatcherIsTold`,
`EveryRecipientIsReached`, `EveryTurnEnds`, `BacklogDrains`, `RetriesConverge`), which is beyond the
prover.

## 6. Where the code and its documents part, without a run

* "Reprocessing the same item twice is a no-op" (`README.md:174-176`): `rated_count` and
  `done_count` are increments (`tasks.py:345`, `83`), so a task that is repeated counts twice. The
  worker acknowledges messages on receipt, so the broker does not repeat one by itself.
* `stream_run`'s docstring (`main.py:418-420`) lets ratings arrive after `scrape_done`; a fast
  one arrives before (`RunStream` reaches it).
* `clusters.py`'s `embedded` counts rows joined to signals, not contents, and may exceed
  `rated_in_window`.
* `embedding.py:6` calls switching `EMBEDDING_MODEL` "never a code change"; old vectors stay, and
  distances between two models' vectors mean nothing.
* "A deploy never ships code ahead of its schema" (`migrate.py:3`, `upgrade.py:3`): the worker
  and the chat agent deploy from the same push with no preDeploy. `CodeHasItsSchema` speaks of the
  services that have one; `Release` reaches the worker ahead of the schema.
* `preview-env.yml:7-8`: a pending `down` that a newer run takes the place of (even one with no
  job) never happens, and the environment stays until another `down`.
* `agentctl.py:254-257` calls the `/mcp` URL invariant; a `down` that fails between the environment
  and the agent, and an `up` after it, leave the agent with the URL of a domain that is gone. That
  is what `halfDown` in `UpIsWhole` excepts: only until a `down` succeeds.
* `main.py:562-683`: a digest's stream waits for deltas from a worker that runs no digests any
  more; a client that connects before the delivery is not told of it.

## 7. What the models leave out

* Names, captions, error texts, timestamps (but for `ScrapeWrite`'s clock), model choice.
* The watermark `PATCH`, by which an operator may set it to anything, and deletion of rows.
* `REFRESH MATERIALIZED VIEW CONCURRENTLY` is one step that counts the rows committed by then.
* Deltas Redis drops on a slow subscriber, and a Redis connection that is lost in mid-stream.
* Posts that are edited between two scrapes (another row in the code, the same post here), posts
  without a timestamp, and the granularity of Apify's own filter.
* The arithmetic on vectors and Postgres' own ranking: distances and orders are given.
* Chat acks, ids, bodies and paging; a conversation's participants do not change. In
  `ChatGateway`, sockets and requests do not choose their instance: `At` and `On` fix it.
* The text of an agent's messages, and what its tools read.
* What a migration does, beyond that it takes effect, and for a `transaction:false` file that it can
  be repeated or not; `migrate:down`. Two `upgrade.py`
  at once (a second deploy of the API while one is at its preDeploy, or a command line): in Alembic
  the later one's conditional move of the revision fails.
* The host and the vendor, but for what the calls rely on: names of environments are unique, a
  failed preDeploy keeps the old image, an agent's update needs its current version.
* `agentctl`'s production and local tiers (a memory store and a branch name apart, the same
  calls), `run` and `list`; `railway-env.py`, which copies variables to the host one by one.

Not modelled at all: **digest delivery** (a pending row, one `UPDATE`, and a stream that nobody
wakes: one write-once row with no second writer), the **MCP server** (stateless wrappers),
**session, environment and seed** helpers, and **CI** configuration.

## 8. Plan

* Models: the production tier of `agentctl` with two workflow groups, if it can share the state of
  `AgentControl`; the digest's watchers, as a second channel of `RunStream`.
