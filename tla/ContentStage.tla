---------------------------- MODULE ContentStage ----------------------------
(***************************************************************************)
(* What the worker stores about a piece of content besides its row: an     *)
(* embedding and a rating, each at most once per content_hash.             *)
(*                                                                         *)
(* rate_signal and embed_signal tasks, the two sweeps and the backfill run *)
(* side by side on signal_embeddings and signal_ratings.  A rating task    *)
(* first looks for a rated neighbour to copy from (the semantic cache), so *)
(* it may store the embedding too.  The backfill keeps its rows in one     *)
(* open transaction for up to CommitEvery rows, and whoever inserts one of *)
(* them meanwhile waits for it (the unique key).                           *)
(*                                                                         *)
(* A step is one statement with the calls to a provider before it.  What a *)
(* rating task tells its run is RunPipeline's AnnounceRating.              *)
(***************************************************************************)
EXTENDS Integers, FiniteSets, FiniteSetsExt

CONSTANTS
    Hashes,         \* the contents, numbered in the order of their content_hash
    Instagram,      \* those whose payload has source = 'instagram'
    Captioned,      \* those with a caption
    Stored,         \* what the database holds when an embedding model is first configured,
    RatedBefore,    \* and what of it is rated by then
    Dist,           \* the cosine distance of two captions
    CacheMax,       \* _CACHE_MAX_DISTANCE
    Refused,        \* the captions that the embedding provider never takes
    Slots,          \* 1 .. n for up to n messages that are queued or being handled
    Batch,          \* how many rows a sweep takes
    CommitEvery,    \* how many rows the backfill handles between two commits
    MaxRetries,     \* max_retries of the two tasks
    MaxFaults       \* bound on the other failures of the providers and the database

ASSUME ContentAssumption ==
    /\ Hashes \cup Slots \subseteq Nat \ {0}
    /\ Instagram \cup Captioned \cup Stored \cup Refused \subseteq Hashes
    /\ RatedBefore \subseteq Stored
    /\ Dist \in [Hashes \X Hashes -> Nat]
    /\ \A g, h \in Hashes : Dist[g, h] = Dist[h, g]
    /\ {CacheMax, MaxRetries, MaxFaults} \subseteq Nat
    /\ {Batch, CommitEvery} \subseteq Nat \ {0}

VARIABLES
    signals,            \* contents with a row in raw_signals
    signal_embeddings,  \* contents with a committed embedding
    signal_ratings,     \* whom a rating was copied from: itself if a model gave it, 0 if none
    task,               \* what each message has come to
    backfill,           \* the backfill and its open transaction
    faults

tables == <<signals, signal_embeddings, signal_ratings>>
contentVars == <<tables, task, backfill, faults>>

NoRating == 0
Rated == {h \in Hashes : signal_ratings[h] # NoRating}

Kinds == {"rate", "embed"}
Free == [kind |-> "rate", hash |-> 0, retries |-> 0, at |-> "free", from |-> 0]
Message(kind, h) == [Free EXCEPT !.kind = kind, !.hash = h, !.at = "queued"]
NoBackfill == [at |-> "idle", todo |-> {}, seen |-> 0, pending |-> {}, written |-> 0, kept |-> {}]

ContentTypeOK ==
    /\ signals \subseteq Hashes
    /\ signal_embeddings \subseteq signals
    /\ signal_ratings \in [Hashes -> Hashes \cup {NoRating}] /\ Rated \subseteq signals
    /\ \A s \in Slots : task[s] = Free \/
        /\ task[s].kind \in {"rate", "embed"} /\ task[s].hash \in signals
        /\ task[s].retries \in 0 .. MaxRetries
        /\ task[s].at \in {"queued", "embedding"} \cup
               (IF task[s].kind = "rate" THEN {"lookup", "probing", "copying", "model"} ELSE {})
        /\ (task[s].at = "copying") = (task[s].from \in Hashes)
    /\ backfill.at \in {"idle", "running", "done"}
    /\ backfill.todo \cup backfill.pending \cup backfill.kept \subseteq signals
    /\ backfill.seen \in Nat /\ backfill.written \in Nat
    /\ faults \in 0 .. MaxFaults

ContentInit ==
    /\ signals = Stored
    /\ signal_embeddings = {}
    /\ signal_ratings = [h \in Hashes |-> IF h \in RatedBefore THEN h ELSE NoRating]
    /\ task = [s \in Slots |-> Free]
    /\ backfill = NoBackfill
    /\ faults = 0

-----------------------------------------------------------------------------
(* Helpers *)

FreeSlots == {s \in Slots : task[s] = Free}

\* A message goes to the first free slot (the slots are alike).
Enqueue(kind, h) ==
    FreeSlots # {} /\ task' = [task EXCEPT ![Min(FreeSlots)] = Message(kind, h)]

\* The first n of a set in the order of content_hash.
FirstOf(S, n) == {h \in S : Cardinality({g \in S : g < h}) < n}

Fail == faults < MaxFaults /\ faults' = faults + 1

\* An embedding provider that answers with an error.
EmbeddingError(h) == IF h \in Refused THEN UNCHANGED faults ELSE Fail

Finish(s) == task' = [task EXCEPT ![s] = Free]
Goto(s, stage) == task' = [task EXCEPT ![s].at = stage]
Retry(s) == task' = [task EXCEPT ![s].at = "queued", ![s].retries = @ + 1]

\* ON CONFLICT DO NOTHING, once no open transaction holds the key.
InsertEmbedding(h) ==
    /\ h \notin backfill.pending
    /\ signal_embeddings' = signal_embeddings \cup {h}

\* Mutated InsertRating: DO UPDATE.
OverwriteRating(h, from) == signal_ratings' = [signal_ratings EXCEPT ![h] = from]

InsertRating(h, from) ==
    signal_ratings' = [signal_ratings EXCEPT ![h] = IF @ = NoRating THEN from ELSE @]

\* Near enough to take a rating from.
Near(h, d) == Dist[h, d] <= CacheMax

\* The contents to copy from: the nearest of those that are rated and embedded.
Donors(h) ==
    LET Others == (signal_embeddings \cap Rated) \ {h} IN
    {d \in Others : \A o \in Others : Dist[h, d] <= Dist[h, o]}

-----------------------------------------------------------------------------
(* Messages come from a scrape, which enqueues both tasks for the rows it has inserted, and   *)
(* from the sweeps; the API stores a signal and enqueues nothing.                             *)

ScrapeStores(h) ==
    /\ h \notin signals
    /\ signals' = signals \cup {h}
    /\ Cardinality(FreeSlots) >= 2
    /\ task' = [task EXCEPT ![Min(FreeSlots)] = Message("rate", h),
                            ![Min(FreeSlots \ {Min(FreeSlots)})] = Message("embed", h)]
    /\ UNCHANGED <<signal_embeddings, signal_ratings, backfill, faults>>

ApiStores(h) ==
    /\ h \notin signals
    /\ signals' = signals \cup {h}
    /\ UNCHANGED <<signal_embeddings, signal_ratings, task, backfill, faults>>

\* Mutated Due: without the NOT EXISTS.
DueAll(kind) == signals \cap Instagram

Due(kind) == (signals \cap Instagram) \ (IF kind = "rate" THEN Rated ELSE signal_embeddings)

\* sweep_unrated and sweep_unembedded: the rows of a batch are enqueued one by one.
Sweep(kind, h) ==
    /\ h \in FirstOf(Due(kind), Batch)
    /\ Enqueue(kind, h)
    /\ UNCHANGED <<tables, backfill, faults>>

-----------------------------------------------------------------------------
(* embed_signal *)

EmbedChecks(s) ==
    /\ task[s].kind = "embed" /\ task[s].at = "queued"
    /\ IF task[s].hash \in signal_embeddings THEN Finish(s) ELSE Goto(s, "embedding")
    /\ UNCHANGED <<tables, backfill, faults>>

EmbedStores(s) ==
    /\ task[s].kind = "embed" /\ task[s].at = "embedding"
    /\ task[s].hash \notin Refused
    /\ InsertEmbedding(task[s].hash)
    /\ Finish(s)
    /\ UNCHANGED <<signals, signal_ratings, backfill, faults>>

\* Mutated EmbedFails: one retry too many.
EmbedRetries(s) ==
    /\ task[s].kind = "embed" /\ task[s].at = "embedding"
    /\ EmbeddingError(task[s].hash)
    /\ IF task[s].retries <= MaxRetries THEN Retry(s) ELSE Finish(s)
    /\ UNCHANGED <<tables, backfill>>

EmbedFails(s) ==
    /\ task[s].kind = "embed" /\ task[s].at = "embedding"
    /\ EmbeddingError(task[s].hash)
    /\ IF task[s].retries < MaxRetries THEN Retry(s) ELSE Finish(s)
    /\ UNCHANGED <<tables, backfill>>

-----------------------------------------------------------------------------
(* rate_signal and its cache lookup *)

RateChecks(s) ==
    /\ task[s].kind = "rate" /\ task[s].at = "queued"
    /\ IF task[s].hash \in Rated THEN Finish(s) ELSE Goto(s, "lookup")
    /\ UNCHANGED <<tables, backfill, faults>>

LookupChecks(s) ==
    /\ task[s].at = "lookup"
    /\ Goto(s, IF task[s].hash \in signal_embeddings THEN "probing" ELSE "embedding")
    /\ UNCHANGED <<tables, backfill, faults>>

\* The lookup stores the embedding it needs, so that search finds the signal too.
LookupStores(s) ==
    /\ task[s].kind = "rate" /\ task[s].at = "embedding"
    /\ task[s].hash \notin Refused
    /\ InsertEmbedding(task[s].hash)
    /\ Goto(s, "probing")
    /\ UNCHANGED <<signals, signal_ratings, backfill, faults>>

LookupFails(s) ==
    /\ task[s].kind = "rate" /\ task[s].at = "embedding"
    /\ EmbeddingError(task[s].hash)
    /\ Goto(s, "model")
    /\ UNCHANGED <<tables, backfill>>

\* The nearest rated neighbour, if it is near enough.
LookupProbes(s) ==
    /\ task[s].at = "probing"
    /\ \/ \E d \in Donors(task[s].hash) :
            /\ Near(task[s].hash, d)
            /\ task' = [task EXCEPT ![s].at = "copying", ![s].from = d]
       \/ /\ \A d \in Donors(task[s].hash) : ~Near(task[s].hash, d)
          /\ Goto(s, "model")
    /\ UNCHANGED <<tables, backfill, faults>>

CopyStores(s) ==
    /\ task[s].at = "copying"
    /\ InsertRating(task[s].hash, task[s].from)
    /\ Finish(s)
    /\ UNCHANGED <<signals, signal_embeddings, backfill, faults>>

ModelStores(s) ==
    /\ task[s].at = "model"
    /\ InsertRating(task[s].hash, task[s].hash)
    /\ Finish(s)
    /\ UNCHANGED <<signals, signal_embeddings, backfill, faults>>

ModelFails(s) ==
    /\ task[s].at = "model"
    /\ Fail
    /\ IF task[s].retries < MaxRetries THEN Retry(s) ELSE Finish(s)
    /\ UNCHANGED <<tables, backfill>>

-----------------------------------------------------------------------------
(* The backfill: one process, one transaction at a time. *)

\* What it may be told to do: with or without --source instagram and a --limit.
Selections ==
    UNION {LET rows == ((signals \cap Captioned) \ signal_embeddings) \cap source IN
           {rows} \cup {FirstOf(rows, limit) : limit \in 1 .. Cardinality(rows)}
             : source \in {Hashes, Instagram}}

BackfillSelects ==
    /\ backfill.at = "idle"
    /\ \E rows \in Selections :
           backfill' = [NoBackfill EXCEPT !.at = "running", !.todo = rows]
    /\ UNCHANGED <<tables, task, faults>>

\* Mutated RowCount: every call counts.
OnePerCall(h) == 1

\* What insert_embedding tells the backfill, whose own rows are distinct.
RowCount(h) == IF h \in signal_embeddings THEN 0 ELSE 1

\* The next row: embedded, inserted unless it is there, committed with the rows before it
\* when it is a CommitEvery-th.
BackfillStores ==
    LET h == Min(backfill.todo)
        pending == backfill.pending \cup ({h} \ signal_embeddings)
        commits == (backfill.seen + 1) % CommitEvery = 0
    IN  /\ backfill.at = "running" /\ backfill.todo # {}
        /\ h \notin Refused
        /\ backfill' = [backfill EXCEPT
                !.todo = @ \ {h},
                !.seen = @ + 1,
                !.written = @ + RowCount(h),
                !.pending = IF commits THEN {} ELSE pending,
                !.kept = IF commits THEN @ \cup pending ELSE @]
        /\ signal_embeddings' = IF commits THEN signal_embeddings \cup pending ELSE signal_embeddings
        /\ UNCHANGED <<signals, signal_ratings, task, faults>>

BackfillCommits ==
    /\ signal_embeddings' = signal_embeddings \cup backfill.pending
    /\ backfill' = [backfill EXCEPT !.at = "done", !.todo = {}, !.seen = 0, !.pending = {},
                                    !.kept = @ \cup backfill.pending]

\* The rows are through.
BackfillEnds ==
    /\ backfill.at = "running" /\ backfill.todo = {}
    /\ BackfillCommits
    /\ UNCHANGED <<signals, signal_ratings, task, faults>>

\* The first EmbeddingError stops it; what it has inserted stays.
BackfillAborts ==
    /\ backfill.at = "running" /\ backfill.todo # {}
    /\ EmbeddingError(Min(backfill.todo))
    /\ BackfillCommits
    /\ UNCHANGED <<signals, signal_ratings, task>>

\* Any other exception (or its process ends): the open transaction is rolled back.
BackfillRaises ==
    /\ backfill.at = "running"
    /\ Fail
    /\ backfill' = NoBackfill
    /\ UNCHANGED <<tables, task>>

-----------------------------------------------------------------------------
(* The specification *)

TaskStep(s) ==
    \/ EmbedChecks(s) \/ EmbedStores(s) \/ EmbedFails(s)
    \/ RateChecks(s) \/ LookupChecks(s) \/ LookupStores(s) \/ LookupFails(s) \/ LookupProbes(s)
    \/ CopyStores(s) \/ ModelStores(s) \/ ModelFails(s)

BackfillStep == BackfillStores \/ BackfillEnds \/ BackfillAborts \/ BackfillRaises

ContentNext ==
    \/ \E h \in Hashes : ScrapeStores(h) \/ ApiStores(h)
    \/ \E kind \in Kinds, h \in Instagram : Sweep(kind, h)
    \/ \E s \in Slots : TaskStep(s)
    \/ BackfillSelects \/ BackfillStep

\* Celery delivers, the backfill's process runs on, and the beat keeps sweeping, not only what the
\* provider refuses.
ContentSpec ==
    /\ ContentInit /\ [][ContentNext]_contentVars
    /\ \A s \in Slots : WF_contentVars(TaskStep(s))
    /\ WF_contentVars(BackfillStep)
    /\ SF_contentVars(\E kind \in Kinds, h \in Instagram \ Refused : Sweep(kind, h))

-----------------------------------------------------------------------------
(* Properties *)

\* A rating that no model gave this content comes from one whose caption is within CacheMax, both
\* embedded, the source rated: never from a neighbour that merely is the nearest.  Chains of
\* copies may still drift apart, step by step.
CopiesAreNear ==
    \A h \in Rated : signal_ratings[h] # h =>
        /\ signal_ratings[h] \in Rated
        /\ {h, signal_ratings[h]} \subseteq signal_embeddings
        /\ Near(h, signal_ratings[h])

\* And the chains of copies end at a rating of a model's own, whatever tasks of one content race: no
\* contents are rated by each other's copies alone.
RatingsAreRooted ==
    /\ CopiesAreNear
    /\ \A S \in SUBSET Rated :
          S # {} /\ (\A h \in S : signal_ratings[h] \in S) => \E h \in S : signal_ratings[h] = h

\* The backfill's report counts the rows it has brought into the table, though rating and embed
\* tasks insert the same ones before or behind it and any of them may fail.
BackfillCountsItsRows ==
    /\ backfill.at = "done" => backfill.written = Cardinality(backfill.kept)
    /\ Cardinality(backfill.pending) < CommitEvery

\* The sweeps bring every real content to a rating and an embedding, if the providers take it: one
\* whose tasks gave up, one stored by the API, the backlog of the day a model is configured.  Fewer
\* refused captions than rows in a batch is what it takes: a full batch of them starves the rest.
BacklogDrains ==
    \A h \in Instagram \ Refused : (h \in signals) ~> (h \in signal_embeddings /\ h \in Rated)
=============================================================================
