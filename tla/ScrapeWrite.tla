---------------------------- MODULE ScrapeWrite ----------------------------
(***************************************************************************)
(* What the scrape inside scrape_influencer writes, statement by statement *)
(* and for one creator: the transaction of a live scrape, the commits of a *)
(* demo one, and the watermark that makes live scrapes incremental.        *)
(*                                                                         *)
(* The tasks of several runs may scrape the creator at once, each off the  *)
(* watermark its own dispatch read, and the API may store the same posts.  *)
(* raw_signals has a unique key, so an insert waits for an uncommitted row *)
(* with the same key and then inserts or finds the conflict.  A post whose *)
(* month has no partition raises CheckViolation.                           *)
(*                                                                         *)
(* A post is its source and its place in it: for the creator's own posts,  *)
(* the instant at which they were posted.                                  *)
(***************************************************************************)
EXTENDS Integers, FiniteSets

CONSTANTS
    Runs,           \* the runs that scrape the creator, one task each
    MaxTime,        \* the last instant at which something is posted
    Limit,          \* how many posts a run asks for
    Uncovered       \* the posts whose month has no partition

Real == {"instagram"} \X (1 .. MaxTime)
Synthetic == Runs \X (1 .. Limit)
Posts == Real \cup Synthetic

ASSUME ScrapeAssumption ==
    /\ MaxTime \in Nat \ {0}
    /\ Limit \in Nat \ {0}
    /\ Uncovered \subseteq Posts
    /\ "api" \notin Runs

VARIABLES
    now,            \* the clock
    feed,           \* what the creator has posted
    watermark,      \* influencers.last_scraped_at, 0 for NULL
    raw_signals,    \* the committed rows: the post and who inserted it
    pc,             \* where each run's task has come to
    mode,           \* live or demo
    run_ts,         \* when its run was dispatched
    last_scraped_at,\* the watermark that dispatch read
    posts,          \* what the scraper returned (or made up)
    todo,           \* those of them the loop has not come to
    pending,        \* the rows its open transaction has inserted
    new_items,      \* what it has collected for its caller
    omitted         \* what each request left out (history: nothing reads it)

scrapeVars == <<now, feed, watermark, raw_signals, pc, mode, run_ts, last_scraped_at,
                posts, todo, pending, new_items, omitted>>

world == <<now, feed>>
request == <<mode, run_ts, last_scraped_at>>

Stages == {"idle", "dispatched", "inserting", "committed", "returned", "failed", "failed_late"}
Rows == [post: Posts, by: Runs \cup {"api"}]

ScrapeTypeOK ==
    /\ now \in 1 .. MaxTime
    /\ feed \subseteq {"instagram"} \X (1 .. now)
    /\ watermark \in 0 .. now
    /\ raw_signals \subseteq Rows
    /\ pc \in [Runs -> Stages]
    /\ mode \in [Runs -> {"live", "demo"}]
    /\ run_ts \in [Runs -> 0 .. now]
    /\ last_scraped_at \in [Runs -> 0 .. now]
    /\ posts \in [Runs -> SUBSET Posts]
    /\ \A r \in Runs : Cardinality(posts[r]) <= Limit /\ todo[r] \subseteq posts[r]
    /\ pending \in [Runs -> SUBSET Posts]
    /\ new_items \in [Runs -> SUBSET Posts]
    /\ omitted \in [Runs -> SUBSET Real]
    /\ \A r \in Runs : pending[r] # {} => pc[r] = "inserting" /\ mode[r] = "live"

ScrapeInit ==
    /\ now = 1
    /\ feed \in SUBSET {<<"instagram", 1>>}
    /\ watermark = 0
    /\ raw_signals = {}
    /\ pc = [r \in Runs |-> "idle"]
    /\ mode \in [Runs -> {"live", "demo"}]
    /\ run_ts = [r \in Runs |-> 0]
    /\ last_scraped_at = [r \in Runs |-> 0]
    /\ posts = [r \in Runs |-> {}]
    /\ todo = [r \in Runs |-> {}]
    /\ pending = [r \in Runs |-> {}]
    /\ new_items = [r \in Runs |-> {}]
    /\ omitted = [r \in Runs |-> {}]

-----------------------------------------------------------------------------
(* Helpers *)

Stored == {row.post : row \in raw_signals}
RowsOf(r) == {row.post : row \in {s \in raw_signals : s.by = r}}

\* The posts that some other open transaction has inserted: their key is locked.
Locked(r) == UNION {pending[q] : q \in Runs \ {r}}

\* What the creator has posted since then.
Since(wm) == {p \in feed : p[2] > wm}

\* n of a set of posts, or all of them when there are no more.
UpTo(n, S) == {T \in SUBSET S : Cardinality(T) <= n /\ (T = S \/ Cardinality(T) = n)}

\* Mutated Asked: onlyPostsNewerThan without resultsLimit.
AskedAll(wm) == IF wm = 0 THEN UpTo(1, feed) ELSE {Since(wm)}

\* What resultsLimit and onlyPostsNewerThan may bring back: one post when there is no
\* watermark.  The scraper reads the grid, where a pinned post comes before newer ones, so
\* that which posts a limit leaves out is open.
Asked(wm) == IF wm = 0 THEN UpTo(1, feed) ELSE UpTo(Limit, Since(wm))

-----------------------------------------------------------------------------
(* The world: time passes, the creator posts, somebody posts to /signals. *)

Tick ==
    /\ now < MaxTime
    /\ now' = now + 1
    /\ feed' \in {feed, feed \cup {<<"instagram", now + 1>>}}
    /\ UNCHANGED <<watermark, raw_signals, pc, request, posts, todo, pending, new_items, omitted>>

\* The API's insert_signal of a post; it waits for the key's lock, and answers 400 for a
\* month without a partition.
CreateSignal(p) ==
    /\ p \in feed \ (Stored \cup Uncovered)
    /\ \A r \in Runs : p \notin pending[r]
    /\ raw_signals' = raw_signals \cup {[post |-> p, by |-> "api"]}
    /\ UNCHANGED <<world, watermark, pc, request, posts, todo, pending, new_items, omitted>>

-----------------------------------------------------------------------------
(* One task *)

\* dispatch_run takes the time and then reads the watermark; both ride in the message.
Dispatch(r) ==
    /\ pc[r] = "idle"
    /\ pc' = [pc EXCEPT ![r] = "dispatched"]
    /\ run_ts' = [run_ts EXCEPT ![r] = now]
    /\ last_scraped_at' = [last_scraped_at EXCEPT ![r] = watermark]
    /\ UNCHANGED <<world, watermark, raw_signals, mode, posts, todo, pending, new_items, omitted>>

\* A live scrape asks Apify.
Fetch(r) ==
    /\ pc[r] = "dispatched"
    /\ mode[r] = "live"
    /\ \E found \in Asked(last_scraped_at[r]) :
          /\ posts' = [posts EXCEPT ![r] = found]
          /\ todo' = [todo EXCEPT ![r] = found]
          /\ omitted' = [omitted EXCEPT ![r] = Since(last_scraped_at[r]) \ found]
    /\ pc' = [pc EXCEPT ![r] = "inserting"]
    /\ UNCHANGED <<world, watermark, raw_signals, request, pending, new_items>>

\* A demo scrape makes its posts up.
MakeUp(r) ==
    /\ pc[r] = "dispatched"
    /\ mode[r] = "demo"
    /\ posts' = [posts EXCEPT ![r] = {r} \X (1 .. Limit)]
    /\ todo' = [todo EXCEPT ![r] = {r} \X (1 .. Limit)]
    /\ pc' = [pc EXCEPT ![r] = "inserting"]
    /\ UNCHANGED <<world, watermark, raw_signals, request, pending, new_items, omitted>>

\* Mutated Inserted: the conflict is not told from the insert.
InsertedOrConflict(r, p) == TRUE

\* cur.rowcount == 1: ON CONFLICT DO NOTHING let the row through.
Inserted(r, p) == p \notin Stored

\* insert_signal in the live loop: the row waits in the transaction for its commit.
InsertLive(r, p) ==
    /\ pc[r] = "inserting"
    /\ mode[r] = "live"
    /\ p \in todo[r] \ (Uncovered \cup Locked(r))
    /\ todo' = [todo EXCEPT ![r] = @ \ {p}]
    /\ pending' = [pending EXCEPT ![r] = IF p \in Stored THEN @ ELSE @ \cup {p}]
    /\ new_items' = [new_items EXCEPT ![r] = IF Inserted(r, p) THEN @ \cup {p} ELSE @]
    /\ UNCHANGED <<world, watermark, raw_signals, pc, request, posts, omitted>>

\* CheckViolation in the live loop: the rollback takes the whole transaction with it, the
\* loop goes on, and new_items stays as it is.
SkipLive(r, p) ==
    /\ pc[r] = "inserting"
    /\ mode[r] = "live"
    /\ p \in todo[r] \cap Uncovered
    /\ todo' = [todo EXCEPT ![r] = @ \ {p}]
    /\ pending' = [pending EXCEPT ![r] = {}]
    /\ UNCHANGED <<world, watermark, raw_signals, pc, request, posts, new_items, omitted>>

\* The end of the live loop: commit.
CommitLive(r) ==
    /\ pc[r] = "inserting"
    /\ mode[r] = "live"
    /\ todo[r] = {}
    /\ raw_signals' = raw_signals \cup {[post |-> p, by |-> r] : p \in pending[r]}
    /\ pending' = [pending EXCEPT ![r] = {}]
    /\ pc' = [pc EXCEPT ![r] = "committed"]
    /\ UNCHANGED <<world, watermark, request, posts, todo, new_items, omitted>>

\* Mutated AdvanceWatermark: to the end of the scrape instead of the start of the run.
AdvanceWatermarkToNow(r) ==
    /\ pc[r] = "committed"
    /\ watermark' = now
    /\ pc' = [pc EXCEPT ![r] = "returned"]
    /\ UNCHANGED <<world, raw_signals, request, posts, todo, pending, new_items, omitted>>

\* The watermark moves to the start of the run, and the scrape returns.
AdvanceWatermark(r) ==
    /\ pc[r] = "committed"
    /\ watermark' = run_ts[r]
    /\ pc' = [pc EXCEPT ![r] = "returned"]
    /\ UNCHANGED <<world, raw_signals, request, posts, todo, pending, new_items, omitted>>

\* The demo loop commits each row, in order.
InsertDemo(r) ==
    /\ pc[r] = "inserting"
    /\ mode[r] = "demo"
    /\ \E n \in 1 .. Limit :
          /\ <<r, n>> \in todo[r] \ Uncovered
          /\ \A k \in 1 .. n - 1 : <<r, k>> \notin todo[r]
          /\ todo' = [todo EXCEPT ![r] = @ \ {<<r, n>>}]
          /\ raw_signals' = raw_signals \cup {[post |-> <<r, n>>, by |-> r]}
          /\ new_items' = [new_items EXCEPT ![r] = @ \cup {<<r, n>>}]
    /\ UNCHANGED <<world, watermark, pc, request, posts, pending, omitted>>

\* ... and ends after the last one, or at the first without a partition.
ReturnDemo(r) ==
    /\ pc[r] = "inserting"
    /\ mode[r] = "demo"
    /\ \/ todo[r] = {}
       \/ \E n \in 1 .. Limit :
             /\ <<r, n>> \in todo[r] \cap Uncovered
             /\ \A k \in 1 .. n - 1 : <<r, k>> \notin todo[r]
    /\ pc' = [pc EXCEPT ![r] = "returned"]
    /\ UNCHANGED <<world, watermark, raw_signals, request, posts, todo, pending, new_items,
                   omitted>>

\* Mutated ScrapeFails: without the rollback, the commit of the accounting UPDATE that
\* follows stores what the transaction had inserted.
ScrapeFailsWithoutRollback(r) ==
    /\ pc[r] \in {"dispatched", "inserting", "committed"}
    /\ pc' = [pc EXCEPT ![r] = IF @ = "committed" THEN "failed_late" ELSE "failed"]
    /\ raw_signals' = raw_signals \cup {[post |-> p, by |-> r] : p \in pending[r]}
    /\ pending' = [pending EXCEPT ![r] = {}]
    /\ new_items' = [new_items EXCEPT ![r] = {}]
    /\ UNCHANGED <<world, watermark, request, posts, todo, omitted>>

\* The scrape raises (Apify, the connection, a deadlock that Postgres breaks): the caller
\* rolls back and reports nothing new.
ScrapeFails(r) ==
    /\ pc[r] \in {"dispatched", "inserting", "committed"}
    /\ pc' = [pc EXCEPT ![r] = IF @ = "committed" THEN "failed_late" ELSE "failed"]
    /\ pending' = [pending EXCEPT ![r] = {}]
    /\ new_items' = [new_items EXCEPT ![r] = {}]
    /\ UNCHANGED <<world, watermark, raw_signals, request, posts, todo, omitted>>

-----------------------------------------------------------------------------

ScrapeNext ==
    \/ Tick
    \/ \E p \in Real : CreateSignal(p)
    \/ \E r \in Runs :
          \/ Dispatch(r) \/ Fetch(r) \/ MakeUp(r)
          \/ \E p \in Real : InsertLive(r, p) \/ SkipLive(r, p)
          \/ CommitLive(r) \/ AdvanceWatermark(r)
          \/ InsertDemo(r) \/ ReturnDemo(r) \/ ScrapeFails(r)

ScrapeSpec == ScrapeInit /\ [][ScrapeNext]_scrapeVars

-----------------------------------------------------------------------------
(* Properties *)

\* What was left out by the requests (by resultsLimit) of the scrapes that have moved the
\* watermark.
LeftOut == UNION {omitted[r] : r \in {q \in Runs : pc[q] = "returned"}}

\* What those of them lost that met a post without a partition: its rollback takes rows
\* inserted before it, which the scrape goes on to report (see ReportedAreStored).
Lost == UNION {new_items[r] : r \in {q \in Runs : /\ pc[q] = "returned"
                                                  /\ mode[q] = "live"
                                                  /\ posts[q] \cap Uncovered # {}}}

\* Which posts may be missing behind the watermark, where no scrape asks again: those whose
\* month has no partition, those beyond the limit of a scrape that moved the watermark
\* there, and those that such a scrape reports although its own rollback took them, a loss
\* that the code does not mean to have.  No other is: not one posted while a scrape was
\* under way (that is why the watermark moves to the START of the run), not one that
\* another run was inserting at the time, nor one of a scrape that raised.
WatermarkCoversFeed ==
    \A p \in feed : p[2] <= watermark => p \in Stored \cup Uncovered \cup LeftOut \cup Lost

\* A scrape that returns has reported every row it committed, and, if it met no post
\* without a partition, nothing else: the rating stage hears of each new row once.
CallReportsItsRows ==
    \A r \in Runs :
       pc[r] = "returned" =>
          /\ RowsOf(r) \subseteq new_items[r]
          /\ posts[r] \cap Uncovered = {} => new_items[r] \subseteq RowsOf(r)

\* A live scrape that raised before its commit has stored nothing, so that reporting
\* nothing is the truth.
FailureStoresNothing ==
    \A r \in Runs : pc[r] = "failed" /\ mode[r] = "live" => RowsOf(r) = {}

\* scrape.py's docstring: new_items is one "per signal this call actually inserted".
ReportedAreStored ==
    \A r \in Runs : pc[r] = "returned" => new_items[r] \subseteq Stored
=============================================================================
