-------------------------- MODULE DiscoveryProofs --------------------------
(***************************************************************************)
(* Proofs about ContentStage, for any contents, any distances and any      *)
(* number of messages that are handled at once; and about Discovery: its   *)
(* orders, the clustering with its themes, and the fusion of two lists of  *)
(* candidates.  What Discovery reports is read off the tables, and is      *)
(* shown of all tables of the right type.                                  *)
(***************************************************************************)
EXTENDS Discovery, FiniteSetTheorems, WellFoundedInduction, TLAPS

-----------------------------------------------------------------------------
(* The inductive invariant *)

Tasks == [kind: {"rate", "embed"}, hash: Nat, retries: Nat,
          at: {"free", "queued", "lookup", "embedding", "probing", "copying", "model"}, from: Nat]

\* A message that is handled is of a stored content and within its retries.
Sound(t, stored) ==
    t = Free \/
        /\ t.kind \in {"rate", "embed"} /\ t.hash \in stored
        /\ t.retries \in 0 .. MaxRetries
        /\ t.at \in {"queued", "embedding"} \cup
               (IF t.kind = "rate" THEN {"lookup", "probing", "copying", "model"} ELSE {})
        /\ (t.at = "copying") = (t.from \in Hashes)

\* A rating task that has looked its content up has embedded it, and holds a rating to copy
\* that is there to stay.
Holds(t, embedded, rated) ==
    /\ t.at \in {"probing", "copying"} => t.hash \in embedded
    /\ t.at = "copying" =>
          /\ t.from \in embedded \cap rated
          /\ Near(t.hash, t.from)

TasksRight ==
    /\ task \in [Slots -> Tasks]
    /\ \A s \in Slots : Sound(task[s], signals) /\ Holds(task[s], signal_embeddings, Rated)

TablesRight ==
    /\ signals \subseteq Hashes
    /\ signal_embeddings \subseteq signals
    /\ signal_ratings \in [Hashes -> Hashes \cup {NoRating}] /\ Rated \subseteq signals
    /\ RatingsAreRooted

\* The rows of the open transaction are the backfill's alone: they are not in the table yet,
\* nobody else inserts them, and each is counted once.
OwnRows ==
    /\ IsFiniteSet(backfill.pending) /\ IsFiniteSet(backfill.kept)
    /\ backfill.kept \subseteq signal_embeddings
    /\ backfill.pending \cap (signal_embeddings \cup backfill.todo) = {}
    /\ backfill.at # "running" => backfill.pending = {}
    /\ backfill.written = Cardinality(backfill.kept) + Cardinality(backfill.pending)
    /\ Cardinality(backfill.pending) <= backfill.seen % CommitEvery

BackfillRight ==
    /\ backfill \in [at: {"idle", "running", "done"}, todo: SUBSET signals, seen: Nat,
                     pending: SUBSET signals, written: Nat, kept: SUBSET signals]
    /\ OwnRows

ContentInv ==
    /\ TasksRight /\ TablesRight /\ BackfillRight
    /\ faults \in 0 .. MaxFaults

-----------------------------------------------------------------------------
(* Helpers *)

\* Among some numbers one is the least.
LEMMA LeastOf ==
  ASSUME NEW S \in SUBSET Nat, S # {}
  PROVE  \E m \in S : \A n \in S : m <= n
<1> DEFINE UpTo(y) == S \cap (0 .. y)
           Starts == {UpTo(y) : y \in S}
           R == StrictSubsetOrdering(S)
<1>1. Starts \subseteq FiniteSubsetsOf(S) /\ Starts # {}
  <2>1. ASSUME NEW y \in S PROVE UpTo(y) \in FiniteSubsetsOf(S)
    <3>1. IsFiniteSet(0 .. y)
      BY FS_Interval
    <3>2. IsFiniteSet(UpTo(y))
      BY <3>1, FS_Subset
    <3>3. QED BY <3>2 DEF FiniteSubsetsOf
  <2>2. QED BY <2>1
<1>2. \E x \in Starts : \A T \in Starts : <<T, x>> \notin R
  <2>1. IsWellFoundedOn(R, FiniteSubsetsOf(S))
    BY FS_StrictSubsetOrderingWellFounded
  <2>2. QED BY ONLY <1>1, <2>1, WFMin
<1>3. PICK m \in S : \A y \in S : <<UpTo(y), UpTo(m)>> \notin R
  BY <1>2
<1>4. ASSUME NEW y \in S PROVE m <= y
  <2>1. SUFFICES ASSUME y < m PROVE FALSE
    OBVIOUS
  <2>2. UpTo(y) \subseteq UpTo(m) /\ m \in UpTo(m) /\ m \notin UpTo(y)
    BY <2>1
  <2>3. <<UpTo(y), UpTo(m)>> \in R
    BY <2>2 DEF StrictSubsetOrdering
  <2>4. QED BY <1>3, <2>3
<1>5. QED BY <1>4

\* The first of some contents is one of them.
LEMMA MinIsOne ==
  ASSUME NEW S \in SUBSET Nat, S # {}
  PROVE  Min(S) \in S
  BY LeastOf DEF Min

\* The row after the n-th is the first of the next k, or comes right behind it.
LEMMA NextInBatch ==
  ASSUME NEW n \in Nat, NEW k \in Nat \ {0}
  PROVE  n % k \in Nat /\ ((n + 1) % k = 0 \/ (n + 1) % k = (n % k) + 1)
<1> DEFINE q == n \div k
           r == n % k
           p == (n + 1) \div k
           s == (n + 1) % k
           d == p - q
<1>1. q \in Int /\ r \in 0 .. k - 1 /\ n = k * q + r
  OBVIOUS
<1>2. p \in Int /\ s \in 0 .. k - 1 /\ n + 1 = k * p + s
  OBVIOUS
<1>3. d \in Int /\ p = q + d
  BY <1>1, <1>2
<1>4. k * p = k * q + k * d
  BY <1>1, <1>3
<1> HIDE DEF q, r, p, s, d
<1>5. r + 1 = k * d + s
  BY <1>1, <1>2, <1>3, <1>4
<1>6. d = 0 \/ d = 1
  <2>1. d < 2
    <3>1. SUFFICES ASSUME d >= 2 PROVE FALSE
      BY <1>3
    <3>2. k * d >= k * 2
      BY <1>3, <3>1
    <3>3. QED BY <1>1, <1>2, <1>3, <1>5, <3>2
  <2>2. d > -1
    <3>1. SUFFICES ASSUME d <= -1 PROVE FALSE
      BY <1>3
    <3>2. k * d <= k * (-1)
      BY <1>3, <3>1
    <3>3. QED BY <1>1, <1>2, <1>3, <1>5, <3>2
  <2>3. QED BY <1>3, <2>1, <2>2
<1>7. s = 0 \/ s = r + 1
  BY <1>1, <1>2, <1>5, <1>6
<1>8. QED BY <1>1, <1>7 DEF r, s

-----------------------------------------------------------------------------
(* The tables *)

LEMMA ContentTypes ==
  ASSUME ContentInv
  PROVE  /\ signals \subseteq Hashes /\ signal_embeddings \subseteq signals
         /\ Hashes \subseteq Nat \ {0} /\ Slots \subseteq Nat
         /\ task \in [Slots -> Tasks] /\ faults \in 0 .. MaxFaults
         /\ MaxRetries \in Nat /\ MaxFaults \in Nat /\ CommitEvery \in Nat \ {0}
         /\ 0 \notin Hashes
<1>1. /\ Hashes \cup Slots \subseteq Nat \ {0} /\ {CacheMax, MaxRetries, MaxFaults} \subseteq Nat
      /\ CommitEvery \in Nat \ {0}
  BY ContentAssumption
<1>2. QED BY <1>1 DEF ContentInv, TasksRight, TablesRight

\* A step that leaves the ratings alone.
LEMMA TablesStay ==
  ASSUME TablesRight, signal_ratings' = signal_ratings,
         signals \subseteq signals', signals' \subseteq Hashes,
         signal_embeddings \subseteq signal_embeddings', signal_embeddings' \subseteq signals'
  PROVE  TablesRight' /\ Rated' = Rated
<1>1. Rated' = Rated
  BY DEF Rated
<1>2. CopiesAreNear'
  BY <1>1 DEF TablesRight, RatingsAreRooted, CopiesAreNear
<1>3. RatingsAreRooted'
  BY <1>1, <1>2 DEF TablesRight, RatingsAreRooted
<1>4. QED BY <1>1, <1>3 DEF TablesRight

\* The first rating of a content stays, and a new one points at a rated content or at itself:
\* nobody has pointed at the content before, so no circle is closed.
LEMMA RatingStays ==
  ASSUME ContentInv, NEW h \in signals, NEW from \in Hashes, InsertRating(h, from),
         \/ from = h
         \/ /\ from \in Rated \cap signal_embeddings /\ h \in signal_embeddings
            /\ Near(h, from),
         UNCHANGED <<signals, signal_embeddings>>
  PROVE  TablesRight' /\ Rated \subseteq Rated'
<1> USE DEF NoRating
<1>1. /\ signal_ratings \in [Hashes -> Hashes \cup {0}] /\ h \in Hashes /\ 0 \notin Hashes
      /\ Rated \subseteq signals /\ RatingsAreRooted /\ CopiesAreNear
      /\ signals \subseteq Hashes /\ signal_embeddings \subseteq signals
  BY ContentTypes DEF ContentInv, TablesRight, RatingsAreRooted
<1>2. CASE h \in Rated
  <2>1. signal_ratings' = signal_ratings
    BY <1>1, <1>2 DEF InsertRating, Rated
  <2>2. QED BY <1>1, <2>1, TablesStay DEF ContentInv
<1>3. CASE h \notin Rated
  <2>1. signal_ratings' = [signal_ratings EXCEPT ![h] = from]
    BY <1>1, <1>3 DEF InsertRating, Rated
  <2>2. Rated' = Rated \cup {h}
    BY <1>1, <2>1 DEF Rated
  <2>3. \A g \in Rated : g # h /\ signal_ratings'[g] = signal_ratings[g] /\ signal_ratings[g] \in Rated
    BY <1>1, <1>3, <2>1 DEF CopiesAreNear, Rated
  <2>4. CopiesAreNear'
    <3>1. SUFFICES ASSUME NEW g \in Rated \cup {h}, signal_ratings'[g] # g
                   PROVE  /\ signal_ratings'[g] \in Rated'
                          /\ {g, signal_ratings'[g]} \subseteq signal_embeddings
                          /\ Near(g, signal_ratings'[g])
      BY <2>2 DEF CopiesAreNear, Near
    <3>2. CASE g = h
      BY <1>1, <2>1, <2>2, <3>1, <3>2
    <3>3. CASE g # h
      BY <2>2, <2>3, <3>1, <3>3, <1>1 DEF CopiesAreNear
    <3>4. QED BY <3>2, <3>3
  <2>5. ASSUME NEW S \in SUBSET (Rated \cup {h}), S # {},
               \A g \in S : signal_ratings'[g] \in S
        PROVE  \E g \in S : signal_ratings'[g] = g
    <3>1. CASE h \in S /\ from = h
      BY <1>1, <2>1, <3>1
    <3>2. CASE h \notin S \/ from # h
      <4> DEFINE T == S \ {h}
      <4>1. T \in SUBSET Rated
        BY <2>5
      <4>2. T # {}
        <5>1. CASE h \notin S
          BY <2>5, <5>1
        <5>2. CASE h \in S /\ from # h
          <6>1. signal_ratings'[h] = from
            BY <1>1, <2>1
          <6>2. QED BY <2>5, <5>2, <6>1
        <5>3. QED BY <3>2, <5>1, <5>2
      <4>3. \A g \in T : signal_ratings[g] \in T
        BY <1>3, <2>3, <2>5
      <4>4. PICK g \in T : signal_ratings[g] = g
        BY <1>1, <4>1, <4>2, <4>3 DEF RatingsAreRooted
      <4>5. QED BY <2>3, <4>1, <4>4
    <3>3. QED BY <3>1, <3>2
  <2>6. RatingsAreRooted'
    BY <2>2, <2>4, <2>5 DEF RatingsAreRooted
  <2>7. signal_ratings' \in [Hashes -> Hashes \cup {0}]
    BY <1>1, <2>1
  <2>8. QED BY <1>1, <2>2, <2>6, <2>7 DEF TablesRight
<1>4. QED BY <1>2, <1>3

-----------------------------------------------------------------------------
(* The messages *)

\* The messages that a step leaves alone stay right, as rows are only added.
LEMMA TasksMove ==
  ASSUME TasksRight, task' \in [Slots -> Tasks],
         signals \subseteq signals', signal_embeddings \subseteq signal_embeddings',
         Rated \subseteq Rated',
         \A s \in Slots : task'[s] = task[s]
            \/ (Sound(task'[s], signals') /\ Holds(task'[s], signal_embeddings', Rated'))
  PROVE  TasksRight'
  BY DEF TasksRight, Sound, Holds

LEMMA OneTaskMoves ==
  ASSUME TasksRight, NEW s, NEW t \in Tasks, task' = [task EXCEPT ![s] = t],
         signals \subseteq signals', signal_embeddings \subseteq signal_embeddings',
         Rated \subseteq Rated',
         Sound(t, signals') /\ Holds(t, signal_embeddings', Rated')
  PROVE  TasksRight'
<1>1. task' \in [Slots -> Tasks] /\ \A x \in Slots : task'[x] = task[x] \/ task'[x] = t
  BY DEF TasksRight
<1>2. \A x \in Slots : task'[x] = task[x]
         \/ (Sound(task'[x], signals') /\ Holds(task'[x], signal_embeddings', Rated'))
  BY <1>1
<1>3. QED BY <1>1, <1>2, TasksMove

LEMMA TasksStay ==
  ASSUME TasksRight, task' = task,
         signals \subseteq signals', signal_embeddings \subseteq signal_embeddings',
         Rated \subseteq Rated'
  PROVE  TasksRight'
<1>1. task' \in [Slots -> Tasks] /\ \A s \in Slots : task'[s] = task[s]
  BY DEF TasksRight
<1>2. QED BY <1>1, TasksMove

LEMMA FreeIsRight ==
  ASSUME NEW stored, NEW embedded, NEW rated
  PROVE  Free \in Tasks /\ Sound(Free, stored) /\ Holds(Free, embedded, rated)
  BY DEF Free, Tasks, Sound, Holds

LEMMA MessageIsRight ==
  ASSUME NEW kind \in Kinds, NEW stored, NEW h \in stored, h \in Nat, NEW embedded, NEW rated,
         0 \notin Hashes, MaxRetries \in Nat
  PROVE  /\ Message(kind, h) \in Tasks
         /\ Sound(Message(kind, h), stored) /\ Holds(Message(kind, h), embedded, rated)
<1>1. /\ Message(kind, h) \in Tasks
      /\ Message(kind, h).kind = kind /\ Message(kind, h).hash = h
      /\ Message(kind, h).at = "queued"
      /\ Message(kind, h).retries = 0 /\ Message(kind, h).from = 0
  <2>1. Free \in Tasks /\ Free.retries = 0 /\ Free.from = 0
    BY DEF Free, Tasks
  <2>2. QED BY <2>1 DEF Message, Tasks, Kinds
<1>2. QED BY <1>1 DEF Kinds, Tasks, Sound, Holds

\* Rows are only added.
Grow ==
    /\ signals \subseteq signals' /\ signal_embeddings \subseteq signal_embeddings'
    /\ Rated \subseteq Rated'

LEMMA FinishRight ==
  ASSUME ContentInv, Grow, NEW s \in Slots, Finish(s)
  PROVE  TasksRight'
<1>1. Free \in Tasks /\ Sound(Free, signals') /\ Holds(Free, signal_embeddings', Rated')
  BY FreeIsRight
<1>2. QED BY <1>1, OneTaskMoves DEF ContentInv, Grow, Finish

\* A message that is not about to copy goes to its next stage.
LEMMA GotoRight ==
  ASSUME ContentInv, Grow, NEW s \in Slots, task[s].at \notin {"free", "copying"},
         NEW stage \in {"queued", "lookup", "embedding", "probing", "model"},
         stage \in {"lookup", "probing", "model"} => task[s].kind = "rate",
         stage = "probing" => task[s].hash \in signal_embeddings',
         Goto(s, stage)
  PROVE  TasksRight'
<1> DEFINE t == [task[s] EXCEPT !.at = stage]
<1>1. task[s] \in Tasks /\ Sound(task[s], signals) /\ task \in [Slots -> Tasks]
  BY DEF ContentInv, TasksRight
<1>2. task[s] # Free
  BY DEF Free
<1>3. /\ t \in Tasks /\ t.at = stage /\ t.kind = task[s].kind /\ t.hash = task[s].hash
      /\ t.retries = task[s].retries /\ t.from = task[s].from
  BY <1>1 DEF Tasks
<1>4. task' = [task EXCEPT ![s] = t]
  BY <1>1 DEF Goto
<1> HIDE DEF t
<1>5. Sound(t, signals')
  BY <1>1, <1>2, <1>3 DEF Sound, Grow
<1>6. Holds(t, signal_embeddings', Rated')
  BY <1>3 DEF Holds
<1>7. QED BY <1>3, <1>4, <1>5, <1>6, OneTaskMoves DEF ContentInv, Grow

LEMMA RetryRight ==
  ASSUME ContentInv, Grow, NEW s \in Slots, task[s].at \notin {"free", "copying"},
         task[s].retries < MaxRetries, Retry(s)
  PROVE  TasksRight'
<1> DEFINE t == [task[s] EXCEPT !.at = "queued", !.retries = @ + 1]
<1>1. task[s] \in Tasks /\ Sound(task[s], signals) /\ task \in [Slots -> Tasks]
  BY DEF ContentInv, TasksRight
<1>2. task[s] # Free /\ MaxRetries \in Nat
  BY ContentTypes DEF Free
<1>3. /\ t \in Tasks /\ t.at = "queued" /\ t.kind = task[s].kind /\ t.hash = task[s].hash
      /\ t.retries = task[s].retries + 1 /\ t.from = task[s].from
  <2>1. ASSUME NEW m \in Tasks, NEW n \in Nat, n = m.retries + 1
        PROVE  LET u == [m EXCEPT !.at = "queued", !.retries = n] IN
               /\ u \in Tasks /\ u.at = "queued" /\ u.kind = m.kind /\ u.hash = m.hash
               /\ u.retries = n /\ u.from = m.from
    BY DEF Tasks
  <2>2. task[s].retries + 1 \in Nat
    BY <1>1 DEF Tasks
  <2>3. t = [task[s] EXCEPT !.at = "queued", !.retries = task[s].retries + 1]
    BY <1>1 DEF Tasks
  <2>4. QED BY <1>1, <2>1, <2>2, <2>3
<1>4. task' = [task EXCEPT ![s] = t]
  BY <1>1 DEF Retry
<1> HIDE DEF t
<1>5. t.retries \in 0 .. MaxRetries
  BY <1>1, <1>2, <1>3 DEF Tasks
<1>6. Sound(t, signals')
  BY <1>1, <1>2, <1>3, <1>5 DEF Sound, Grow
<1>7. Holds(t, signal_embeddings', Rated')
  BY <1>3 DEF Holds
<1>8. QED BY <1>3, <1>4, <1>6, <1>7, OneTaskMoves DEF ContentInv, Grow

\* What a message that is handled is about.
LEMMA MessageFacts ==
  ASSUME ContentInv, NEW s \in Slots, task[s].at # "free"
  PROVE  /\ task[s].hash \in signals /\ task[s].hash \in Hashes
         /\ task[s].at \in {"lookup", "probing", "copying", "model"} => task[s].kind = "rate"
         /\ task[s].at \in {"probing", "copying"} => task[s].hash \in signal_embeddings
         /\ task[s].at = "copying" =>
               /\ task[s].from \in signal_embeddings \cap Rated
               /\ task[s].from \in Hashes
               /\ Near(task[s].hash, task[s].from)
<1>1. Sound(task[s], signals) /\ Holds(task[s], signal_embeddings, Rated) /\ task[s] # Free
  BY DEF ContentInv, TasksRight, Free
<1>2. QED BY <1>1 DEF Sound, Holds, ContentInv, TablesRight, Rated

\* The open transaction stays its own, whoever else inserts.
LEMMA BackfillStays ==
  ASSUME BackfillRight, backfill' = backfill,
         signals \subseteq signals', signal_embeddings \subseteq signal_embeddings',
         backfill.pending \cap signal_embeddings' = {}
  PROVE  BackfillRight'
<1>1. OwnRows'
  BY DEF BackfillRight, OwnRows
<1>2. QED BY <1>1 DEF BackfillRight

LEMMA FailCounts ==
  ASSUME ContentInv, NEW h, Fail \/ EmbeddingError(h)
  PROVE  faults' \in 0 .. MaxFaults
  BY ContentTypes DEF Fail, EmbeddingError

\* A step that changes a message and no table.
LEMMA MessageStep ==
  ASSUME ContentInv, TasksRight', UNCHANGED <<tables, backfill>>, faults' \in 0 .. MaxFaults
  PROVE  ContentInv'
<1>1. /\ signals' = signals /\ signal_embeddings' = signal_embeddings
      /\ signal_ratings' = signal_ratings /\ backfill' = backfill
  BY DEF tables
<1>2. TablesRight'
  BY <1>1, TablesStay DEF ContentInv, TablesRight
<1>3. BackfillRight'
  BY <1>1, BackfillStays DEF ContentInv, BackfillRight, OwnRows
<1>4. QED BY <1>2, <1>3 DEF ContentInv

LEMMA TablesGrow ==
  ASSUME UNCHANGED tables
  PROVE  Grow
  BY DEF tables, Grow, Rated

-----------------------------------------------------------------------------
(* Where messages come from *)

LEMMA SweepKeeps ==
  ASSUME ContentInv, NEW kind \in Kinds, NEW h \in Instagram, Sweep(kind, h)
  PROVE  ContentInv'
<1>1. Grow
  BY TablesGrow DEF Sweep
<1>2. h \in signals' /\ h \in Nat
  BY <1>1, ContentTypes DEF Sweep, FirstOf, Due, Grow
<1>3. /\ Message(kind, h) \in Tasks /\ Sound(Message(kind, h), signals')
      /\ Holds(Message(kind, h), signal_embeddings', Rated')
  BY <1>2, ContentTypes, MessageIsRight
<1>4. TasksRight'
  BY <1>1, <1>3, OneTaskMoves DEF Sweep, Enqueue, ContentInv, Grow
<1>5. UNCHANGED <<tables, backfill>> /\ faults' \in 0 .. MaxFaults
  BY ContentTypes DEF Sweep
<1>6. QED BY <1>4, <1>5, MessageStep

\* A new row, and what else a step does to the messages.
LEMMA RowArrives ==
  ASSUME ContentInv, NEW h \in Hashes, signals' = signals \cup {h}, TasksRight',
         UNCHANGED <<signal_embeddings, signal_ratings, backfill, faults>>
  PROVE  ContentInv'
<1>1. TablesRight'
  BY TablesStay, ContentTypes DEF ContentInv
<1>2. BackfillRight'
  BY BackfillStays DEF ContentInv, BackfillRight, OwnRows
<1>3. QED BY <1>1, <1>2 DEF ContentInv

LEMMA RowGrows ==
  ASSUME NEW h, signals' = signals \cup {h}, UNCHANGED <<signal_embeddings, signal_ratings>>
  PROVE  Grow
  BY DEF Grow, Rated

LEMMA ScrapeStoresKeeps ==
  ASSUME ContentInv, NEW h \in Hashes, ScrapeStores(h)
  PROVE  ContentInv'
<1> DEFINE rate == Message("rate", h)
           embed == Message("embed", h)
<1>1. Grow /\ h \in signals'
  BY RowGrows DEF ScrapeStores
<1>2. /\ rate \in Tasks /\ Sound(rate, signals') /\ Holds(rate, signal_embeddings', Rated')
      /\ embed \in Tasks /\ Sound(embed, signals') /\ Holds(embed, signal_embeddings', Rated')
  <2>1. h \in Nat /\ "rate" \in Kinds /\ "embed" \in Kinds
    BY ContentTypes DEF Kinds
  <2>2. QED BY <1>1, <2>1, ContentTypes, MessageIsRight
<1> HIDE DEF rate, embed
<1>3. PICK first, second : task' = [task EXCEPT ![first] = rate, ![second] = embed]
  BY DEF ScrapeStores, rate, embed
<1>4. /\ task' \in [Slots -> Tasks]
      /\ \A x \in Slots : task'[x] \in {task[x], rate, embed}
  BY <1>2, <1>3, ContentTypes
<1>5. TasksRight'
  BY <1>1, <1>2, <1>4, TasksMove DEF ContentInv, Grow
<1>6. QED BY <1>5, RowArrives DEF ScrapeStores

LEMMA ApiStoresKeeps ==
  ASSUME ContentInv, NEW h \in Hashes, ApiStores(h)
  PROVE  ContentInv'
<1>1. Grow
  BY RowGrows DEF ApiStores
<1>2. TasksRight'
  BY <1>1, TasksStay DEF ApiStores, ContentInv, Grow
<1>3. QED BY <1>2, RowArrives DEF ApiStores

-----------------------------------------------------------------------------
(* The tasks *)

LEMMA EmbedChecksKeeps ==
  ASSUME ContentInv, NEW s \in Slots, EmbedChecks(s)
  PROVE  ContentInv'
<1>1. Grow /\ UNCHANGED <<tables, backfill>> /\ faults' \in 0 .. MaxFaults
  BY TablesGrow, ContentTypes DEF EmbedChecks
<1>2. TasksRight'
  BY <1>1, FinishRight, GotoRight DEF EmbedChecks
<1>3. QED BY <1>1, <1>2, MessageStep

LEMMA EmbedFailsKeeps ==
  ASSUME ContentInv, NEW s \in Slots, EmbedFails(s)
  PROVE  ContentInv'
<1>1. Grow /\ UNCHANGED <<tables, backfill>> /\ faults' \in 0 .. MaxFaults
  BY TablesGrow, FailCounts DEF EmbedFails
<1>2. TasksRight'
  BY <1>1, FinishRight, RetryRight DEF EmbedFails
<1>3. QED BY <1>1, <1>2, MessageStep

LEMMA RateChecksKeeps ==
  ASSUME ContentInv, NEW s \in Slots, RateChecks(s)
  PROVE  ContentInv'
<1>1. Grow /\ UNCHANGED <<tables, backfill>> /\ faults' \in 0 .. MaxFaults
  BY TablesGrow, ContentTypes DEF RateChecks
<1>2. TasksRight'
  <2>1. CASE Finish(s)
    BY <1>1, <2>1, FinishRight
  <2>2. CASE Goto(s, "lookup")
    BY <1>1, <2>2, GotoRight DEF RateChecks
  <2>3. QED BY <2>1, <2>2 DEF RateChecks
<1>3. QED BY <1>1, <1>2, MessageStep

LEMMA LookupChecksKeeps ==
  ASSUME ContentInv, NEW s \in Slots, LookupChecks(s)
  PROVE  ContentInv'
<1>1. Grow /\ UNCHANGED <<tables, backfill>> /\ faults' \in 0 .. MaxFaults
  BY TablesGrow, ContentTypes DEF LookupChecks
<1>2. task[s].at = "lookup" /\ task[s].kind = "rate"
  BY MessageFacts DEF LookupChecks
<1>3. TasksRight'
  <2>1. CASE task[s].hash \in signal_embeddings /\ Goto(s, "probing")
    BY <1>1, <1>2, <2>1, GotoRight DEF Grow
  <2>2. CASE Goto(s, "embedding")
    BY <1>1, <1>2, <2>2, GotoRight
  <2>3. QED BY <2>1, <2>2 DEF LookupChecks
<1>4. QED BY <1>1, <1>3, MessageStep

LEMMA LookupFailsKeeps ==
  ASSUME ContentInv, NEW s \in Slots, LookupFails(s)
  PROVE  ContentInv'
<1>1. Grow /\ UNCHANGED <<tables, backfill>> /\ faults' \in 0 .. MaxFaults
  BY TablesGrow, FailCounts DEF LookupFails
<1>2. TasksRight'
  BY <1>1, GotoRight DEF LookupFails
<1>3. QED BY <1>1, <1>2, MessageStep

LEMMA LookupProbesKeeps ==
  ASSUME ContentInv, NEW s \in Slots, LookupProbes(s)
  PROVE  ContentInv'
<1>1. Grow /\ UNCHANGED <<tables, backfill>> /\ faults' \in 0 .. MaxFaults
  BY TablesGrow, ContentTypes DEF LookupProbes
<1>2. /\ task[s].at = "probing" /\ task[s].kind = "rate"
      /\ task[s].hash \in signals /\ task[s].hash \in signal_embeddings
  BY MessageFacts DEF LookupProbes
<1>3. CASE Goto(s, "model")
  <2>1. TasksRight'
    BY <1>1, <1>2, <1>3, GotoRight
  <2>2. QED BY <1>1, <2>1, MessageStep
<1>4. ASSUME NEW d \in Donors(task[s].hash), Near(task[s].hash, d),
             task' = [task EXCEPT ![s].at = "copying", ![s].from = d]
      PROVE  TasksRight'
  <2> DEFINE t == [task[s] EXCEPT !.at = "copying", !.from = d]
  <2>1. d \in signal_embeddings \cap Rated /\ d \in Hashes /\ d \in Nat
    BY ContentTypes DEF Donors, Rated
  <2>2. task[s] \in Tasks /\ Sound(task[s], signals) /\ task \in [Slots -> Tasks]
        /\ task[s] # Free
    BY <1>2 DEF ContentInv, TasksRight, Free
  <2>3. /\ t \in Tasks /\ t.at = "copying" /\ t.kind = "rate" /\ t.hash = task[s].hash
        /\ t.retries = task[s].retries /\ t.from = d
    BY <1>2, <2>1, <2>2 DEF Tasks
  <2>4. task' = [task EXCEPT ![s] = t]
    BY <1>4, <2>2
  <2> HIDE DEF t
  <2>5. Sound(t, signals')
    BY <1>1, <1>2, <2>1, <2>2, <2>3 DEF Sound, Grow
  <2>6. Holds(t, signal_embeddings', Rated')
    BY <1>1, <1>2, <1>4, <2>1, <2>3 DEF Holds, Grow
  <2>7. QED BY <1>1, <2>3, <2>4, <2>5, <2>6, OneTaskMoves DEF ContentInv, Grow
<1>5. QED BY <1>1, <1>3, <1>4, MessageStep DEF LookupProbes

LEMMA ModelFailsKeeps ==
  ASSUME ContentInv, NEW s \in Slots, ModelFails(s)
  PROVE  ContentInv'
<1>1. Grow /\ UNCHANGED <<tables, backfill>> /\ faults' \in 0 .. MaxFaults
  BY TablesGrow, FailCounts DEF ModelFails
<1>2. TasksRight'
  BY <1>1, FinishRight, RetryRight DEF ModelFails
<1>3. QED BY <1>1, <1>2, MessageStep

\* An embedding of a message's content is stored, which the open transaction does not hold.
LEMMA EmbeddingArrives ==
  ASSUME ContentInv, NEW h \in signals, InsertEmbedding(h),
         UNCHANGED <<signals, signal_ratings, backfill, faults>>
  PROVE  /\ Grow /\ h \in signal_embeddings'
         /\ TasksRight' => ContentInv'
<1>1. /\ signal_embeddings' = signal_embeddings \cup {h} /\ h \notin backfill.pending
      /\ signal_ratings' = signal_ratings
  BY DEF InsertEmbedding
<1>2. Grow
  BY <1>1 DEF Grow, Rated
<1>3. TablesRight'
  BY <1>1, TablesStay, ContentTypes DEF ContentInv
<1>4. BackfillRight'
  BY <1>1, BackfillStays DEF ContentInv, BackfillRight, OwnRows
<1>5. QED BY <1>1, <1>2, <1>3, <1>4 DEF ContentInv

LEMMA EmbedStoresKeeps ==
  ASSUME ContentInv, NEW s \in Slots, EmbedStores(s)
  PROVE  ContentInv'
<1>1. task[s].hash \in signals
  BY MessageFacts DEF EmbedStores
<1>2. Grow /\ (TasksRight' => ContentInv')
  BY <1>1, EmbeddingArrives DEF EmbedStores
<1>3. QED BY <1>2, FinishRight DEF EmbedStores

LEMMA LookupStoresKeeps ==
  ASSUME ContentInv, NEW s \in Slots, LookupStores(s)
  PROVE  ContentInv'
<1>1. task[s].hash \in signals
  BY MessageFacts DEF LookupStores
<1>2. Grow /\ task[s].hash \in signal_embeddings' /\ (TasksRight' => ContentInv')
  BY <1>1, EmbeddingArrives DEF LookupStores
<1>3. QED BY <1>2, GotoRight DEF LookupStores

\* A rating is stored.
LEMMA RatingArrives ==
  ASSUME ContentInv, NEW s \in Slots, TablesRight', Rated \subseteq Rated',
         UNCHANGED <<signals, signal_embeddings, backfill, faults>>, Finish(s)
  PROVE  ContentInv'
<1>1. TasksRight'
  BY FinishRight DEF Grow
<1>2. BackfillRight'
  BY BackfillStays DEF ContentInv, BackfillRight, OwnRows
<1>3. QED BY <1>1, <1>2 DEF ContentInv

LEMMA CopyStoresKeeps ==
  ASSUME ContentInv, NEW s \in Slots, CopyStores(s)
  PROVE  ContentInv'
<1>1. /\ task[s].hash \in signals /\ task[s].hash \in signal_embeddings
      /\ task[s].from \in signal_embeddings \cap Rated /\ task[s].from \in Hashes
      /\ Near(task[s].hash, task[s].from)
  BY MessageFacts DEF CopyStores
<1>2. TablesRight' /\ Rated \subseteq Rated'
  BY <1>1, RatingStays DEF CopyStores
<1>3. QED BY <1>2, RatingArrives DEF CopyStores

LEMMA ModelStoresKeeps ==
  ASSUME ContentInv, NEW s \in Slots, ModelStores(s)
  PROVE  ContentInv'
<1>1. task[s].hash \in signals /\ task[s].hash \in Hashes
  BY MessageFacts DEF ModelStores
<1>2. TablesRight' /\ Rated \subseteq Rated'
  BY <1>1, RatingStays DEF ModelStores
<1>3. QED BY <1>2, RatingArrives DEF ModelStores

-----------------------------------------------------------------------------
(* The backfill *)

LEMMA BackfillTypes ==
  ASSUME BackfillRight
  PROVE  /\ backfill.at \in {"idle", "running", "done"} /\ backfill.todo \subseteq signals
         /\ backfill.pending \subseteq signals /\ backfill.kept \subseteq signals
         /\ backfill.seen \in Nat /\ backfill.written \in Nat
  BY DEF BackfillRight

LEMMA NoneInBatch == 0 % CommitEvery = 0
<1>1. CommitEvery \in Nat \ {0}
  <2>1. {Batch, CommitEvery} \subseteq Nat \ {0}
    BY ContentAssumption
  <2>2. QED BY <2>1
<1>2. ASSUME NEW k \in Nat \ {0} PROVE 0 % k = 0
  OBVIOUS
<1>3. QED BY <1>1, <1>2

\* Nothing has been read or written yet, or it has all been rolled back.
LEMMA NoRowsAreOwn ==
  ASSUME NEW at \in {"idle", "running"}, NEW todo \in SUBSET signals',
         backfill' = [at |-> at, todo |-> todo, seen |-> 0, pending |-> {}, written |-> 0,
                      kept |-> {}]
  PROVE  BackfillRight'
<1>1. IsFiniteSet({}) /\ Cardinality({}) = 0
  BY FS_EmptySet
<1>2. 0 % CommitEvery = 0
  BY NoneInBatch
<1>3. /\ backfill'.at = at /\ backfill'.todo = todo /\ backfill'.seen = 0
      /\ backfill'.pending = {} /\ backfill'.written = 0 /\ backfill'.kept = {}
  OBVIOUS
<1>4. OwnRows'
  BY <1>1, <1>2, <1>3 DEF OwnRows
<1>5. QED BY <1>4 DEF BackfillRight

LEMMA BackfillSelectsKeeps ==
  ASSUME ContentInv, BackfillSelects
  PROVE  ContentInv'
<1>1. PICK todo \in SUBSET signals :
         backfill' = [at |-> "running", todo |-> todo, seen |-> 0, pending |-> {},
                      written |-> 0, kept |-> {}]
  <2>1. PICK rows \in Selections :
           backfill' = [NoBackfill EXCEPT !.at = "running", !.todo = rows]
    BY DEF BackfillSelects
  <2>2. rows \in SUBSET signals
    <3>1. \A S, n : FirstOf(S, n) \subseteq S
      BY DEF FirstOf
    <3>2. PICK source \in {Hashes, Instagram} :
             LET all == ((signals \cap Captioned) \ signal_embeddings) \cap source IN
             rows = all \/ \E limit \in 1 .. Cardinality(all) : rows = FirstOf(all, limit)
      BY Zenon DEF Selections
    <3>3. QED BY <3>1, <3>2
  <2>3. QED BY <2>1, <2>2 DEF NoBackfill
<1>2. /\ UNCHANGED tables /\ signals' = signals /\ signal_embeddings' = signal_embeddings
      /\ signal_ratings' = signal_ratings /\ task' = task /\ faults' = faults
  BY DEF BackfillSelects, tables
<1>3. BackfillRight'
  BY <1>1, <1>2, NoRowsAreOwn
<1>4. TasksRight' /\ TablesRight'
  BY <1>2, TablesGrow, TasksStay, TablesStay DEF ContentInv, Grow, TablesRight
<1>5. QED BY <1>2, <1>3, <1>4 DEF ContentInv

LEMMA BackfillRaisesKeeps ==
  ASSUME ContentInv, BackfillRaises
  PROVE  ContentInv'
<1>1. backfill' = [at |-> "idle", todo |-> {}, seen |-> 0, pending |-> {}, written |-> 0,
                   kept |-> {}]
  BY DEF BackfillRaises, NoBackfill
<1>2. /\ UNCHANGED tables /\ signals' = signals /\ signal_embeddings' = signal_embeddings
      /\ signal_ratings' = signal_ratings /\ task' = task
  BY DEF BackfillRaises, tables
<1>3. BackfillRight'
  BY <1>1, NoRowsAreOwn
<1>4. TasksRight' /\ TablesRight'
  BY <1>2, TablesGrow, TasksStay, TablesStay DEF ContentInv, Grow, TablesRight
<1>5. faults' \in 0 .. MaxFaults
  BY FailCounts DEF BackfillRaises
<1>6. QED BY <1>3, <1>4, <1>5 DEF ContentInv

\* Rows of the open transaction enter the table.
LEMMA RowsEnter ==
  ASSUME ContentInv, NEW rows \in SUBSET signals,
         signal_embeddings' = signal_embeddings \cup rows,
         UNCHANGED <<signals, signal_ratings, task>>
  PROVE  TasksRight' /\ TablesRight'
<1>1. Grow
  BY DEF Grow, Rated
<1>2. TablesRight'
  BY TablesStay DEF ContentInv, TablesRight
<1>3. QED BY <1>1, <1>2, TasksStay DEF ContentInv, Grow

LEMMA CommitKeeps ==
  ASSUME ContentInv, backfill.at = "running", BackfillCommits,
         UNCHANGED <<signals, signal_ratings, task>>, faults' \in 0 .. MaxFaults
  PROVE  ContentInv'
<1> DEFINE pending == backfill.pending
           kept == backfill.kept
<1>1. /\ pending \subseteq signals /\ kept \subseteq signals
      /\ backfill.seen \in Nat /\ backfill.written \in Nat
      /\ IsFiniteSet(pending) /\ IsFiniteSet(kept)
      /\ kept \subseteq signal_embeddings /\ pending \cap signal_embeddings = {}
      /\ backfill.written = Cardinality(kept) + Cardinality(pending)
  BY BackfillTypes DEF ContentInv, BackfillRight, OwnRows
<1>2. signal_embeddings' = signal_embeddings \cup pending
  BY DEF BackfillCommits
<1>3. /\ backfill' \in [at: {"idle", "running", "done"}, todo: SUBSET signals, seen: Nat,
                        pending: SUBSET signals, written: Nat, kept: SUBSET signals]
      /\ backfill'.at = "done" /\ backfill'.todo = {} /\ backfill'.seen = 0
      /\ backfill'.pending = {} /\ backfill'.written = backfill.written
      /\ backfill'.kept = kept \cup pending
  BY <1>1 DEF BackfillCommits, ContentInv, BackfillRight
<1>4. /\ IsFiniteSet(kept \cup pending) /\ IsFiniteSet({}) /\ Cardinality({}) = 0
      /\ Cardinality(kept \cup pending) = Cardinality(kept) + Cardinality(pending)
      /\ Cardinality(kept) \in Nat /\ Cardinality(pending) \in Nat
  <2>1. kept \cap pending = {}
    BY <1>1
  <2>2. IsFiniteSet(kept \cup pending) /\ IsFiniteSet({}) /\ Cardinality({}) = 0
        /\ Cardinality(kept \cup pending)
              = Cardinality(kept) + Cardinality(pending) - Cardinality(kept \cap pending)
    <3>1. IsFiniteSet({}) /\ Cardinality({}) = 0
      BY FS_EmptySet
    <3>2. QED BY <1>1, <3>1, FS_Union
  <2>3. Cardinality(kept) \in Nat /\ Cardinality(pending) \in Nat
    BY <1>1, FS_CardinalityType
  <2>4. Cardinality(kept \cap pending) = 0
    BY <2>1, FS_EmptySet
  <2>5. QED BY ONLY <2>2, <2>3, <2>4
<1>5. 0 % CommitEvery = 0
  BY NoneInBatch
<1>6. OwnRows'
  BY <1>1, <1>2, <1>3, <1>4, <1>5 DEF OwnRows
<1>7. BackfillRight'
  BY <1>3, <1>6 DEF BackfillRight
<1>8. TasksRight' /\ TablesRight'
  BY <1>1, <1>2, RowsEnter
<1>9. QED BY <1>7, <1>8 DEF ContentInv

LEMMA BackfillEndsKeeps ==
  ASSUME ContentInv, BackfillEnds
  PROVE  ContentInv'
  BY CommitKeeps, ContentTypes DEF BackfillEnds

LEMMA BackfillAbortsKeeps ==
  ASSUME ContentInv, BackfillAborts
  PROVE  ContentInv'
  BY CommitKeeps, FailCounts DEF BackfillAborts

LEMMA BackfillStoresKeeps ==
  ASSUME ContentInv, BackfillStores
  PROVE  ContentInv'
<1> DEFINE h == Min(backfill.todo)
           own == backfill.pending \cup ({h} \ signal_embeddings)
           n == backfill.seen
           kept == backfill.kept
           commits == (n + 1) % CommitEvery = 0
<1>1. /\ backfill.at = "running" /\ backfill.todo # {} /\ backfill.todo \subseteq signals
      /\ backfill.pending \subseteq signals /\ kept \subseteq signals
      /\ n \in Nat /\ backfill.written \in Nat
      /\ IsFiniteSet(backfill.pending) /\ IsFiniteSet(kept)
      /\ kept \subseteq signal_embeddings
      /\ backfill.pending \cap (signal_embeddings \cup backfill.todo) = {}
      /\ backfill.written = Cardinality(kept) + Cardinality(backfill.pending)
      /\ Cardinality(backfill.pending) <= n % CommitEvery
  BY BackfillTypes DEF ContentInv, BackfillRight, OwnRows, BackfillStores
<1>2. h \in backfill.todo /\ h \in signals /\ h \notin backfill.pending
  <2>1. backfill.todo \in SUBSET Nat
    BY <1>1, ContentTypes
  <2>2. h \in backfill.todo
    BY <1>1, <2>1, MinIsOne
  <2>3. QED BY <1>1, <2>2
<1>3. /\ backfill' = [backfill EXCEPT !.todo = @ \ {h}, !.seen = @ + 1,
                                      !.written = @ + RowCount(h),
                                      !.pending = IF commits THEN {} ELSE own,
                                      !.kept = IF commits THEN @ \cup own ELSE @]
      /\ signal_embeddings' = IF commits THEN signal_embeddings \cup own ELSE signal_embeddings
      /\ signals' = signals /\ signal_ratings' = signal_ratings /\ task' = task
      /\ faults' = faults
  BY DEF BackfillStores
<1> HIDE DEF h
<1>4. RowCount(h) \in {0, 1}
  BY DEF RowCount
<1>5. /\ IsFiniteSet(own) /\ own \subseteq signals /\ own \cap signal_embeddings = {}
      /\ own \cap (backfill.todo \ {h}) = {}
      /\ Cardinality(own) = Cardinality(backfill.pending) + RowCount(h)
  <2>1. CASE h \in signal_embeddings
    <3>1. own = backfill.pending /\ RowCount(h) = 0
      BY <2>1 DEF RowCount
    <3>2. Cardinality(backfill.pending) \in Nat
      BY <1>1, FS_CardinalityType
    <3>3. own \subseteq signals /\ own \cap signal_embeddings = {}
          /\ own \cap (backfill.todo \ {h}) = {} /\ IsFiniteSet(own)
      BY <1>1, <3>1
    <3>4. Cardinality(own) = Cardinality(backfill.pending) + RowCount(h)
      BY <3>1, <3>2
    <3>5. QED BY <3>3, <3>4
  <2>2. CASE h \notin signal_embeddings
    <3>1. own = backfill.pending \cup {h} /\ RowCount(h) = 1
      BY <2>2 DEF RowCount
    <3>2. /\ IsFiniteSet(own)
          /\ Cardinality(own) = Cardinality(backfill.pending) + 1
      BY <1>1, <1>2, <3>1, FS_AddElement
    <3>3. own \subseteq signals /\ own \cap signal_embeddings = {}
          /\ own \cap (backfill.todo \ {h}) = {}
      BY <1>1, <1>2, <2>2, <3>1
    <3>4. Cardinality(own) = Cardinality(backfill.pending) + RowCount(h)
      BY <3>1, <3>2
    <3>5. QED BY <3>2, <3>3, <3>4
  <2>3. QED BY <2>1, <2>2
<1>6. n % CommitEvery \in Nat /\ (commits \/ (n + 1) % CommitEvery = (n % CommitEvery) + 1)
  BY <1>1, ContentTypes, NextInBatch
<1> HIDE DEF own, commits, n, kept
<1>7. /\ backfill' \in [at: {"idle", "running", "done"}, todo: SUBSET signals, seen: Nat,
                        pending: SUBSET signals, written: Nat, kept: SUBSET signals]
      /\ backfill'.at = "running" /\ backfill'.todo = backfill.todo \ {h}
      /\ backfill'.seen = n + 1 /\ backfill'.written = backfill.written + RowCount(h)
      /\ backfill'.pending = (IF commits THEN {} ELSE own)
      /\ backfill'.kept = (IF commits THEN kept \cup own ELSE kept)
  <2>1. ASSUME NEW b \in [at: {"idle", "running", "done"}, todo: SUBSET signals, seen: Nat,
                           pending: SUBSET signals, written: Nat, kept: SUBSET signals],
               NEW todo \in SUBSET signals, NEW seen \in Nat, NEW written \in Nat,
               NEW pending \in SUBSET signals, NEW stored \in SUBSET signals,
               backfill' = [b EXCEPT !.todo = todo, !.seen = seen, !.written = written,
                                     !.pending = pending, !.kept = stored]
        PROVE  /\ backfill' \in [at: {"idle", "running", "done"}, todo: SUBSET signals, seen: Nat,
                                  pending: SUBSET signals, written: Nat, kept: SUBSET signals]
               /\ backfill'.at = b.at /\ backfill'.todo = todo /\ backfill'.seen = seen
               /\ backfill'.written = written /\ backfill'.pending = pending
               /\ backfill'.kept = stored
    BY <2>1
  <2>2. /\ backfill.todo \ {h} \in SUBSET signals /\ n + 1 \in Nat
        /\ backfill.written + RowCount(h) \in Nat
        /\ (IF commits THEN {} ELSE own) \in SUBSET signals
        /\ (IF commits THEN kept \cup own ELSE kept) \in SUBSET signals
    BY <1>1, <1>4, <1>5
  <2>3. backfill' = [backfill EXCEPT !.todo = backfill.todo \ {h}, !.seen = n + 1,
                                     !.written = backfill.written + RowCount(h),
                                     !.pending = IF commits THEN {} ELSE own,
                                     !.kept = IF commits THEN kept \cup own ELSE kept]
    BY <1>3 DEF n, kept
  <2>4. BackfillRight
    BY DEF ContentInv
  <2>5. QED BY <1>1, <2>1, <2>2, <2>3, <2>4 DEF BackfillRight
<1>8. /\ IsFiniteSet(kept \cup own) /\ IsFiniteSet({}) /\ Cardinality({}) = 0
      /\ Cardinality(kept \cup own) = Cardinality(kept) + Cardinality(own)
      /\ Cardinality(kept) \in Nat /\ Cardinality(own) \in Nat
      /\ Cardinality(backfill.pending) \in Nat
  <2>1. kept \cap own = {}
    BY <1>1, <1>5
  <2>2. IsFiniteSet({}) /\ Cardinality({}) = 0
    BY FS_EmptySet
  <2>3. /\ IsFiniteSet(kept \cup own)
        /\ Cardinality(kept \cup own)
              = Cardinality(kept) + Cardinality(own) - Cardinality(kept \cap own)
    BY <1>1, <1>5, FS_Union
  <2>4. Cardinality(kept) \in Nat /\ Cardinality(own) \in Nat
        /\ Cardinality(backfill.pending) \in Nat
    BY <1>1, <1>5, FS_CardinalityType
  <2>5. Cardinality(kept \cap own) = 0
    BY <2>1, <2>2
  <2>6. QED BY ONLY <2>2, <2>3, <2>4, <2>5
<1>9. backfill'.written = Cardinality(kept) + Cardinality(own)
  BY <1>1, <1>4, <1>5, <1>7, <1>8
<1>10. OwnRows'
  <2>1. CASE commits
    <3>1. (n + 1) % CommitEvery = 0
      BY <2>1 DEF commits
    <3>2. /\ backfill'.pending = {} /\ backfill'.kept = kept \cup own
          /\ signal_embeddings' = signal_embeddings \cup own
          /\ backfill'.seen % CommitEvery = 0
      BY <1>3, <1>7, <2>1, <3>1
    <3>3. IsFiniteSet(backfill'.pending) /\ Cardinality(backfill'.pending) = 0
      BY <1>8, <3>2
    <3>4. backfill'.written = Cardinality(backfill'.kept) + Cardinality(backfill'.pending)
      BY <1>8, <1>9, <3>2, <3>3
    <3>5. IsFiniteSet(backfill'.kept) /\ backfill'.kept \subseteq signal_embeddings'
      BY <1>1, <1>8, <3>2
    <3>6. QED BY <1>7, <3>2, <3>3, <3>4, <3>5 DEF OwnRows
  <2>2. CASE ~commits
    <3>1. /\ backfill'.pending = own /\ backfill'.kept = kept
          /\ signal_embeddings' = signal_embeddings
      BY <1>3, <1>7, <2>2
    <3>2. Cardinality(own) <= backfill'.seen % CommitEvery
      BY <1>1, <1>4, <1>5, <1>6, <1>7, <1>8, <2>2
    <3>3. QED BY <1>1, <1>5, <1>7, <1>9, <3>1, <3>2 DEF OwnRows
  <2>3. QED BY <2>1, <2>2
<1>11. BackfillRight'
  BY <1>3, <1>7, <1>10 DEF BackfillRight
<1>12. TasksRight' /\ TablesRight'
  <2>1. PICK rows \in SUBSET signals : signal_embeddings' = signal_embeddings \cup rows
    BY <1>3, <1>5
  <2>2. QED BY <1>3, <2>1, RowsEnter
<1>13. QED BY <1>3, <1>11, <1>12 DEF ContentInv

-----------------------------------------------------------------------------
(* The theorems *)

LEMMA TaskStepKeeps ==
  ASSUME ContentInv, NEW s \in Slots, TaskStep(s)
  PROVE  ContentInv'
  BY EmbedChecksKeeps, EmbedStoresKeeps, EmbedFailsKeeps, RateChecksKeeps, LookupChecksKeeps,
     LookupStoresKeeps, LookupFailsKeeps, LookupProbesKeeps, CopyStoresKeeps, ModelStoresKeeps,
     ModelFailsKeeps
  DEF TaskStep

LEMMA ContentStepKeeps == ContentInv /\ [ContentNext]_contentVars => ContentInv'
<1> SUFFICES ASSUME ContentInv, [ContentNext]_contentVars PROVE ContentInv'
  OBVIOUS
<1>1. ASSUME NEW h \in Hashes, ScrapeStores(h) \/ ApiStores(h) PROVE ContentInv'
  BY <1>1, ScrapeStoresKeeps, ApiStoresKeeps
<1>2. ASSUME NEW kind \in Kinds, NEW h \in Instagram, Sweep(kind, h) PROVE ContentInv'
  BY <1>2, SweepKeeps
<1>3. ASSUME NEW s \in Slots, TaskStep(s) PROVE ContentInv'
  BY <1>3, TaskStepKeeps
<1>4. CASE BackfillSelects \/ BackfillStep
  BY <1>4, BackfillSelectsKeeps, BackfillStoresKeeps, BackfillEndsKeeps, BackfillAbortsKeeps,
     BackfillRaisesKeeps DEF BackfillStep
<1>5. CASE UNCHANGED contentVars
  <2>1. UNCHANGED <<tables, backfill>> /\ task' = task /\ faults' = faults
    BY <1>5 DEF contentVars
  <2>2. TasksRight'
    BY <2>1, TablesGrow, TasksStay DEF ContentInv, Grow
  <2>3. QED BY <2>1, <2>2, MessageStep, ContentTypes
<1>6. QED BY <1>1, <1>2, <1>3, <1>4, <1>5 DEF ContentNext

LEMMA InitContentInv == ContentInit => ContentInv
<1> SUFFICES ASSUME ContentInit PROVE ContentInv
  OBVIOUS
<1> USE DEF ContentInit
<1>1. /\ Stored \subseteq Hashes /\ RatedBefore \subseteq Stored
      /\ Hashes \subseteq Nat \ {0} /\ MaxFaults \in Nat
  <2>1. /\ Instagram \cup Captioned \cup Stored \cup Refused \subseteq Hashes
        /\ RatedBefore \subseteq Stored /\ Hashes \cup Slots \subseteq Nat \ {0}
        /\ {CacheMax, MaxRetries, MaxFaults} \subseteq Nat
    BY ContentAssumption
  <2>2. QED BY <2>1
<1>2. TasksRight
  <2>1. Free \in Tasks /\ Sound(Free, signals) /\ Holds(Free, signal_embeddings, Rated)
    BY FreeIsRight
  <2>2. QED BY <2>1 DEF TasksRight
<1>3. /\ signal_ratings \in [Hashes -> Hashes \cup {NoRating}]
      /\ Rated = RatedBefore
      /\ \A h \in Rated : signal_ratings[h] = h
  BY <1>1 DEF Rated, NoRating
<1>4. RatingsAreRooted
  BY <1>3 DEF RatingsAreRooted, CopiesAreNear
<1>5. TablesRight
  BY <1>1, <1>3, <1>4 DEF TablesRight
<1>6. BackfillRight
  <2>1. /\ backfill.at = "idle" /\ backfill.todo = {} /\ backfill.seen = 0
        /\ backfill.pending = {} /\ backfill.written = 0 /\ backfill.kept = {}
        /\ backfill \in [at: {"idle", "running", "done"}, todo: SUBSET signals, seen: Nat,
                         pending: SUBSET signals, written: Nat, kept: SUBSET signals]
    BY DEF NoBackfill
  <2>2. IsFiniteSet({}) /\ Cardinality({}) = 0
    BY FS_EmptySet
  <2>3. OwnRows
    BY <2>1, <2>2, NoneInBatch DEF OwnRows
  <2>4. QED BY <2>1, <2>3 DEF BackfillRight
<1>7. faults \in 0 .. MaxFaults
  BY <1>1
<1>8. QED BY <1>2, <1>5, <1>6, <1>7 DEF ContentInv

LEMMA ContentInvHolds == ContentSpec => []ContentInv
  BY InitContentInv, ContentStepKeeps, PTL DEF ContentSpec

LEMMA InvGivesProperties == ContentInv => ContentTypeOK /\ RatingsAreRooted /\ BackfillCountsItsRows
<1> SUFFICES ASSUME ContentInv
             PROVE  ContentTypeOK /\ RatingsAreRooted /\ BackfillCountsItsRows
  OBVIOUS
<1>1. ContentTypeOK
  <2>1. \A s \in Slots : Sound(task[s], signals)
    BY DEF ContentInv, TasksRight
  <2>2. BackfillRight /\ TablesRight /\ faults \in 0 .. MaxFaults
    BY DEF ContentInv
  <2>3. QED BY <2>1, <2>2, BackfillTypes DEF ContentTypeOK, Sound, TablesRight
<1>2. RatingsAreRooted
  BY DEF ContentInv, TablesRight
<1>3. BackfillCountsItsRows
  <2>1. OwnRows /\ backfill.seen \in Nat
    BY BackfillTypes DEF ContentInv, BackfillRight
  <2>2. /\ IsFiniteSet(backfill.pending) /\ IsFiniteSet(backfill.kept)
        /\ Cardinality(backfill.pending) \in Nat /\ Cardinality(backfill.kept) \in Nat
        /\ Cardinality({}) = 0
    BY <2>1, FS_CardinalityType, FS_EmptySet DEF OwnRows
  <2>3. Cardinality(backfill.pending) < CommitEvery
    <3>1. CommitEvery \in Nat \ {0}
      BY ContentTypes
    <3>2. ASSUME NEW k \in Nat \ {0}, NEW m \in Nat PROVE m % k < k /\ m % k \in Nat
      OBVIOUS
    <3>3. backfill.seen % CommitEvery < CommitEvery /\ backfill.seen % CommitEvery \in Nat
      BY <2>1, <3>1, <3>2
    <3>4. Cardinality(backfill.pending) <= backfill.seen % CommitEvery
      BY <2>1 DEF OwnRows
    <3>5. QED BY ONLY <2>2, <3>1, <3>3, <3>4
  <2>4. backfill.at = "done" => backfill.written = Cardinality(backfill.kept)
    <3>1. /\ backfill.at # "running" => backfill.pending = {}
          /\ backfill.written = Cardinality(backfill.kept) + Cardinality(backfill.pending)
      BY <2>1 DEF OwnRows
    <3>2. SUFFICES ASSUME backfill.at = "done"
                   PROVE  backfill.written = Cardinality(backfill.kept)
      OBVIOUS
    <3>3. Cardinality(backfill.pending) = 0
      BY <2>2, <3>1, <3>2
    <3>4. QED BY <2>2, <3>1, <3>3
  <2>5. QED BY <2>3, <2>4 DEF BackfillCountsItsRows
<1>4. QED BY <1>1, <1>2, <1>3

\* Tables, messages and the backfill are well-formed: each message is of a stored content and within
\* its retries (tasks.py: rate_signal, embed_signal), and embeddings and ratings are of stored
\* contents.
THEOREM ContentTypesHold == ContentSpec => []ContentTypeOK
  BY ContentInvHolds, InvGivesProperties, PTL

\* The cache copies from near neighbours only, and however the tasks of one content race, every chain
\* of copies leads back to a model's own rating (insert_rating keeps the first).
THEOREM ChainsEndAtAModel == ContentSpec => []RatingsAreRooted
  BY ContentInvHolds, InvGivesProperties, PTL

\* What the backfill reports as written is what its commits have brought into the table, with fewer
\* than CommitEvery rows at stake at any time.
THEOREM TheReportCountsItsRows == ContentSpec => []BackfillCountsItsRows
  BY ContentInvHolds, InvGivesProperties, PTL

-----------------------------------------------------------------------------
(* Counting up, and recursion over it *)

\* What holds at 0 and at each number after one where it holds, holds up to N.
LEMMA CountingUp ==
  ASSUME NEW N \in Nat, NEW G, 0 \in G, \A n \in 1 .. N : n - 1 \in G => n \in G
  PROVE  0 .. N \subseteq G
<1> DEFINE Missed == (0 .. N) \ G
<1>1. SUFFICES ASSUME Missed # {} PROVE FALSE
  OBVIOUS
<1>2. PICK m \in Missed : \A n \in Missed : m <= n
  <2>1. Missed \in SUBSET Nat
    OBVIOUS
  <2> HIDE DEF Missed
  <2>2. QED BY <1>1, <2>1, LeastOf
<1>3. m \in 1 .. N /\ m - 1 \in G
  BY <1>2
<1>4. QED BY <1>2, <1>3

\* What a loop over 1 .. N has come to after each number of rounds.
Traces(N, S, start, step) ==
    {f \in [0 .. N -> S] : f[0] = start /\ \A n \in 1 .. N : f[n] = step[n][f[n - 1]]}

\* A loop comes to something.
LEMMA LoopTrace ==
  ASSUME NEW N \in Nat, NEW S, NEW start \in S, NEW step \in [1 .. N -> [S -> S]]
  PROVE  Traces(N, S, start, step) # {}
<1> DEFINE Trace(f, k) == f[0] = start /\ \A n \in 1 .. k : f[n] = step[n][f[n - 1]]
           G == {k \in 0 .. N : \E f \in [0 .. k -> S] : Trace(f, k)}
<1>1. 0 \in G
  <2> DEFINE f == [n \in 0 .. 0 |-> start]
  <2>1. f \in [0 .. 0 -> S] /\ f[0] = start
    OBVIOUS
  <2>2. Trace(f, 0)
    BY <2>1
  <2> HIDE DEF f, Trace
  <2>3. QED BY <2>1, <2>2
<1>2. ASSUME NEW k \in 1 .. N, k - 1 \in G PROVE k \in G
  <2>1. PICK f \in [0 .. k - 1 -> S] : Trace(f, k - 1)
    BY <1>2
  <2> DEFINE g == [n \in 0 .. k |-> IF n = k THEN step[k][f[k - 1]] ELSE f[n]]
  <2>2. f[k - 1] \in S
    BY <2>1
  <2>3. g \in [0 .. k -> S]
    <3>1. step[k][f[k - 1]] \in S
      BY <2>2
    <3>2. QED BY <2>1, <3>1
  <2>4. Trace(g, k)
    <3>1. g[0] = start
      BY <2>1
    <3>2. ASSUME NEW n \in 1 .. k PROVE g[n] = step[n][g[n - 1]]
      <4>1. g[n - 1] = f[n - 1]
        OBVIOUS
      <4>2. CASE n = k
        <5>1. g[k] = step[k][f[k - 1]] /\ g[k - 1] = f[k - 1]
          BY <4>1, <4>2
        <5>2. QED BY <4>2, <5>1
      <4>3. CASE n # k
        <5>1. n \in 1 .. k - 1 /\ g[n] = f[n]
          BY <4>3
        <5>2. QED BY <2>1, <4>1, <5>1
      <4>4. QED BY <4>2, <4>3
    <3>3. QED BY <3>1, <3>2
  <2> HIDE DEF g, Trace
  <2>5. QED BY <2>3, <2>4
<1>3. N \in G
  <2> HIDE DEF G
  <2>1. 0 .. N \subseteq G
    BY <1>1, <1>2, CountingUp
  <2>2. QED BY <2>1
<1>4. QED BY <1>3 DEF Traces

-----------------------------------------------------------------------------
(* Orders *)

\* What comes before each element of S: never itself, with one also what comes before that one, and
\* of two one before the other.
IsOrder(before, S) ==
    /\ before \in [S -> SUBSET S]
    /\ \A x \in S : x \notin before[x]
    /\ \A x \in S : \A y \in before[x] : before[y] \subseteq before[x]
    /\ \A x, y \in S : x # y => x \in before[y] \/ y \in before[x]

\* Counting what comes before it numbers the elements from 0.
LEMMA PlacesInOrder ==
  ASSUME NEW S, IsFiniteSet(S), NEW before, IsOrder(before, S)
  PROVE  /\ \A x \in S : Cardinality(before[x]) \in 0 .. Cardinality(S) - 1
         /\ \A x \in S : \A y \in before[x] : Cardinality(before[y]) < Cardinality(before[x])
         /\ \A x, y \in S : Cardinality(before[x]) = Cardinality(before[y]) => x = y
         /\ \A n \in 0 .. Cardinality(S) - 1 : \E x \in S : Cardinality(before[x]) = n
<1> DEFINE place == [x \in S |-> Cardinality(before[x])]
           T == 0 .. Cardinality(S) - 1
<1>1. Cardinality(S) \in Nat
  BY FS_CardinalityType
<1>2. ASSUME NEW x \in S PROVE IsFiniteSet(before[x]) /\ Cardinality(before[x]) \in T
  <2>1. before[x] \subseteq S \ {x}
    BY DEF IsOrder
  <2>2. IsFiniteSet(S \ {x}) /\ Cardinality(S \ {x}) = Cardinality(S) - 1
    BY FS_RemoveElement
  <2>3. IsFiniteSet(before[x]) /\ Cardinality(before[x]) <= Cardinality(S) - 1
    BY <2>1, <2>2, FS_Subset
  <2>4. Cardinality(before[x]) \in Nat
    BY <2>3, FS_CardinalityType
  <2>5. QED BY <1>1, <2>3, <2>4
<1>3. ASSUME NEW x \in S, NEW y \in before[x]
      PROVE  Cardinality(before[y]) < Cardinality(before[x])
  <2>1. y \in S /\ before[y] \subseteq before[x] /\ y \notin before[y]
    BY DEF IsOrder
  <2>2. /\ Cardinality(before[y]) <= Cardinality(before[x])
        /\ Cardinality(before[x]) = Cardinality(before[y]) => before[x] = before[y]
    BY <1>2, <2>1, FS_Subset
  <2>3. Cardinality(before[y]) \in Nat /\ Cardinality(before[x]) \in Nat
    BY <1>2, <2>1
  <2>4. QED BY <2>1, <2>2, <2>3
<1>4. ASSUME NEW x \in S, NEW y \in S, Cardinality(before[x]) = Cardinality(before[y])
      PROVE  x = y
  <2>1. SUFFICES ASSUME x # y PROVE FALSE
    OBVIOUS
  <2>2. x \in before[y] \/ y \in before[x]
    BY <2>1 DEF IsOrder
  <2>3. Cardinality(before[y]) \in Nat /\ Cardinality(before[x]) \in Nat
    BY <1>2
  <2>4. QED BY <1>3, <1>4, <2>2, <2>3
<1>5. ASSUME NEW n \in T PROVE \E x \in S : Cardinality(before[x]) = n
  <2>1. place \in Injection(S, T)
    BY <1>2, <1>4 DEF Injection, IsInjective
  <2>2. IsFiniteSet(T) /\ Cardinality(T) = Cardinality(S)
    BY <1>1, FS_Interval
  <2>3. place \in Surjection(S, T)
    BY <2>1, <2>2, FS_Injection
  <2>4. QED BY <2>3 DEF Surjection
<1>6. QED BY <1>2, <1>3, <1>4, <1>5

\* A listing is all of the set, in order.
LEMMA ListingIsInOrder ==
  ASSUME NEW S, IsFiniteSet(S), NEW before, IsOrder(before, S)
  PROVE  /\ Cardinality(S) \in Nat
         /\ Listing(before) \in [1 .. Cardinality(S) -> S]
         /\ \A x \in S : \E n \in 1 .. Cardinality(S) : Listing(before)[n] = x
         /\ \A m, n \in 1 .. Cardinality(S) :
               m < n => Listing(before)[m] \in before[Listing(before)[n]]
<1> DEFINE s == Listing(before)
           c == Cardinality(S)
<1>1. DOMAIN before = S /\ c \in Nat
  BY FS_CardinalityType DEF IsOrder
<1>2. s = [n \in 1 .. c |-> CHOOSE x \in S : Cardinality(before[x]) = n - 1]
  BY <1>1 DEF Listing
<1>3. ASSUME NEW n \in 1 .. c PROVE s[n] \in S /\ Cardinality(before[s[n]]) = n - 1
  <2>1. n - 1 \in 0 .. c - 1
    BY <1>1
  <2>2. \E x \in S : Cardinality(before[x]) = n - 1
    BY <2>1, PlacesInOrder
  <2>3. s[n] = CHOOSE x \in S : Cardinality(before[x]) = n - 1
    BY <1>2
  <2>4. QED BY <2>2, <2>3
<1>4. ASSUME NEW x \in S PROVE \E n \in 1 .. c : s[n] = x
  <2>1. Cardinality(before[x]) \in 0 .. c - 1
    BY PlacesInOrder
  <2>2. Cardinality(before[x]) + 1 \in 1 .. c
    BY <1>1, <2>1
  <2> DEFINE n == Cardinality(before[x]) + 1
  <2>3. s[n] \in S /\ Cardinality(before[s[n]]) = Cardinality(before[x])
    BY <1>3, <2>1, <2>2
  <2>4. s[n] = x
    BY <2>3, PlacesInOrder
  <2>5. QED BY <2>2, <2>4
<1>5. ASSUME NEW m \in 1 .. c, NEW n \in 1 .. c, m < n PROVE s[m] \in before[s[n]]
  <2>1. /\ s[m] \in S /\ s[n] \in S
        /\ Cardinality(before[s[m]]) = m - 1 /\ Cardinality(before[s[n]]) = n - 1
    BY <1>3
  <2>2. s[m] # s[n]
    BY <1>1, <1>5, <2>1
  <2>3. s[n] \notin before[s[m]]
    <3>1. SUFFICES ASSUME s[n] \in before[s[m]] PROVE FALSE
      OBVIOUS
    <3>2. Cardinality(before[s[n]]) < Cardinality(before[s[m]])
      BY <2>1, <3>1, PlacesInOrder
    <3>3. QED BY <1>5, <2>1, <3>2
  <2>4. QED BY <2>1, <2>2, <2>3 DEF IsOrder
<1>6. s \in [1 .. c -> S]
  BY <1>2, <1>3
<1>7. QED BY <1>1, <1>4, <1>5, <1>6

\* There is one way to list a set in order.
LEMMA OneListing ==
  ASSUME NEW S, IsFiniteSet(S), NEW before, IsOrder(before, S), NEW s \in Seq(S),
         \A x \in S : \E n \in 1 .. Len(s) : s[n] = x,
         \A m, n \in 1 .. Len(s) : m < n => s[m] \in before[s[n]]
  PROVE  Listing(before) = s
<1>1. Len(s) \in Nat /\ s \in [1 .. Len(s) -> S]
  OBVIOUS
<1>2. ASSUME NEW m \in 1 .. Len(s), NEW n \in 1 .. Len(s), s[m] = s[n] PROVE m = n
  BY <1>1, <1>2 DEF IsOrder
<1>3. Len(s) = Cardinality(S)
  <2>1. s \in Bijection(1 .. Len(s), S)
    BY <1>1, <1>2 DEF Bijection, Injection, IsInjective, Surjection
  <2>2. ExistsBijection(1 .. Len(s), S)
    BY <2>1 DEF ExistsBijection
  <2>3. QED BY <1>1, <2>2, FS_CountingElements
<1>4. ASSUME NEW n \in 1 .. Len(s) PROVE Cardinality(before[s[n]]) = n - 1
  <2> DEFINE D == 1 .. n - 1
             g == [m \in D |-> s[m]]
  <2>1. D \subseteq 1 .. Len(s) /\ n - 1 \in Nat
    BY <1>1
  <2>2. \A x \in before[s[n]] : \E m \in D : g[m] = x
    <3>1. SUFFICES ASSUME NEW x \in before[s[n]] PROVE \E m \in D : g[m] = x
      OBVIOUS
    <3>2. x \in S /\ x # s[n] /\ s[n] \in S
      BY <1>1 DEF IsOrder
    <3>3. PICK m \in 1 .. Len(s) : s[m] = x
      BY <3>2
    <3>4. ~(n < m)
      <4>1. SUFFICES ASSUME n < m PROVE FALSE
        OBVIOUS
      <4>2. s[n] \in before[x]
        BY <3>3, <4>1
      <4>3. before[s[n]] \subseteq before[x]
        BY <3>2, <4>2 DEF IsOrder
      <4>4. QED BY <3>1, <3>2, <4>3 DEF IsOrder
    <3>5. m \in D
      BY <1>1, <3>2, <3>3, <3>4
    <3>6. QED BY <3>3, <3>5
  <2>3. g \in [D -> before[s[n]]]
    BY <1>1, <2>1
  <2>4. \A i, j \in D : g[i] = g[j] => i = j
    BY <1>2, <2>1
  <2>5. g \in Bijection(D, before[s[n]])
    BY <2>2, <2>3, <2>4 DEF Bijection, Injection, IsInjective, Surjection
  <2>6. ExistsBijection(1 .. n - 1, before[s[n]])
    BY <2>5 DEF ExistsBijection
  <2>7. QED BY <2>1, <2>6, FS_CountingElements
<1>5. ASSUME NEW n \in 1 .. Len(s) PROVE Listing(before)[n] = s[n]
  <2>1. DOMAIN before = S
    BY DEF IsOrder
  <2>2. Listing(before)[n] = CHOOSE x \in S : Cardinality(before[x]) = n - 1
    BY <1>3, <2>1 DEF Listing
  <2>3. s[n] \in S /\ Cardinality(before[s[n]]) = n - 1
    BY <1>1, <1>4
  <2>4. Listing(before)[n] \in S /\ Cardinality(before[Listing(before)[n]]) = n - 1
    BY <2>2, <2>3
  <2>5. \A x, y \in S : Cardinality(before[x]) = Cardinality(before[y]) => x = y
    BY PlacesInOrder
  <2>6. QED BY ONLY <2>3, <2>4, <2>5
<1>6. Listing(before) \in [1 .. Len(s) -> S]
  BY <1>3, ListingIsInOrder
<1>7. QED BY <1>1, <1>5, <1>6

-----------------------------------------------------------------------------
(* The clustering *)

Rows == [content_hash: Hashes, copy: Nat]

\* A cluster after n rows of the inner loop: its seed first, then rows near the seed whose contents
\* are not taken; each content once; and of those n rows all that could join.
Gathered(cluster, seed, items, taken, n) ==
    /\ cluster \in Seq(Rows) /\ Len(cluster) > 0 /\ cluster[1] = seed
    /\ \A k \in 2 .. Len(cluster) :
          /\ \E i \in 1 .. n : cluster[k] = items[i]
          /\ cluster[k].content_hash \notin taken
          /\ Dist[seed.content_hash, cluster[k].content_hash] <= Threshold
    /\ \A j, k \in 1 .. Len(cluster) : cluster[j].content_hash = cluster[k].content_hash => j = k
    /\ \A i \in 1 .. n :
          \/ items[i].content_hash \in taken \cup ContentsOf(cluster)
          \/ Dist[seed.content_hash, items[i].content_hash] > Threshold

LEMMA AppendAdds ==
  ASSUME NEW S, NEW s \in Seq(S), NEW x \in S
  PROVE  /\ Append(s, x) \in Seq(S) /\ Len(Append(s, x)) = Len(s) + 1
         /\ DOMAIN Append(s, x) = 1 .. Len(s) + 1 /\ DOMAIN s = 1 .. Len(s) /\ Len(s) \in Nat
         /\ \A k \in 1 .. Len(s) : Append(s, x)[k] = s[k]
         /\ Append(s, x)[Len(s) + 1] = x
  OBVIOUS

LEMMA ContentsGrow ==
  ASSUME NEW cluster \in Seq(Rows), NEW row \in Rows
  PROVE  ContentsOf(Append(cluster, row)) = ContentsOf(cluster) \cup {row.content_hash}
<1> DEFINE new == Append(cluster, row)
<1>1. /\ DOMAIN new = 1 .. Len(cluster) + 1 /\ DOMAIN cluster = 1 .. Len(cluster)
      /\ Len(cluster) \in Nat /\ new[Len(cluster) + 1] = row
      /\ \A k \in 1 .. Len(cluster) : new[k] = cluster[k]
  BY AppendAdds
<1>2. 1 .. Len(cluster) + 1 = (1 .. Len(cluster)) \cup {Len(cluster) + 1}
  BY <1>1
<1> HIDE DEF new
<1>3. ContentsOf(new) = ContentsOf(cluster) \cup {row.content_hash}
  BY <1>1, <1>2 DEF ContentsOf
<1>4. QED BY <1>3 DEF new

\* A distance, and the threshold, are numbers.
LEMMA Distances ==
  /\ \A g, h \in Hashes : Dist[g, h] \in Nat
  /\ Threshold \in Int /\ Hashes \subseteq Nat
  /\ \A g, h \in Hashes : Dist[g, h] > Threshold \/ Dist[g, h] <= Threshold
<1>1. \A d \in Nat, t \in Int : d > t \/ d <= t
  OBVIOUS
<1>2. (\A g, h \in Hashes : Dist[g, h] \in Nat) /\ Threshold \in Int /\ Hashes \subseteq Nat
  BY ContentAssumption, DiscoveryAssumption
<1>3. QED BY <1>1, <1>2, Zenon

LEMMA AbsorbKeeps ==
  ASSUME NEW items \in Seq(Rows), NEW seed \in Rows, NEW taken, NEW n \in 1 .. Len(items),
         NEW cluster, Gathered(cluster, seed, items, taken, n - 1)
  PROVE  Gathered(Absorb(cluster, items[n], taken), seed, items, taken, n)
<1> DEFINE row == items[n]
<1>1. /\ n \in Nat /\ row \in Rows /\ row.content_hash \in Hashes /\ seed.content_hash \in Hashes
      /\ \A i \in 1 .. n : i \in 1 .. n - 1 \/ i = n
      /\ \A i \in 1 .. n - 1 : i \in 1 .. n
  <2>1. n \in Nat /\ row \in Rows
    OBVIOUS
  <2>2. row.content_hash \in Hashes /\ seed.content_hash \in Hashes
    BY <2>1 DEF Rows
  <2>3. (\A i \in 1 .. n : i \in 1 .. n - 1 \/ i = n) /\ \A i \in 1 .. n - 1 : i \in 1 .. n
    BY ONLY <2>1
  <2>4. QED BY <2>1, <2>2, <2>3
<1>2. /\ cluster \in Seq(Rows) /\ Len(cluster) \in Nat /\ Len(cluster) > 0 /\ cluster[1] = seed
      /\ DOMAIN cluster = 1 .. Len(cluster)
  <2>1. cluster \in Seq(Rows) /\ Len(cluster) > 0 /\ cluster[1] = seed
    BY DEF Gathered
  <2>2. Len(cluster) \in Nat /\ DOMAIN cluster = 1 .. Len(cluster)
    BY <2>1
  <2>3. QED BY <2>1, <2>2
<1>3. \/ Dist[seed.content_hash, row.content_hash] > Threshold
      \/ Dist[seed.content_hash, row.content_hash] <= Threshold
  BY <1>1, Distances
<1>4. CASE \/ row.content_hash \in taken \cup ContentsOf(cluster)
           \/ Dist[seed.content_hash, row.content_hash] > Threshold
  <2>1. Absorb(cluster, row, taken) = cluster
    BY <1>2, <1>4 DEF Absorb
  <2> HIDE DEF row
  <2>2. Gathered(cluster, seed, items, taken, n)
    BY <1>1, <1>4 DEF Gathered, row
  <2>3. QED BY <2>1, <2>2 DEF row
<1>5. CASE /\ row.content_hash \notin taken \cup ContentsOf(cluster)
           /\ ~(Dist[seed.content_hash, row.content_hash] > Threshold)
  <2> DEFINE new == Append(cluster, row)
  <2>1. Absorb(cluster, row, taken) = new
    BY <1>2, <1>5 DEF Absorb
  <2>2. /\ new \in Seq(Rows) /\ Len(new) = Len(cluster) + 1 /\ new[Len(cluster) + 1] = row
        /\ \A k \in 1 .. Len(cluster) : new[k] = cluster[k]
    BY <1>1, <1>2, AppendAdds
  <2>3. ContentsOf(new) = ContentsOf(cluster) \cup {row.content_hash}
    BY <1>1, <1>2, ContentsGrow
  <2>4. \A k \in 1 .. Len(new) : k \in 1 .. Len(cluster) \/ k = Len(cluster) + 1
    BY <1>2, <2>2
  <2>5. \A k \in 1 .. Len(cluster) : cluster[k].content_hash # row.content_hash
    BY <1>2, <1>5 DEF ContentsOf
  <2> HIDE DEF new, row
  <2>6. new[1] = seed /\ Len(new) > 0
    BY <1>2, <2>2
  <2>7. ASSUME NEW k \in 2 .. Len(new)
        PROVE  /\ \E i \in 1 .. n : new[k] = items[i]
               /\ new[k].content_hash \notin taken
               /\ Dist[seed.content_hash, new[k].content_hash] <= Threshold
    <3>1. CASE k \in 2 .. Len(cluster)
      <4>1. k \in 1 .. Len(cluster)
        BY <1>2, <3>1
      <4>2. new[k] = cluster[k]
        BY <2>2, <4>1
      <4>3. QED BY <1>1, <3>1, <4>2 DEF Gathered
    <3>2. CASE k = Len(cluster) + 1
      <4>1. new[k] = row /\ n \in 1 .. n
        BY <1>1, <2>2, <3>2
      <4>2. new[k].content_hash \notin taken /\ new[k] = items[n]
        BY <1>5, <4>1 DEF row
      <4>3. Dist[seed.content_hash, row.content_hash] <= Threshold
        BY <1>3, <1>5
      <4>4. Dist[seed.content_hash, new[k].content_hash] <= Threshold
        BY <4>1, <4>3
      <4>5. QED BY <4>1, <4>2, <4>4
    <3>3. k \in 2 .. Len(cluster) \/ k = Len(cluster) + 1
      BY <1>2, <2>2
    <3>4. QED BY <3>1, <3>2, <3>3
  <2>8. ASSUME NEW j \in 1 .. Len(new), NEW k \in 1 .. Len(new),
               new[j].content_hash = new[k].content_hash
        PROVE  j = k
    BY <2>2, <2>4, <2>5, <2>8 DEF Gathered
  <2>9. ASSUME NEW i \in 1 .. n
        PROVE  \/ items[i].content_hash \in taken \cup ContentsOf(new)
               \/ Dist[seed.content_hash, items[i].content_hash] > Threshold
    BY <1>1, <2>3 DEF Gathered, row
  <2>10. Gathered(new, seed, items, taken, n)
    BY <2>2, <2>6, <2>7, <2>8, <2>9 DEF Gathered
  <2>11. QED BY <2>1, <2>10 DEF row
<1>6. QED BY <1>4, <1>5

\* The inner loop, round by round.
GatherTrace(f, items, seed, taken) ==
    /\ f[0] = <<seed>>
    /\ \A n \in 1 .. Len(items) : f[n] = Absorb(f[n - 1], items[n], taken)
    /\ Gather(seed, items, taken) = f[Len(items)]

LEMMA GatherIsALoop ==
  ASSUME NEW items \in Seq(Rows), NEW seed \in Rows, NEW taken
  PROVE  \E f : GatherTrace(f, items, seed, taken)
<1> DEFINE N == Len(items)
           S == Seq(Rows)
           start == <<seed>>
           Round(g, n) == IF n = 0 THEN <<seed>> ELSE Absorb(g[n - 1], items[n], taken)
           Loops(g) == g = [n \in 0 .. N |-> Round(g, n)]
           f == CHOOSE g : Loops(g)
           step == [n \in 1 .. N |-> [c \in S |-> Absorb(c, items[n], taken)]]
<1>1. N \in Nat /\ start \in S /\ \A n \in 1 .. N : items[n] \in Rows
  OBVIOUS
<1>2. ASSUME NEW n \in 1 .. N, NEW c \in S PROVE Absorb(c, items[n], taken) \in S
  BY <1>1, AppendAdds DEF Absorb
<1>3. Gather(seed, items, taken) = f[N]
  BY DEF Gather
<1> HIDE DEF N, S, start
<1>4. step \in [1 .. N -> [S -> S]]
  BY <1>2
<1>5. ASSUME NEW n \in 1 .. N, NEW c \in S PROVE step[n][c] = Absorb(c, items[n], taken)
  OBVIOUS
<1> HIDE DEF step
<1>6. PICK t \in [0 .. N -> S] : t[0] = start /\ \A n \in 1 .. N : t[n] = step[n][t[n - 1]]
  <2>1. Traces(N, S, start, step) # {}
    BY <1>1, <1>4, LoopTrace
  <2>2. QED BY <2>1 DEF Traces
<1>7. ASSUME NEW n \in 0 .. N PROVE t[n] = Round(t, n)
  <2>1. CASE n = 0
    BY <1>6, <2>1 DEF start
  <2>2. CASE n # 0
    <3>1. n \in 1 .. N /\ n - 1 \in 0 .. N
      BY <1>1, <2>2
    <3>2. t[n] = step[n][t[n - 1]] /\ t[n - 1] \in S
      BY <1>6, <3>1
    <3>3. QED BY <1>5, <2>2, <3>1, <3>2
  <2>3. QED BY <2>1, <2>2
<1> HIDE DEF Round
<1>8. Loops(t)
  BY <1>7
<1>9. Loops(f)
  <2> HIDE DEF Loops
  <2>1. QED BY <1>8
<1> HIDE DEF f
<1>10. ASSUME NEW n \in 0 .. N PROVE f[n] = Round(f, n)
  BY <1>9
<1>11. f[0] = <<seed>>
  <2>1. 0 \in 0 .. N
    BY <1>1
  <2>2. QED BY <1>10, <2>1 DEF Round
<1>12. ASSUME NEW n \in 1 .. N PROVE f[n] = Absorb(f[n - 1], items[n], taken)
  <2>1. n \in 0 .. N /\ n # 0
    BY <1>1
  <2>2. QED BY <1>10, <2>1 DEF Round
<1>13. GatherTrace(f, items, seed, taken)
  BY <1>3, <1>11, <1>12 DEF GatherTrace, N
<1>14. QED BY <1>13

LEMMA GatherGathers ==
  ASSUME NEW items \in Seq(Rows), NEW seed \in Rows, NEW taken
  PROVE  Gathered(Gather(seed, items, taken), seed, items, taken, Len(items))
<1>0. PICK f : GatherTrace(f, items, seed, taken)
  BY GatherIsALoop
<1>1. /\ f[0] = <<seed>>
      /\ \A n \in 1 .. Len(items) : f[n] = Absorb(f[n - 1], items[n], taken)
      /\ Gather(seed, items, taken) = f[Len(items)]
  BY <1>0 DEF GatherTrace
<1> DEFINE G == {n \in 0 .. Len(items) : Gathered(f[n], seed, items, taken, n)}
<1>2. Len(items) \in Nat
  OBVIOUS
<1>3. 0 \in G
  <2>1. <<seed>> \in Seq(Rows) /\ Len(<<seed>>) = 1 /\ <<seed>>[1] = seed
    OBVIOUS
  <2>2. Gathered(<<seed>>, seed, items, taken, 0)
    BY <2>1 DEF Gathered
  <2>3. QED BY <1>1, <1>2, <2>2
<1>4. ASSUME NEW n \in 1 .. Len(items), n - 1 \in G PROVE n \in G
  <2>1. Gathered(f[n - 1], seed, items, taken, n - 1)
    BY <1>4
  <2>2. Gathered(f[n], seed, items, taken, n)
    BY <1>1, <2>1, AbsorbKeeps
  <2>3. QED BY <1>2, <2>2
<1>5. 0 .. Len(items) \subseteq G
  <2> HIDE DEF G
  <2>1. QED BY <1>2, <1>3, <1>4, CountingUp
<1>6. QED BY <1>1, <1>2, <1>5

\* A cluster that the first n rows of the outer loop may have started: the rows behind its seed come
\* after it, are near it, and each content is there once.
Led(cluster, items, n) ==
    /\ Len(cluster) > 0
    /\ \E i \in 1 .. n :
          /\ cluster[1] = items[i]
          /\ \A k \in 2 .. Len(cluster) : \E j \in i + 1 .. Len(items) : cluster[k] = items[j]
    /\ \A k \in 2 .. Len(cluster) :
          Dist[cluster[1].content_hash, cluster[k].content_hash] <= Threshold
    /\ \A j, k \in 1 .. Len(cluster) : cluster[j].content_hash = cluster[k].content_hash => j = k

\* An earlier cluster and a later one share no content, and the earlier one's seed was too far from
\* what the later one holds.
Apart(first, second, items) ==
    /\ ContentsOf(first) \cap ContentsOf(second) = {}
    /\ \A k \in 1 .. Len(second) : Dist[first[1].content_hash, second[k].content_hash] > Threshold
    /\ \E i, j \in 1 .. Len(items) : i < j /\ first[1] = items[i] /\ second[1] = items[j]

\* After n rows of the outer loop, these are assigned, and what is not is too far from every seed.
Clustered(clusters, items, n) ==
    /\ clusters \in Seq(Seq(Rows))
    /\ \A a \in 1 .. Len(clusters) : Led(clusters[a], items, n)
    /\ \A a, b \in 1 .. Len(clusters) : a < b => Apart(clusters[a], clusters[b], items)
    /\ \A i \in 1 .. n : items[i].content_hash \in Assigned(clusters)
    /\ \A a \in 1 .. Len(clusters), i \in 1 .. Len(items) :
          \/ items[i].content_hash \in Assigned(clusters)
          \/ Dist[clusters[a][1].content_hash, items[i].content_hash] > Threshold

LEMMA AssignedGrows ==
  ASSUME NEW clusters \in Seq(Seq(Rows)), NEW cluster \in Seq(Rows)
  PROVE  Assigned(Append(clusters, cluster)) = Assigned(clusters) \cup ContentsOf(cluster)
<1> DEFINE new == Append(clusters, cluster)
           S == Seq(Rows)
<1>1. /\ DOMAIN new = 1 .. Len(clusters) + 1 /\ DOMAIN clusters = 1 .. Len(clusters)
      /\ Len(clusters) \in Nat /\ new[Len(clusters) + 1] = cluster
      /\ \A a \in 1 .. Len(clusters) : new[a] = clusters[a]
  <2> HIDE DEF S
  <2>1. clusters \in Seq(S) /\ cluster \in S
    BY DEF S
  <2>2. QED BY <2>1, AppendAdds
<1>2. 1 .. Len(clusters) + 1 = (1 .. Len(clusters)) \cup {Len(clusters) + 1}
  BY <1>1
<1> HIDE DEF new
<1>3. Assigned(new) = Assigned(clusters) \cup ContentsOf(cluster)
  BY <1>1, <1>2 DEF Assigned
<1>4. QED BY <1>3 DEF new

LEMMA StartKeeps ==
  ASSUME NEW items \in Seq(Rows), NEW n \in 1 .. Len(items),
         NEW clusters, Clustered(clusters, items, n - 1)
  PROVE  Clustered(Start(clusters, items[n], items), items, n)
<1> DEFINE seed == items[n]
           taken == Assigned(clusters)
<1>1. /\ n \in Nat /\ seed \in Rows /\ Len(items) \in Nat
      /\ \A i \in 1 .. n : i \in 1 .. n - 1 \/ i = n
      /\ \A i \in 1 .. n - 1 : i \in 1 .. n
  <2>1. n \in Nat /\ seed \in Rows /\ Len(items) \in Nat
    OBVIOUS
  <2>2. (\A i \in 1 .. n : i \in 1 .. n - 1 \/ i = n) /\ \A i \in 1 .. n - 1 : i \in 1 .. n
    BY ONLY <2>1
  <2>3. QED BY <2>1, <2>2
<1>2. clusters \in Seq(Seq(Rows)) /\ Len(clusters) \in Nat
  <2>1. clusters \in Seq(Seq(Rows))
    BY DEF Clustered
  <2>2. QED BY <2>1
<1>3. \A a \in 1 .. Len(clusters) : Led(clusters[a], items, n)
  <2>1. \A a \in 1 .. Len(clusters) : Led(clusters[a], items, n - 1)
    BY DEF Clustered
  <2>2. ASSUME NEW cluster, Led(cluster, items, n - 1) PROVE Led(cluster, items, n)
    BY <1>1, <2>2 DEF Led
  <2>3. QED BY <2>1, <2>2
<1>4. CASE seed.content_hash \in taken
  <2>1. Start(clusters, seed, items) = clusters
    BY <1>4 DEF Start
  <2>2. \A i \in 1 .. n : items[i].content_hash \in Assigned(clusters)
    BY <1>1, <1>4 DEF Clustered
  <2>3. Clustered(clusters, items, n)
    BY <1>3, <2>2 DEF Clustered
  <2>4. QED BY <2>1, <2>3
<1>5. CASE seed.content_hash \notin taken
  <2> DEFINE K == Gather(seed, items, taken)
             new == Append(clusters, K)
             N == Len(clusters)
  <2>1. Start(clusters, seed, items) = new
    BY <1>5 DEF Start
  <2>2. Gathered(K, seed, items, taken, Len(items))
    BY <1>1, GatherGathers
  <2> HIDE DEF K, seed
  <2>3. K \in Seq(Rows) /\ Len(K) > 0 /\ K[1] = seed /\ DOMAIN K = 1 .. Len(K) /\ Len(K) \in Nat
    <3>1. K \in Seq(Rows) /\ Len(K) > 0 /\ K[1] = seed
      BY <2>2 DEF Gathered
    <3>2. QED BY <3>1
  <2>4. /\ new \in Seq(Seq(Rows)) /\ Len(new) = N + 1 /\ new[N + 1] = K
        /\ \A a \in 1 .. N : new[a] = clusters[a]
    <3> DEFINE S == Seq(Rows)
    <3> HIDE DEF S
    <3>1. clusters \in Seq(S) /\ K \in S
      BY <1>2, <2>3 DEF S
    <3>2. /\ new \in Seq(S) /\ Len(new) = N + 1 /\ new[N + 1] = K
          /\ \A a \in 1 .. N : new[a] = clusters[a]
      BY <3>1, AppendAdds
    <3>3. QED BY <3>2 DEF S
  <2>5. Assigned(new) = taken \cup ContentsOf(K)
    BY <1>2, <2>3, AssignedGrows
  <2>6. \A a \in 1 .. Len(new) : a \in 1 .. N \/ a = N + 1
    BY <1>2, <2>4
  <2>7. ASSUME NEW k \in 1 .. Len(K)
        PROVE  /\ K[k].content_hash \notin taken
               /\ \E i \in 1 .. Len(items) : K[k] = items[i]
    <3>1. CASE k = 1
      BY <1>5, <2>3, <3>1 DEF seed
    <3>2. CASE k \in 2 .. Len(K)
      BY <2>2, <3>2 DEF Gathered
    <3>3. QED BY <2>3, <3>1, <3>2
  <2>8. Led(K, items, n)
    <3>1. ASSUME NEW k \in 2 .. Len(K) PROVE \E j \in n + 1 .. Len(items) : K[k] = items[j]
      <4>1. k \in 1 .. Len(K) /\ 1 \in 1 .. Len(K) /\ k # 1
        BY <2>3
      <4>2. PICK j \in 1 .. Len(items) : K[k] = items[j]
        BY <2>7, <4>1
      <4>3. j \notin 1 .. n - 1
        BY <2>7, <4>1, <4>2 DEF Clustered
      <4>4. K[k].content_hash # K[1].content_hash
        BY <2>2, <4>1 DEF Gathered
      <4>5. j # n
        BY <2>3, <4>2, <4>4 DEF seed
      <4>6. j \in n + 1 .. Len(items)
        BY <1>1, <4>3, <4>5
      <4>7. QED BY <4>2, <4>6
    <3>2. n \in 1 .. n /\ K[1] = items[n]
      BY <1>1, <2>3 DEF seed
    <3>3. /\ \A k \in 2 .. Len(K) : Dist[K[1].content_hash, K[k].content_hash] <= Threshold
          /\ \A j, k \in 1 .. Len(K) : K[j].content_hash = K[k].content_hash => j = k
      BY <2>2, <2>3 DEF Gathered
    <3>4. QED BY <2>3, <3>1, <3>2, <3>3 DEF Led
  <2>9. ASSUME NEW a \in 1 .. N PROVE Apart(clusters[a], K, items)
    <3>1. ContentsOf(clusters[a]) \subseteq taken
      <4>1. DOMAIN clusters = 1 .. N
        BY <1>2
      <4>2. QED BY <4>1 DEF Assigned
    <3>2. ContentsOf(clusters[a]) \cap ContentsOf(K) = {}
      BY <2>3, <2>7, <3>1 DEF ContentsOf
    <3>3. ASSUME NEW k \in 1 .. Len(K)
          PROVE  Dist[clusters[a][1].content_hash, K[k].content_hash] > Threshold
      <4>1. PICK i \in 1 .. Len(items) : K[k] = items[i]
        BY <2>7
      <4>2. items[i].content_hash \notin taken
        BY <2>7, <4>1
      <4>3. Dist[clusters[a][1].content_hash, items[i].content_hash] > Threshold
        BY <4>2 DEF Clustered
      <4>4. QED BY <4>1, <4>3
    <3>4. \E i, j \in 1 .. Len(items) : i < j /\ clusters[a][1] = items[i] /\ K[1] = items[j]
      <4>1. Led(clusters[a], items, n - 1)
        BY DEF Clustered
      <4>2. PICK i \in 1 .. n - 1 : clusters[a][1] = items[i]
        BY <4>1 DEF Led
      <4>3. i \in 1 .. Len(items) /\ n \in 1 .. Len(items) /\ i < n
        BY <1>1
      <4>4. QED BY <2>3, <4>2, <4>3 DEF seed
    <3>5. QED BY <3>2, <3>3, <3>4 DEF Apart
  <2> HIDE DEF new, N, taken
  <2>10. \A a \in 1 .. Len(new) : Led(new[a], items, n)
    BY <1>3, <2>4, <2>6, <2>8 DEF N
  <2>11. ASSUME NEW a \in 1 .. Len(new), NEW b \in 1 .. Len(new), a < b
         PROVE  Apart(new[a], new[b], items)
    <3>1. N \in Nat
      BY <1>2 DEF N
    <3>2. a \in 1 .. N
      BY <2>4, <2>6, <2>11, <3>1
    <3>3. CASE b \in 1 .. N
      <4>1. \A c, d \in 1 .. N : c < d => Apart(clusters[c], clusters[d], items)
        BY DEF Clustered, N
      <4>2. new[a] = clusters[a] /\ new[b] = clusters[b]
        BY <2>4, <3>2, <3>3
      <4>3. QED BY <2>11, <3>2, <3>3, <4>1, <4>2
    <3>4. CASE b = N + 1
      BY <2>4, <2>9, <3>2, <3>4
    <3>5. QED BY <2>6, <3>3, <3>4
  <2>12. seed.content_hash \in ContentsOf(K)
    BY <2>3 DEF ContentsOf
  <2>13. \A i \in 1 .. n : items[i].content_hash \in Assigned(new)
    BY <1>1, <2>5, <2>12 DEF Clustered, seed, taken
  <2>14. ASSUME NEW a \in 1 .. Len(new), NEW i \in 1 .. Len(items)
         PROVE  \/ items[i].content_hash \in Assigned(new)
                \/ Dist[new[a][1].content_hash, items[i].content_hash] > Threshold
    <3>1. CASE a \in 1 .. N
      <4>1. \/ items[i].content_hash \in taken
            \/ Dist[clusters[a][1].content_hash, items[i].content_hash] > Threshold
        BY <3>1 DEF Clustered, N, taken
      <4>2. new[a] = clusters[a]
        BY <2>4, <3>1
      <4>3. QED BY <2>5, <4>1, <4>2
    <3>2. CASE a = N + 1
      <4>1. \/ items[i].content_hash \in taken \cup ContentsOf(K)
            \/ Dist[seed.content_hash, items[i].content_hash] > Threshold
        BY <2>2 DEF Gathered
      <4>2. new[a][1] = seed
        BY <2>3, <2>4, <3>2
      <4>3. QED BY <2>5, <4>1, <4>2
    <3>3. QED BY <2>6, <3>1, <3>2
  <2>15. Clustered(new, items, n)
    BY <2>4, <2>10, <2>11, <2>13, <2>14 DEF Clustered
  <2>16. QED BY <2>1, <2>15 DEF seed
<1>6. QED BY <1>4, <1>5

\* The outer loop, round by round.
ClusterTrace(f, items) ==
    /\ f[0] = <<>>
    /\ \A n \in 1 .. Len(items) : f[n] = Start(f[n - 1], items[n], items)
    /\ GreedyCluster(items) = f[Len(items)]

LEMMA ClusterIsALoop ==
  ASSUME NEW items \in Seq(Rows)
  PROVE  \E f : ClusterTrace(f, items)
<1> DEFINE N == Len(items)
           S == Seq(Seq(Rows))
           start == <<>>
           Round(g, n) == IF n = 0 THEN <<>> ELSE Start(g[n - 1], items[n], items)
           Loops(g) == g = [n \in 0 .. N |-> Round(g, n)]
           f == CHOOSE g : Loops(g)
           step == [n \in 1 .. N |-> [c \in S |-> Start(c, items[n], items)]]
<1>1. N \in Nat /\ start \in S /\ \A n \in 1 .. N : items[n] \in Rows
  OBVIOUS
<1>2. ASSUME NEW n \in 1 .. N, NEW c \in S PROVE Start(c, items[n], items) \in S
  <2> DEFINE K == Gather(items[n], items, Assigned(c))
             T == Seq(Rows)
  <2>1. K \in T
    BY <1>1, GatherGathers DEF Gathered
  <2> HIDE DEF K, T
  <2>2. c \in Seq(T)
    BY DEF T
  <2>3. Append(c, K) \in Seq(T)
    BY <2>1, <2>2, AppendAdds
  <2>4. Append(c, K) \in S
    BY <2>3 DEF T
  <2>5. QED BY <2>4 DEF Start, K
<1>3. GreedyCluster(items) = f[N]
  BY DEF GreedyCluster
<1> HIDE DEF N, S, start
<1>4. step \in [1 .. N -> [S -> S]]
  BY <1>2
<1>5. ASSUME NEW n \in 1 .. N, NEW c \in S PROVE step[n][c] = Start(c, items[n], items)
  OBVIOUS
<1> HIDE DEF step
<1>6. PICK t \in [0 .. N -> S] : t[0] = start /\ \A n \in 1 .. N : t[n] = step[n][t[n - 1]]
  <2>1. Traces(N, S, start, step) # {}
    BY <1>1, <1>4, LoopTrace
  <2>2. QED BY <2>1 DEF Traces
<1>7. ASSUME NEW n \in 0 .. N PROVE t[n] = Round(t, n)
  <2>1. CASE n = 0
    BY <1>6, <2>1 DEF start
  <2>2. CASE n # 0
    <3>1. n \in 1 .. N /\ n - 1 \in 0 .. N
      BY <1>1, <2>2
    <3>2. t[n] = step[n][t[n - 1]] /\ t[n - 1] \in S
      BY <1>6, <3>1
    <3>3. QED BY <1>5, <2>2, <3>1, <3>2
  <2>3. QED BY <2>1, <2>2
<1> HIDE DEF Round
<1>8. Loops(t)
  BY <1>7
<1>9. Loops(f)
  <2> HIDE DEF Loops
  <2>1. QED BY <1>8
<1> HIDE DEF f
<1>10. ASSUME NEW n \in 0 .. N PROVE f[n] = Round(f, n)
  BY <1>9
<1>11. f[0] = <<>>
  <2>1. 0 \in 0 .. N
    BY <1>1
  <2>2. QED BY <1>10, <2>1 DEF Round
<1>12. ASSUME NEW n \in 1 .. N PROVE f[n] = Start(f[n - 1], items[n], items)
  <2>1. n \in 0 .. N /\ n # 0
    BY <1>1
  <2>2. QED BY <1>10, <2>1 DEF Round
<1>13. ClusterTrace(f, items)
  BY <1>3, <1>11, <1>12 DEF ClusterTrace, N
<1>14. QED BY <1>13

LEMMA GreedyClusters ==
  ASSUME NEW items \in Seq(Rows)
  PROVE  Clustered(GreedyCluster(items), items, Len(items))
<1>1. PICK f : ClusterTrace(f, items)
  BY ClusterIsALoop
<1>2. /\ f[0] = <<>>
      /\ \A n \in 1 .. Len(items) : f[n] = Start(f[n - 1], items[n], items)
      /\ GreedyCluster(items) = f[Len(items)]
  BY <1>1 DEF ClusterTrace
<1> DEFINE G == {n \in 0 .. Len(items) : Clustered(f[n], items, n)}
<1>3. Len(items) \in Nat
  OBVIOUS
<1>4. 0 \in G
  <2>1. <<>> \in Seq(Seq(Rows)) /\ Len(<<>>) = 0
    OBVIOUS
  <2>2. Clustered(<<>>, items, 0)
    BY <2>1 DEF Clustered
  <2>3. QED BY <1>2, <1>3, <2>2
<1>5. ASSUME NEW n \in 1 .. Len(items), n - 1 \in G PROVE n \in G
  <2>1. Clustered(f[n - 1], items, n - 1)
    BY <1>5
  <2>2. Clustered(f[n], items, n)
    BY <1>2, <2>1, StartKeeps
  <2>3. QED BY <1>3, <2>2
<1>6. 0 .. Len(items) \subseteq G
  <2> HIDE DEF G
  <2>1. QED BY <1>3, <1>4, <1>5, CountingUp
<1>7. QED BY <1>2, <1>3, <1>6

-----------------------------------------------------------------------------
(* What is clustered, and in which order *)

\* Chains of copies lead from contents to contents.
LEMMA OriginIsAContent ==
  ASSUME signal_ratings \in [Hashes -> Hashes \cup {NoRating}]
  PROVE  Origin \in [Hashes -> Hashes]
<1> DEFINE N == Cardinality(Hashes)
           S == [Hashes -> Hashes]
           Next(h) == IF signal_ratings[h] = NoRating THEN h ELSE signal_ratings[h]
           start == [h \in Hashes |-> h]
           Hop(o) == [h \in Hashes |-> Next(o[h])]
           Round(g, n) == IF n = 0 THEN [h \in Hashes |-> h] ELSE [h \in Hashes |-> Next(g[n - 1][h])]
           Loops(g) == g = [n \in 0 .. N |-> Round(g, n)]
           f == CHOOSE g : Loops(g)
           step == [n \in 1 .. N |-> [o \in S |-> Hop(o)]]
<1>1. N \in Nat
  BY DiscoveryAssumption, FS_CardinalityType
<1>2. start \in S /\ \A o \in S : Hop(o) \in S
  OBVIOUS
<1>3. Origin = f[N]
  BY DEF Origin
<1> HIDE DEF N, S, start
<1>4. step \in [1 .. N -> [S -> S]]
  BY <1>2
<1>5. \A n \in 1 .. N, o \in S : step[n][o] = Hop(o)
  OBVIOUS
<1> HIDE DEF step
<1>6. PICK t \in [0 .. N -> S] : t[0] = start /\ \A n \in 1 .. N : t[n] = step[n][t[n - 1]]
  <2>1. Traces(N, S, start, step) # {}
    BY <1>1, <1>2, <1>4, LoopTrace
  <2>2. QED BY <2>1 DEF Traces
<1>7. ASSUME NEW n \in 0 .. N PROVE t[n] = Round(t, n)
  <2>1. CASE n = 0
    BY <1>6, <2>1 DEF start
  <2>2. CASE n # 0
    <3>1. n \in 1 .. N /\ n - 1 \in 0 .. N
      BY <1>1, <2>2
    <3>2. t[n] = step[n][t[n - 1]] /\ t[n - 1] \in S
      BY <1>6, <3>1
    <3>3. t[n] = Hop(t[n - 1])
      BY <1>5, <3>1, <3>2
    <3>4. QED BY <2>2, <3>3
  <2>3. QED BY <2>1, <2>2
<1> HIDE DEF Round
<1>8. Loops(t)
  BY <1>7
<1>9. Loops(f)
  <2> HIDE DEF Loops
  <2>1. QED BY <1>8
<1> HIDE DEF f
<1>10. ASSUME NEW n \in 0 .. N PROVE f[n] = Round(f, n)
  BY <1>9
<1> DEFINE G == {n \in 0 .. N : f[n] \in S}
<1>11. 0 \in G
  <2>1. 0 \in 0 .. N
    BY <1>1
  <2>2. f[0] = Round(f, 0)
    BY <1>10, <2>1
  <2>3. Round(f, 0) = start
    BY DEF Round, start
  <2>4. QED BY <1>2, <2>1, <2>2, <2>3
<1>12. ASSUME NEW n \in 1 .. N, n - 1 \in G PROVE n \in G
  <2>1. n \in 0 .. N /\ n # 0 /\ f[n - 1] \in S
    BY <1>1, <1>12
  <2>2. f[n] = Hop(f[n - 1])
    BY <1>10, <2>1 DEF Round
  <2>3. QED BY <1>2, <2>1, <2>2
<1>13. 0 .. N \subseteq G
  <2> HIDE DEF G
  <2>1. QED BY <1>1, <1>11, <1>12, CountingUp
<1>14. QED BY <1>1, <1>3, <1>13 DEF S

LEMMA RelevanceIsANumber ==
  ASSUME signal_ratings \in [Hashes -> Hashes \cup {NoRating}], NEW h \in Hashes
  PROVE  Relevance(h) \in Int
  BY OriginIsAContent, DiscoveryAssumption DEF Relevance

\* What two rows say of each other (greedy_cluster's sort) is a strict total order.
LEMMA StrongerOrders ==
  ASSUME signal_ratings \in [Hashes -> Hashes \cup {NoRating}]
  PROVE  /\ \A a \in Rows : ~Stronger(a, a)
         /\ \A a, b, c \in Rows : Stronger(a, b) /\ Stronger(b, c) => Stronger(a, c)
         /\ \A a, b \in Rows : a # b => Stronger(a, b) \/ Stronger(b, a)
<1>1. ASSUME NEW a \in Rows
      PROVE  Relevance(a.content_hash) \in Int /\ a.content_hash \in Nat /\ a.copy \in Nat
  BY RelevanceIsANumber, Distances DEF Rows
<1>2. ASSUME NEW a \in Rows PROVE ~Stronger(a, a)
  BY <1>1 DEF Stronger
<1>3. ASSUME NEW a \in Rows, NEW b \in Rows, NEW c \in Rows, Stronger(a, b), Stronger(b, c)
      PROVE  Stronger(a, c)
  BY <1>1, <1>3 DEF Stronger
<1>4. ASSUME NEW a \in Rows, NEW b \in Rows, a # b PROVE Stronger(a, b) \/ Stronger(b, a)
  <2>1. a.content_hash # b.content_hash \/ a.copy # b.copy
    BY <1>4 DEF Rows
  <2>2. QED BY <1>1, <2>1 DEF Stronger
<1>5. QED BY <1>2, <1>3, <1>4

\* The rows of some contents are finitely many; each content has one.
LEMMA RowsOfContents ==
  ASSUME NEW S, signals \subseteq Hashes
  PROVE  /\ RowsFor(S) \subseteq Rows /\ IsFiniteSet(RowsFor(S))
         /\ \A row \in RowsFor(S) : row.content_hash \in S \cap signals
         /\ \A h \in S \cap signals : \E row \in RowsFor(S) : row.content_hash = h
<1> DEFINE Of(h) == {[content_hash |-> h, copy |-> n] : n \in 1 .. Copies[h]}
           All == {Of(h) : h \in S \cap signals}
<1>1. RowsFor(S) = UNION All
  BY DEF RowsFor
<1>2. ASSUME NEW h \in S \cap signals
      PROVE  /\ Of(h) \subseteq Rows /\ IsFiniteSet(Of(h))
             /\ [content_hash |-> h, copy |-> 1] \in Of(h)
  <2>1. h \in Hashes /\ Copies[h] \in Nat \ {0}
    BY DiscoveryAssumption
  <2> DEFINE f == [n \in 1 .. Copies[h] |-> [content_hash |-> h, copy |-> n]]
  <2>2. f \in Surjection(1 .. Copies[h], Of(h))
    BY DEF Surjection
  <2>3. IsFiniteSet(1 .. Copies[h])
    BY <2>1, FS_Interval
  <2>4. IsFiniteSet(Of(h))
    BY <2>2, <2>3, FS_Surjection
  <2>5. QED BY <2>1, <2>4 DEF Rows
<1>3. IsFiniteSet(All)
  <2>1. IsFiniteSet(S \cap signals)
    BY DiscoveryAssumption, FS_Subset
  <2> DEFINE f == [h \in S \cap signals |-> Of(h)]
  <2>2. f \in Surjection(S \cap signals, All)
    BY DEF Surjection
  <2>3. QED BY <2>1, <2>2, FS_Surjection
<1>4. IsFiniteSet(UNION All)
  BY <1>2, <1>3, FS_UNION
<1>5. RowsFor(S) \subseteq Rows
  BY <1>1, <1>2
<1>6. \A row \in RowsFor(S) : row.content_hash \in S \cap signals
  BY <1>1
<1>7. ASSUME NEW h \in S \cap signals PROVE \E row \in RowsFor(S) : row.content_hash = h
  <2> DEFINE row == [content_hash |-> h, copy |-> 1]
  <2>1. row \in Of(h) /\ Of(h) \in All
    BY <1>2
  <2>2. row \in RowsFor(S)
    BY <1>1, <2>1
  <2>3. row.content_hash = h
    OBVIOUS
  <2>4. QED BY <2>2, <2>3
<1>8. QED BY <1>1, <1>4, <1>5, <1>6, <1>7

\* A listing as a sequence.
LEMMA ListingIsASequence ==
  ASSUME NEW S, IsFiniteSet(S), NEW before, IsOrder(before, S)
  PROVE  /\ Listing(before) \in Seq(S)
         /\ \A x \in S : \E n \in 1 .. Len(Listing(before)) : Listing(before)[n] = x
         /\ \A m, n \in 1 .. Len(Listing(before)) :
               m < n => Listing(before)[m] \in before[Listing(before)[n]]
<1> DEFINE s == Listing(before)
<1>1. /\ Cardinality(S) \in Nat
      /\ s \in [1 .. Cardinality(S) -> S]
      /\ \A x \in S : \E n \in 1 .. Cardinality(S) : s[n] = x
      /\ \A m, n \in 1 .. Cardinality(S) : m < n => s[m] \in before[s[n]]
  BY ListingIsInOrder
<1> HIDE DEF s
<1>2. s \in Seq(S) /\ Len(s) = Cardinality(S)
  BY <1>1
<1>3. QED BY <1>1, <1>2 DEF s

\* The rows that are clustered, or shown in the flat list, from the strongest on.
LEMMA RowsInOrder ==
  ASSUME signal_ratings \in [Hashes -> Hashes \cup {NoRating}], signals \subseteq Hashes, NEW S
  PROVE  LET rows == InOrder(RowsFor(S), Stronger) IN
         /\ rows \in Seq(RowsFor(S)) /\ rows \in Seq(Rows)
         /\ \A row \in RowsFor(S) : \E n \in 1 .. Len(rows) : rows[n] = row
         /\ \A m, n \in 1 .. Len(rows) : m < n => Stronger(rows[m], rows[n])
<1> DEFINE R == RowsFor(S)
           before == [x \in R |-> {y \in R : Stronger(y, x)}]
<1>1. R \subseteq Rows /\ IsFiniteSet(R)
  BY RowsOfContents
<1> HIDE DEF R
<1>2. IsOrder(before, R)
  <2>1. /\ \A a \in R : ~Stronger(a, a)
        /\ \A a, b, c \in R : Stronger(a, b) /\ Stronger(b, c) => Stronger(a, c)
        /\ \A a, b \in R : a # b => Stronger(a, b) \/ Stronger(b, a)
    BY <1>1, StrongerOrders
  <2>2. QED BY <2>1 DEF IsOrder
<1>3. InOrder(R, Stronger) = Listing(before)
  BY DEF InOrder
<1> DEFINE rows == Listing(before)
<1>4. /\ rows \in Seq(R)
      /\ \A x \in R : \E n \in 1 .. Len(rows) : rows[n] = x
      /\ \A m, n \in 1 .. Len(rows) : m < n => rows[m] \in before[rows[n]]
  <2> HIDE DEF before
  <2>1. QED BY <1>1, <1>2, ListingIsASequence
<1> HIDE DEF rows
<1>5. ASSUME NEW m \in 1 .. Len(rows), NEW n \in 1 .. Len(rows), m < n
      PROVE  Stronger(rows[m], rows[n])
  <2>1. rows[n] \in R
    BY <1>4
  <2>2. rows[m] \in before[rows[n]]
    <3> HIDE DEF before
    <3>1. QED BY <1>4, <1>5
  <2>3. QED BY <2>1, <2>2
<1>6. rows \in Seq(Rows)
  BY <1>1, <1>4
<1>7. QED BY <1>3, <1>4, <1>5, <1>6 DEF rows, R

LEMMA TopOf ==
  ASSUME NEW S, NEW s \in Seq(S), NEW n \in Nat
  PROVE  /\ Top(s, n) \in Seq(S)
         /\ Len(Top(s, n)) = IF Len(s) < n THEN Len(s) ELSE n
         /\ \A i \in 1 .. Len(Top(s, n)) : i \in 1 .. Len(s) /\ Top(s, n)[i] = s[i]
  BY DEF Top

-----------------------------------------------------------------------------
(* The themes *)

\* The relevance of a cluster adds up to a number.
LEMMA TotalIsANumber ==
  ASSUME signal_ratings \in [Hashes -> Hashes \cup {NoRating}], NEW cluster \in Seq(Rows)
  PROVE  TotalRelevance(cluster) \in Int
<1> DEFINE N == Len(cluster)
           relevance(n) == Relevance(cluster[n].content_hash)
           Round(g, n) == IF n = 0 THEN 0 ELSE g[n - 1] + Relevance(cluster[n].content_hash)
           Loops(g) == g = [n \in 0 .. N |-> Round(g, n)]
           f == CHOOSE g : Loops(g)
           step == [n \in 1 .. N |-> [c \in Int |-> c + relevance(n)]]
<1>1. N \in Nat /\ 0 \in Int /\ 0 \in 0 .. N
  OBVIOUS
<1>2. ASSUME NEW n \in 1 .. N PROVE relevance(n) \in Int
  <2>1. cluster[n] \in Rows
    OBVIOUS
  <2>2. cluster[n].content_hash \in Hashes
    BY <2>1 DEF Rows
  <2>3. QED BY <2>2, RelevanceIsANumber
<1>3. TotalRelevance(cluster) = f[N]
  BY DEF TotalRelevance
<1> HIDE DEF N, relevance
<1>4. step \in [1 .. N -> [Int -> Int]]
  BY <1>2
<1>5. \A n \in 1 .. N, c \in Int : step[n][c] = c + relevance(n)
  OBVIOUS
<1> HIDE DEF step
<1>6. PICK t \in [0 .. N -> Int] : t[0] = 0 /\ \A n \in 1 .. N : t[n] = step[n][t[n - 1]]
  <2>1. Traces(N, Int, 0, step) # {}
    BY <1>1, <1>4, LoopTrace
  <2>2. QED BY <2>1 DEF Traces
<1>7. ASSUME NEW n \in 0 .. N PROVE t[n] = Round(t, n)
  <2>1. CASE n = 0
    BY <1>6, <2>1
  <2>2. CASE n # 0
    <3>1. n \in 1 .. N /\ n - 1 \in 0 .. N
      BY <1>1, <2>2
    <3>2. t[n] = step[n][t[n - 1]] /\ t[n - 1] \in Int
      BY <1>6, <3>1
    <3>3. t[n] = t[n - 1] + relevance(n)
      BY <1>5, <3>1, <3>2
    <3>4. QED BY <2>2, <3>3 DEF relevance
  <2>3. QED BY <2>1, <2>2
<1> HIDE DEF Round
<1>8. Loops(t)
  BY <1>7
<1>9. Loops(f)
  <2> HIDE DEF Loops
  <2>1. QED BY <1>8
<1> HIDE DEF f
<1>10. ASSUME NEW n \in 0 .. N PROVE f[n] = Round(f, n)
  BY <1>9
<1> DEFINE G == {n \in 0 .. N : f[n] \in Int}
<1>11. 0 \in G
  <2>1. f[0] = Round(f, 0)
    BY <1>1, <1>10
  <2>2. Round(f, 0) = 0
    BY DEF Round
  <2>3. QED BY <1>1, <2>1, <2>2
<1>12. ASSUME NEW n \in 1 .. N, n - 1 \in G PROVE n \in G
  <2>1. n \in 0 .. N /\ n # 0 /\ f[n - 1] \in Int
    BY <1>1, <1>12
  <2>2. f[n] = Round(f, n)
    BY <1>10, <2>1
  <2>3. Round(f, n) = f[n - 1] + relevance(n)
    BY <2>1 DEF Round, relevance
  <2>4. QED BY <1>2, <2>1, <2>2, <2>3
<1>13. 0 .. N \subseteq G
  <2> HIDE DEF G
  <2>1. QED BY <1>1, <1>11, <1>12, CountingUp
<1>14. QED BY <1>1, <1>3, <1>13

\* The order of the themes (get_signal_clusters' sort) is strict and total on clusters whose
\* representatives differ, and puts the bigger first.
LEMMA MoreProminentOrders ==
  ASSUME signal_ratings \in [Hashes -> Hashes \cup {NoRating}],
         NEW K, K \subseteq Seq(Rows), \A c \in K : Len(c) > 0,
         \A c, d \in K : c # d => c[1].content_hash # d[1].content_hash
  PROVE  /\ \A c \in K : ~MoreProminent(c, c)
         /\ \A c, d, e \in K : MoreProminent(c, d) /\ MoreProminent(d, e) => MoreProminent(c, e)
         /\ \A c, d \in K : c # d => MoreProminent(c, d) \/ MoreProminent(d, c)
         /\ \A c, d \in K : MoreProminent(c, d) => Len(c) >= Len(d)
<1> DEFINE size(c) == Len(c)
           weight(c) == TotalRelevance(c) * Len(c)
           lead(c) == c[1].content_hash
           More(c, d) == \/ size(c) > size(d)
                         \/ size(c) = size(d) /\ weight(c) > weight(d)
                         \/ size(c) = size(d) /\ weight(c) = weight(d) /\ lead(c) < lead(d)
<1>1. ASSUME NEW c \in K
      PROVE  size(c) \in Nat /\ weight(c) \in Int /\ lead(c) \in Nat
  <2>1. c \in Seq(Rows) /\ Len(c) > 0
    OBVIOUS
  <2>2. Len(c) \in Nat /\ c[1] \in Rows
    BY <2>1
  <2>3. TotalRelevance(c) \in Int
    BY <2>1, TotalIsANumber
  <2>4. c[1].content_hash \in Nat
    BY <2>2, Distances DEF Rows
  <2>5. \A a \in Int, b \in Nat : a * b \in Int
    OBVIOUS
  <2>6. QED BY <2>2, <2>3, <2>4, <2>5
<1>2. ASSUME NEW c \in K, NEW d \in K PROVE MoreProminent(c, d) <=> More(c, d)
  BY DEF MoreProminent
<1>3. \A c, d \in K : c # d => lead(c) # lead(d)
  OBVIOUS
<1> HIDE DEF size, weight, lead
<1>4. \A c \in K : ~More(c, c)
  BY <1>1
<1>5. ASSUME NEW c \in K, NEW d \in K, NEW e \in K, More(c, d), More(d, e) PROVE More(c, e)
  BY <1>1, <1>5
<1>6. ASSUME NEW c \in K, NEW d \in K, c # d PROVE More(c, d) \/ More(d, c)
  BY <1>1, <1>3, <1>6
<1>7. ASSUME NEW c \in K, NEW d \in K, More(c, d) PROVE size(c) >= size(d)
  BY <1>1, <1>7
<1> HIDE DEF More
<1>8. \A c, d \in K : MoreProminent(c, d) => Len(c) >= Len(d)
  BY <1>2, <1>7 DEF size
<1>9. QED BY <1>2, <1>4, <1>5, <1>6, <1>8

\* What ThemesAreRight calls stronger: a content is, whichever copies are compared.
Outranks(g, h) == Stronger([content_hash |-> g, copy |-> 1], [content_hash |-> h, copy |-> 1])

LEMMA CopiesDoNotMatter ==
  ASSUME NEW a \in Rows, NEW b \in Rows, Stronger(a, b), a.content_hash # b.content_hash
  PROVE  Outranks(a.content_hash, b.content_hash)
  BY DEF Stronger, Outranks

LEMMA OutranksIsOneWay ==
  ASSUME signal_ratings \in [Hashes -> Hashes \cup {NoRating}], NEW g \in Hashes, NEW h \in Hashes,
         Outranks(g, h)
  PROVE  ~Outranks(h, g)
<1> DEFINE a == [content_hash |-> g, copy |-> 1]
           b == [content_hash |-> h, copy |-> 1]
<1>1. a \in Rows /\ b \in Rows
  BY DEF Rows
<1> HIDE DEF a, b
<1>2. ~(Stronger(a, b) /\ Stronger(b, a))
  BY <1>1, StrongerOrders
<1>3. QED BY <1>2 DEF Outranks, a, b

\* Rows that are sorted, the strongest first.
Sorted(items) ==
    /\ items \in Seq(Rows)
    /\ \A i, j \in 1 .. Len(items) : i < j => Stronger(items[i], items[j])

\* One cluster of sorted rows: its contents are counted by its rows, and its seed is near each of
\* the others and stronger.
LEMMA OneCluster ==
  ASSUME NEW items, Sorted(items), NEW c \in Seq(Rows), Led(c, items, Len(items))
  PROVE  /\ c[1] \in Rows
         /\ Cardinality(ContentsOf(c)) = Len(c)
         /\ \A h \in ContentsOf(c) : \E i \in 1 .. Len(items) : items[i].content_hash = h
         /\ \A h \in ContentsOf(c) \ {c[1].content_hash} :
               Dist[c[1].content_hash, h] <= Threshold /\ Outranks(c[1].content_hash, h)
<1>1. Len(c) \in Nat /\ Len(c) > 0 /\ DOMAIN c = 1 .. Len(c) /\ Len(items) \in Nat
  <2>1. items \in Seq(Rows)
    BY DEF Sorted
  <2>2. Len(c) > 0
    BY DEF Led
  <2>3. QED BY <2>1, <2>2
<1>2. PICK i \in 1 .. Len(items) :
        /\ c[1] = items[i]
        /\ \A k \in 2 .. Len(c) : \E j \in i + 1 .. Len(items) : c[k] = items[j]
  BY DEF Led
<1>3. \A k \in 1 .. Len(c) : c[k] \in Rows
  BY <1>1
<1>4. ContentsOf(c) = {c[k].content_hash : k \in 1 .. Len(c)}
  BY <1>1 DEF ContentsOf
<1>5. Cardinality(ContentsOf(c)) = Len(c)
  <2> DEFINE f == [k \in 1 .. Len(c) |-> c[k].content_hash]
             C == ContentsOf(c)
  <2>1. f \in [1 .. Len(c) -> C] /\ \A h \in C : \E k \in 1 .. Len(c) : f[k] = h
    BY <1>4
  <2>2. \A j, k \in 1 .. Len(c) : f[j] = f[k] => j = k
    BY DEF Led
  <2>3. f \in Bijection(1 .. Len(c), C)
    BY <2>1, <2>2 DEF Bijection, Injection, IsInjective, Surjection
  <2>4. ExistsBijection(1 .. Len(c), C)
    BY <2>3 DEF ExistsBijection
  <2>5. QED BY <1>1, <2>4, FS_CountingElements
<1>6. ASSUME NEW h \in ContentsOf(c) PROVE \E j \in 1 .. Len(items) : items[j].content_hash = h
  <2>1. PICK k \in 1 .. Len(c) : c[k].content_hash = h
    BY <1>4
  <2>2. CASE k = 1
    BY <1>2, <2>1, <2>2
  <2>3. CASE k \in 2 .. Len(c)
    <3>1. PICK j \in i + 1 .. Len(items) : c[k] = items[j]
      BY <1>2, <2>3
    <3>2. j \in 1 .. Len(items)
      BY <1>1
    <3>3. QED BY <2>1, <3>1, <3>2
  <2>4. QED BY <1>1, <2>2, <2>3
<1>7. ASSUME NEW h \in ContentsOf(c), h # c[1].content_hash
      PROVE  Dist[c[1].content_hash, h] <= Threshold /\ Outranks(c[1].content_hash, h)
  <2>1. PICK k \in 1 .. Len(c) : c[k].content_hash = h
    BY <1>4
  <2>2. k \in 2 .. Len(c)
    BY <1>1, <1>7, <2>1
  <2>3. Dist[c[1].content_hash, c[k].content_hash] <= Threshold
    BY <2>2 DEF Led
  <2>4. PICK j \in i + 1 .. Len(items) : c[k] = items[j]
    BY <1>2, <2>2
  <2>5. i < j /\ j \in 1 .. Len(items)
    BY <1>1
  <2>6. Stronger(c[1], c[k])
    BY <1>2, <2>4, <2>5 DEF Sorted
  <2>7. c[1] \in Rows /\ c[k] \in Rows /\ c[1].content_hash # c[k].content_hash
    BY <1>1, <1>3, <1>7, <2>1
  <2>8. Outranks(c[1].content_hash, c[k].content_hash)
    BY <2>6, <2>7, CopiesDoNotMatter
  <2>9. QED BY <2>1, <2>3, <2>8
<1>8. c[1] \in Rows
  BY <1>1, <1>3
<1>9. QED BY <1>5, <1>6, <1>7, <1>8

\* What two clusters owe each other: nothing in common, and the stronger seed is too far from what
\* the other one holds.
Distinct(c, d) ==
    /\ ContentsOf(c) \cap ContentsOf(d) = {}
    /\ c[1].content_hash # d[1].content_hash
    /\ Outranks(c[1].content_hash, d[1].content_hash) =>
          \A h \in ContentsOf(d) : Dist[c[1].content_hash, h] > Threshold

LEMMA TwoClusters ==
  ASSUME signal_ratings \in [Hashes -> Hashes \cup {NoRating}], NEW items, Sorted(items),
         NEW c \in Seq(Rows), Len(c) > 0, NEW d \in Seq(Rows), Len(d) > 0, Apart(c, d, items)
  PROVE  Distinct(c, d) /\ Distinct(d, c)
<1>1. /\ DOMAIN c = 1 .. Len(c) /\ 1 \in 1 .. Len(c) /\ c[1] \in Rows
      /\ DOMAIN d = 1 .. Len(d) /\ 1 \in 1 .. Len(d) /\ d[1] \in Rows
  OBVIOUS
<1>2. c[1].content_hash \in ContentsOf(c) /\ d[1].content_hash \in ContentsOf(d)
  BY <1>1 DEF ContentsOf
<1>3. ContentsOf(c) \cap ContentsOf(d) = {} /\ c[1].content_hash # d[1].content_hash
  BY <1>2 DEF Apart
<1>4. \A h \in ContentsOf(d) : Dist[c[1].content_hash, h] > Threshold
  BY <1>1 DEF ContentsOf, Apart
<1>5. Outranks(c[1].content_hash, d[1].content_hash)
  <2>1. Stronger(c[1], d[1])
    BY DEF Apart, Sorted
  <2>2. QED BY <1>1, <1>3, <2>1, CopiesDoNotMatter
<1>6. ~Outranks(d[1].content_hash, c[1].content_hash)
  <2>1. c[1].content_hash \in Hashes /\ d[1].content_hash \in Hashes
    BY <1>1 DEF Rows
  <2>2. QED BY <1>5, <2>1, OutranksIsOneWay
<1>7. QED BY <1>3, <1>4, <1>6 DEF Distinct

\* All clusters of sorted rows, and their order as themes.
LEMMA ClustersInOrder ==
  ASSUME signal_ratings \in [Hashes -> Hashes \cup {NoRating}], NEW items, Sorted(items)
  PROVE  LET K == ToSet(GreedyCluster(items))
             s == InOrder(K, MoreProminent)
         IN  /\ K \subseteq Seq(Rows)
             /\ \A c \in K : Len(c) > 0 /\ Led(c, items, Len(items))
             /\ \A i \in 1 .. Len(items) : \E c \in K : items[i].content_hash \in ContentsOf(c)
             /\ s \in Seq(K)
             /\ \A c \in K : \E n \in 1 .. Len(s) : s[n] = c
             /\ \A m, n \in 1 .. Len(s) : m # n => Distinct(s[m], s[n])
             /\ \A m, n \in 1 .. Len(s) : m < n => Len(s[m]) >= Len(s[n])
<1> DEFINE C == GreedyCluster(items)
           K == ToSet(C)
           before == [x \in K |-> {y \in K : MoreProminent(y, x)}]
           s == Listing(before)
<1>1. Clustered(C, items, Len(items))
  BY GreedyClusters DEF Sorted
<1> HIDE DEF C
<1>2. C \in Seq(Seq(Rows))
  BY <1>1 DEF Clustered
<1>3. DOMAIN C = 1 .. Len(C) /\ Len(C) \in Nat /\ \A a \in 1 .. Len(C) : C[a] \in Seq(Rows)
  BY <1>2
<1>4. K = {C[a] : a \in 1 .. Len(C)}
  BY <1>3 DEF ToSet
<1> HIDE DEF K
<1>5. K \subseteq Seq(Rows)
  BY <1>3, <1>4
<1>6. ASSUME NEW c \in K PROVE Len(c) > 0 /\ Led(c, items, Len(items))
  <2>1. PICK a \in 1 .. Len(C) : C[a] = c
    BY <1>4
  <2>2. Led(C[a], items, Len(items))
    BY <1>1 DEF Clustered
  <2>3. QED BY <2>1, <2>2 DEF Led
<1>7. ASSUME NEW c \in K, NEW d \in K, c # d PROVE Distinct(c, d)
  <2>1. PICK a \in 1 .. Len(C) : C[a] = c
    BY <1>4
  <2>2. PICK b \in 1 .. Len(C) : C[b] = d
    BY <1>4
  <2>3. a < b \/ b < a
    BY <1>3, <1>7, <2>1, <2>2
  <2>4. Apart(c, d, items) \/ Apart(d, c, items)
    BY <1>1, <2>1, <2>2, <2>3 DEF Clustered
  <2>5. c \in Seq(Rows) /\ Len(c) > 0 /\ d \in Seq(Rows) /\ Len(d) > 0
    BY <1>5, <1>6
  <2>6. QED BY <2>4, <2>5, TwoClusters
<1>8. \A i \in 1 .. Len(items) : \E c \in K : items[i].content_hash \in ContentsOf(c)
  <2>1. Assigned(C) = UNION {ContentsOf(C[a]) : a \in 1 .. Len(C)}
    BY <1>3 DEF Assigned
  <2>2. QED BY <1>1, <1>4, <2>1 DEF Clustered
<1>9. IsFiniteSet(K)
  <2> DEFINE f == [a \in 1 .. Len(C) |-> C[a]]
  <2>1. f \in Surjection(1 .. Len(C), K)
    BY <1>4 DEF Surjection
  <2>2. IsFiniteSet(1 .. Len(C))
    BY <1>3, FS_Interval
  <2>3. QED BY <2>1, <2>2, FS_Surjection
<1>10. /\ \A c \in K : ~MoreProminent(c, c)
       /\ \A c, d, e \in K : MoreProminent(c, d) /\ MoreProminent(d, e) => MoreProminent(c, e)
       /\ \A c, d \in K : c # d => MoreProminent(c, d) \/ MoreProminent(d, c)
       /\ \A c, d \in K : MoreProminent(c, d) => Len(c) >= Len(d)
  <2>1. \A c \in K : Len(c) > 0
    BY <1>6
  <2>2. \A c, d \in K : c # d => c[1].content_hash # d[1].content_hash
    BY <1>7 DEF Distinct
  <2>3. QED BY <1>5, <2>1, <2>2, MoreProminentOrders
<1>11. IsOrder(before, K)
  BY <1>10 DEF IsOrder
<1>12. InOrder(K, MoreProminent) = s
  BY DEF InOrder
<1>13. /\ s \in Seq(K)
       /\ \A x \in K : \E n \in 1 .. Len(s) : s[n] = x
       /\ \A m, n \in 1 .. Len(s) : m < n => s[m] \in before[s[n]]
  <2> HIDE DEF before
  <2>1. QED BY <1>9, <1>11, ListingIsASequence
<1> HIDE DEF s
<1>14. ASSUME NEW n \in 1 .. Len(s) PROVE s[n] \in K
  BY <1>13
<1>15. ASSUME NEW m \in 1 .. Len(s), NEW n \in 1 .. Len(s), m < n
       PROVE  MoreProminent(s[m], s[n])
  <2>1. s[m] \in before[s[n]]
    <3> HIDE DEF before
    <3>1. QED BY <1>13, <1>15
  <2>2. QED BY <1>14, <2>1
<1>16. ASSUME NEW m \in 1 .. Len(s), NEW n \in 1 .. Len(s), m # n PROVE Distinct(s[m], s[n])
  <2>1. Len(s) \in Nat
    BY <1>13
  <2>2. m < n \/ n < m
    BY <1>16, <2>1
  <2>3. s[m] # s[n]
    BY <1>10, <1>14, <1>15, <2>2
  <2>4. QED BY <1>7, <1>14, <2>3
<1>17. \A m, n \in 1 .. Len(s) : m < n => Len(s[m]) >= Len(s[n])
  BY <1>10, <1>14, <1>15
<1>18. QED BY <1>5, <1>6, <1>8, <1>12, <1>13, <1>16, <1>17 DEF C, K

\* The rows that get_signal_clusters clusters, the strongest first: at least one of each content
\* that is rated and embedded.
LEMMA ClusteredRows ==
  ASSUME ContentTypeOK
  PROVE  LET rows == InOrder(RowsFor(Relevant \cap signal_embeddings), Stronger) IN
         /\ Sorted(rows)
         /\ \A i \in 1 .. Len(rows) : rows[i].content_hash \in Relevant \cap signal_embeddings
         /\ \A h \in Relevant \cap signal_embeddings :
               \E i \in 1 .. Len(rows) : rows[i].content_hash = h
<1> DEFINE all == Relevant \cap signal_embeddings
           R == RowsFor(all)
           rows == InOrder(R, Stronger)
<1>1. /\ signal_ratings \in [Hashes -> Hashes \cup {NoRating}] /\ signals \subseteq Hashes
      /\ all \subseteq signals
  BY DEF ContentTypeOK
<1> HIDE DEF all
<1>2. /\ \A row \in R : row.content_hash \in all
      /\ \A h \in all : \E row \in R : row.content_hash = h
  BY <1>1, RowsOfContents
<1>3. /\ rows \in Seq(R) /\ rows \in Seq(Rows)
      /\ \A row \in R : \E n \in 1 .. Len(rows) : rows[n] = row
      /\ \A m, n \in 1 .. Len(rows) : m < n => Stronger(rows[m], rows[n])
  BY <1>1, RowsInOrder
<1> HIDE DEF R, rows
<1>4. Sorted(rows)
  BY <1>3 DEF Sorted
<1>5. \A i \in 1 .. Len(rows) : rows[i].content_hash \in all
  BY <1>2, <1>3
<1>6. ASSUME NEW h \in all PROVE \E i \in 1 .. Len(rows) : rows[i].content_hash = h
  <2>1. PICK row \in R : row.content_hash = h
    BY <1>2
  <2>2. PICK i \in 1 .. Len(rows) : rows[i] = row
    BY <1>3
  <2>3. QED BY <2>1, <2>2
<1>7. QED BY <1>4, <1>5, <1>6 DEF rows, R, all

\* The flat list is not empty when anything is rated.
LEMMA TheListFallsBack ==
  ASSUME ContentTypeOK, Relevant # {}
  PROVE  RatedSignals # <<>>
<1> DEFINE R == RowsFor(Relevant)
           rows == InOrder(R, Stronger)
<1>1. /\ signal_ratings \in [Hashes -> Hashes \cup {NoRating}] /\ signals \subseteq Hashes
      /\ Relevant \subseteq signals
  BY DEF ContentTypeOK, Relevant
<1>2. PICK row : row \in R
  <2>1. \A h \in Relevant \cap signals : \E row \in R : row.content_hash = h
    BY <1>1, RowsOfContents
  <2>2. QED BY <1>1, <2>1
<1>3. rows \in Seq(R) /\ \A r \in R : \E n \in 1 .. Len(rows) : rows[n] = r
  BY <1>1, RowsInOrder
<1> HIDE DEF rows, R
<1>4. Len(rows) \in Nat /\ Len(rows) > 0
  BY <1>2, <1>3
<1>5. Len(Top(rows, FlatLimit)) > 0
  <2>1. FlatLimit \in Nat /\ FlatLimit > 0
    BY DiscoveryAssumption
  <2>2. QED BY <1>3, <1>4, <2>1, TopOf
<1>6. Top(rows, FlatLimit) # <<>>
  BY <1>5
<1>7. QED BY <1>6 DEF RatedSignals, rows, R

LEMMA ThemesFollow == ContentTypeOK => ThemesAreRight
<1> SUFFICES ASSUME ContentTypeOK PROVE ThemesAreRight
  OBVIOUS
<1> DEFINE all == Relevant \cap signal_embeddings
           rows == InOrder(RowsFor(all), Stronger)
           K == ToSet(GreedyCluster(rows))
           s == InOrder(K, MoreProminent)
           shown == Top(s, MaxThemes)
           themes == [n \in DOMAIN shown |-> Theme(shown[n])]
           members(n) == ToSet(themes[n].members)
<1>1. signal_ratings \in [Hashes -> Hashes \cup {NoRating}] /\ MaxThemes \in Nat
  BY DiscoveryAssumption DEF ContentTypeOK
<1>2. Sorted(rows)
  BY ClusteredRows
<1>3. \A i \in 1 .. Len(rows) : rows[i].content_hash \in all
  BY ClusteredRows
<1>4. \A h \in all : \E i \in 1 .. Len(rows) : rows[i].content_hash = h
  BY ClusteredRows
<1>5. SignalClusters.rated_in_window = Cardinality(Relevant) /\ SignalClusters.themes = themes
  BY DEF SignalClusters
<1> HIDE DEF all, rows
<1>6. /\ K \subseteq Seq(Rows)
      /\ \A c \in K : Len(c) > 0 /\ Led(c, rows, Len(rows))
      /\ \A i \in 1 .. Len(rows) : \E c \in K : rows[i].content_hash \in ContentsOf(c)
      /\ s \in Seq(K)
      /\ \A c \in K : \E n \in 1 .. Len(s) : s[n] = c
      /\ \A m, n \in 1 .. Len(s) : m # n => Distinct(s[m], s[n])
      /\ \A m, n \in 1 .. Len(s) : m < n => Len(s[m]) >= Len(s[n])
  BY <1>1, <1>2, ClustersInOrder
<1> HIDE DEF K, s
<1>7. /\ shown \in Seq(K) /\ Len(s) \in Nat /\ Len(shown) \in Nat
      /\ Len(shown) = IF Len(s) < MaxThemes THEN Len(s) ELSE MaxThemes
      /\ \A n \in 1 .. Len(shown) : n \in 1 .. Len(s) /\ shown[n] = s[n]
  <2>1. Len(s) \in Nat
    BY <1>6
  <2>2. /\ shown \in Seq(K)
        /\ Len(shown) = IF Len(s) < MaxThemes THEN Len(s) ELSE MaxThemes
        /\ \A n \in 1 .. Len(shown) : n \in 1 .. Len(s) /\ shown[n] = s[n]
    BY <1>1, <1>6, TopOf
  <2> HIDE DEF shown
  <2>3. QED BY <2>1, <2>2
<1> HIDE DEF shown
<1>8. DOMAIN shown = 1 .. Len(shown) /\ DOMAIN themes = 1 .. Len(shown) /\ Len(themes) = Len(shown)
  <2>1. DOMAIN shown = 1 .. Len(shown)
    BY <1>7
  <2> DEFINE T == {Theme(shown[n]) : n \in 1 .. Len(shown)}
  <2>2. themes \in [1 .. Len(shown) -> T]
    BY <2>1
  <2> HIDE DEF themes, T
  <2>3. QED BY <1>7, <2>1, <2>2
<1>9. ASSUME NEW n \in 1 .. Len(shown)
      PROVE  /\ shown[n] \in K /\ shown[n] \in Seq(Rows)
             /\ themes[n].theme_size = Len(shown[n])
             /\ themes[n].representative = shown[n][1].content_hash
             /\ members(n) = ContentsOf(shown[n])
  <2>1. shown[n] \in K /\ themes[n] = Theme(shown[n])
    BY <1>7, <1>8
  <2>2. shown[n] \in Seq(Rows)
    BY <1>6, <2>1
  <2>3. /\ themes[n].theme_size = Len(shown[n])
        /\ themes[n].representative = shown[n][1].content_hash
        /\ themes[n].members = [k \in DOMAIN shown[n] |-> shown[n][k].content_hash]
    <3>1. themes[n] = [theme_size |-> Len(shown[n]), representative |-> shown[n][1].content_hash,
                       members |-> [k \in DOMAIN shown[n] |-> shown[n][k].content_hash]]
      BY <2>1 DEF Theme
    <3> HIDE DEF themes
    <3>2. QED BY <3>1
  <2>4. members(n) = ContentsOf(shown[n])
    BY <2>3 DEF ToSet, ContentsOf
  <2>5. QED BY <2>1, <2>2, <2>3, <2>4
<1> HIDE DEF members, themes
<1>10. ASSUME NEW n \in 1 .. Len(shown)
       PROVE  /\ themes[n].representative \in Hashes
              /\ themes[n].theme_size = Cardinality(members(n))
              /\ members(n) \subseteq all
              /\ \A h \in members(n) \ {themes[n].representative} :
                    /\ Dist[themes[n].representative, h] <= Threshold
                    /\ Outranks(themes[n].representative, h)
  <2> DEFINE c == shown[n]
  <2>1. c \in Seq(Rows) /\ Led(c, rows, Len(rows))
    BY <1>6, <1>9
  <2> HIDE DEF c
  <2>2. /\ c[1] \in Rows
        /\ Cardinality(ContentsOf(c)) = Len(c)
        /\ \A h \in ContentsOf(c) : \E i \in 1 .. Len(rows) : rows[i].content_hash = h
        /\ \A h \in ContentsOf(c) \ {c[1].content_hash} :
              Dist[c[1].content_hash, h] <= Threshold /\ Outranks(c[1].content_hash, h)
    BY <1>2, <2>1, OneCluster
  <2>3. ContentsOf(c) \subseteq all
    BY <1>3, <2>2
  <2>4. c[1].content_hash \in Hashes
    BY <2>2 DEF Rows
  <2>5. /\ themes[n].theme_size = Len(c) /\ themes[n].representative = c[1].content_hash
        /\ members(n) = ContentsOf(c)
    BY <1>9 DEF c
  <2>6. QED BY <2>2, <2>3, <2>4, <2>5
<1>11. ASSUME NEW m \in 1 .. Len(shown), NEW n \in 1 .. Len(shown), m # n
       PROVE  /\ members(m) \cap members(n) = {}
              /\ Outranks(themes[m].representative, themes[n].representative) =>
                    \A h \in members(n) : Dist[themes[m].representative, h] > Threshold
  <2>1. Distinct(shown[m], shown[n])
    BY <1>6, <1>7, <1>11
  <2>2. QED BY <1>9, <2>1 DEF Distinct
<1>12. ASSUME NEW m \in 1 .. Len(shown), NEW n \in 1 .. Len(shown), m < n
       PROVE  themes[m].theme_size >= themes[n].theme_size
  <2>1. Len(shown[m]) >= Len(shown[n])
    BY <1>6, <1>7, <1>12
  <2>2. QED BY <1>9, <2>1
<1>13. UNION {members(n) : n \in 1 .. Len(shown)} \subseteq all
  BY <1>10
<1>14. ASSUME Len(shown) < MaxThemes, NEW h \in all
       PROVE  \E n \in 1 .. Len(shown) : h \in members(n)
  <2>1. PICK i \in 1 .. Len(rows) : rows[i].content_hash = h
    BY <1>4
  <2>2. PICK c \in K : h \in ContentsOf(c)
    BY <1>6, <2>1
  <2>3. PICK n \in 1 .. Len(s) : s[n] = c
    BY <1>6
  <2>4. Len(shown) = Len(s)
    BY <1>1, <1>7, <1>14
  <2>5. n \in 1 .. Len(shown) /\ shown[n] = c
    BY <1>7, <2>3, <2>4
  <2>6. QED BY <1>9, <2>2, <2>5
<1>15. Len(shown) < MaxThemes => UNION {members(n) : n \in 1 .. Len(shown)} = all
  BY <1>13, <1>14
<1>16. Cardinality(Relevant) > 0 => RatedSignals # <<>>
  <2>1. SUFFICES ASSUME Cardinality(Relevant) > 0 PROVE Relevant # {}
    BY TheListFallsBack
  <2>2. Cardinality({}) = 0
    BY FS_EmptySet
  <2>3. QED BY <2>1, <2>2
<1> DEFINE
      held(t, n) == ToSet(t[n].members)
      together(t) == UNION {held(t, n) : n \in DOMAIN t}
      complete(t) == together(t) \subseteq all /\ (Len(t) < MaxThemes => together(t) = all)
      led(t, n) ==
          /\ t[n].theme_size = Cardinality(held(t, n))
          /\ \A h \in held(t, n) \ {t[n].representative} :
                Dist[t[n].representative, h] <= Threshold /\ Outranks(t[n].representative, h)
      ordered(t, m, n) ==
          held(t, m) \cap held(t, n) = {} /\ t[m].theme_size >= t[n].theme_size
      far(t, m, n, h) ==
          m # n /\ h \in held(t, n) /\ Outranks(t[m].representative, t[n].representative)
          => Dist[t[m].representative, h] > Threshold
      right(t) ==
          /\ complete(t)
          /\ \A n \in DOMAIN t : led(t, n)
          /\ \A m, n \in DOMAIN t : m < n => ordered(t, m, n)
          /\ \A m, n \in DOMAIN t, h \in Hashes : far(t, m, n, h)
<1>17. \A n : held(themes, n) = members(n)
  BY DEF members
<1> HIDE DEF held
<1>18. complete(themes)
  BY <1>8, <1>13, <1>15, <1>17
<1>19. \A n \in DOMAIN themes : led(themes, n)
  BY <1>8, <1>10, <1>17, Zenon
<1>20. ASSUME NEW m \in DOMAIN themes, NEW n \in DOMAIN themes, m < n PROVE ordered(themes, m, n)
  <2>1. m \in 1 .. Len(shown) /\ n \in 1 .. Len(shown) /\ m # n
    BY <1>7, <1>8, <1>20
  <2>2. QED BY <1>11, <1>12, <1>17, <1>20, <2>1
<1>21. \A m, n \in DOMAIN themes, h \in Hashes : far(themes, m, n, h)
  BY <1>8, <1>11, <1>17, Zenon
<1>22. right(themes)
  BY <1>18, <1>19, <1>20, <1>21
<1> HIDE DEF right
<1>23. right(SignalClusters.themes)
  BY <1>5, <1>22
<1>24. QED
  BY <1>5, <1>16, <1>23, Zenon DEF ThemesAreRight, right, held, all, Outranks

\* Greedy clustering does what it promises of any contents, ratings, distances and copies of rows:
\* clusters.py's two loops and its two sorts, over the tables that ContentStage's tasks leave.
THEOREM ThemesHold == ContentSpec => []ThemesAreRight
<1>1. ContentTypeOK => ThemesAreRight
  BY ThemesFollow
<1>2. QED BY <1>1, ContentTypesHold, PTL

-----------------------------------------------------------------------------
(* The fusion *)

\* What a rank gives is a positive integer, and exactly its fraction of the unit.
LEMMA RankShares ==
  ASSUME NEW rank \in 1 .. Pool
  PROVE  /\ Unit \div (RRF_K + rank) \in Nat
         /\ (Unit \div (RRF_K + rank)) * (RRF_K + rank) = Unit
<1>1. RRF_K \in Nat /\ Pool \in Nat /\ Unit \in Nat /\ Unit % (RRF_K + rank) = 0
  BY FusionAssumption
<1>2. RRF_K + rank \in Nat \ {0}
  BY <1>1
<1>3. ASSUME NEW u \in Nat, NEW k \in Nat \ {0}, u % k = 0
      PROVE  u \div k \in Nat /\ (u \div k) * k = u
  <2>1. u = k * (u \div k) + (u % k) /\ u \div k \in Int
    BY <1>3
  <2>2. k * (u \div k) = (u \div k) * k
    BY <2>1
  <2>3. u \div k >= 0
    BY <1>3
  <2>4. QED BY <1>3, <2>1, <2>2, <2>3
<1>4. QED BY <1>1, <1>2, <1>3

\* A document's share of a list is that of one of its ranks there.
LEMMA ShareOfRank ==
  ASSUME NEW ids \in Seq(Hashes), Len(ids) <= Pool, NEW h
  PROVE  /\ h \notin ToSet(ids) => Share(ids, h) = 0
         /\ h \in ToSet(ids) => \E rank \in 1 .. Pool :
               /\ rank <= Len(ids) /\ ids[rank] = h
               /\ Share(ids, h) = Unit \div (RRF_K + rank)
<1>1. ToSet(ids) = {ids[n] : n \in DOMAIN ids} /\ DOMAIN ids = 1 .. Len(ids)
  BY DEF ToSet
<1>2. CASE h \notin ToSet(ids)
  BY <1>1, <1>2 DEF Share
<1>3. CASE h \in ToSet(ids)
  <2> DEFINE rank == CHOOSE n \in DOMAIN ids : ids[n] = h
  <2>1. rank \in DOMAIN ids /\ ids[rank] = h
    BY <1>1, <1>3
  <2>2. Share(ids, h) = Unit \div (RRF_K + rank)
    BY <1>1, <1>3 DEF Share
  <2> HIDE DEF rank
  <2>3. rank \in 1 .. Pool /\ rank <= Len(ids)
    BY <1>1, <2>1, FusionAssumption
  <2>4. QED BY <1>3, <2>1, <2>2, <2>3
<1>4. QED BY <1>2, <1>3

\* However badly both lists rank a document, it comes before one that a single list has, even
\* at its top: the pool is small against the constant (search.py: 50 and 60).
THEOREM BothBeatOne ==
  ASSUME NEW fts \in Seq(Hashes), Len(fts) <= Pool, NEW vec \in Seq(Hashes), Len(vec) <= Pool,
         NEW g \in ToSet(fts) \cap ToSet(vec), NEW h, h \notin ToSet(fts) \cap ToSet(vec)
  PROVE  FusedScore(fts, vec, g) > FusedScore(fts, vec, h)
<1>1. RRF_K \in Nat /\ Pool \in Nat /\ Pool <= RRF_K + 1 /\ Unit \in Nat \ {0}
  BY FusionAssumption
\* Times 2k + 2: more than a whole unit for any rank, no more than two of it for the first.
<1>2. ASSUME NEW rank \in 1 .. Pool
      PROVE  LET a == Unit \div (RRF_K + rank) IN
             a \in Nat /\ a * (2 * RRF_K + 2) > Unit /\ a * (2 * RRF_K + 2) <= 2 * Unit
  <2> DEFINE a == Unit \div (RRF_K + rank)
  <2>1. a \in Nat /\ a * (RRF_K + rank) = Unit
    BY RankShares
  <2> HIDE DEF a
  <2>2. a > 0
    BY <1>1, <2>1
  <2>3. RRF_K + rank < 2 * RRF_K + 2 /\ 2 * RRF_K + 2 <= 2 * (RRF_K + rank)
    BY <1>1
  <2>4. a * (RRF_K + rank) < a * (2 * RRF_K + 2)
    BY <1>1, <2>1, <2>2, <2>3
  <2>5. a * (2 * RRF_K + 2) <= a * (2 * (RRF_K + rank))
    BY <1>1, <2>1, <2>2, <2>3
  <2>6. a * (2 * (RRF_K + rank)) = 2 * (a * (RRF_K + rank))
    BY <1>1, <2>1
  <2>7. QED BY <2>1, <2>4, <2>5, <2>6 DEF a
<1>3. PICK m \in 1 .. Pool : Share(fts, g) = Unit \div (RRF_K + m)
  BY ShareOfRank
<1>4. PICK n \in 1 .. Pool : Share(vec, g) = Unit \div (RRF_K + n)
  BY ShareOfRank
<1> DEFINE k == 2 * RRF_K + 2
           a == Share(fts, g)
           b == Share(vec, g)
           c == FusedScore(fts, vec, h)
<1>5. a \in Nat /\ b \in Nat /\ a * k > Unit /\ b * k > Unit
  BY <1>2, <1>3, <1>4
<1>6. c \in Nat /\ c * k <= 2 * Unit
  <2>1. Share(fts, h) = 0 \/ Share(vec, h) = 0
    BY ShareOfRank
  <2>2. /\ Share(fts, h) \in Nat /\ Share(fts, h) * k <= 2 * Unit
        /\ Share(vec, h) \in Nat /\ Share(vec, h) * k <= 2 * Unit
    <3>1. ASSUME NEW ids \in Seq(Hashes), Len(ids) <= Pool
          PROVE  Share(ids, h) \in Nat /\ Share(ids, h) * k <= 2 * Unit
      <4>1. CASE h \notin ToSet(ids)
        <5>1. Share(ids, h) = 0
          BY <3>1, <4>1, ShareOfRank
        <5>2. QED BY <1>1, <5>1
      <4>2. CASE h \in ToSet(ids)
        <5>1. PICK rank \in 1 .. Pool : Share(ids, h) = Unit \div (RRF_K + rank)
          BY <3>1, <4>2, ShareOfRank
        <5>2. QED BY <1>2, <5>1
      <4>3. QED BY <4>1, <4>2
    <3>2. QED BY <3>1
  <2>3. QED BY <2>1, <2>2 DEF FusedScore
<1>7. FusedScore(fts, vec, g) = a + b
  BY DEF FusedScore
<1>8. k \in Nat \ {0}
  BY <1>1
<1> HIDE DEF a, b, c, k
<1>9. (a + b) * k > c * k
  <2>1. (a + b) * k = a * k + b * k
    BY <1>5, <1>8
  <2>2. a * k \in Nat /\ b * k \in Nat /\ c * k \in Nat
    BY <1>5, <1>6, <1>8
  <2>3. QED BY <1>1, <1>5, <1>6, <2>1, <2>2
<1>10. a + b > c
  <2>1. SUFFICES ASSUME a + b <= c PROVE FALSE
    BY <1>5, <1>6
  <2>2. (a + b) * k <= c * k
    BY <1>5, <1>6, <1>8, <2>1
  <2>3. (a + b) * k \in Nat /\ c * k \in Nat
    BY <1>5, <1>6, <1>8
  <2>4. QED BY <1>9, <2>2, <2>3
<1>11. QED BY <1>7, <1>10 DEF c

\* With the semantic half missing, the order of the lexical list stays.
THEOREM OneListKeepsItsOrder ==
  ASSUME NEW fts \in Seq(Hashes), Len(fts) <= Pool,
         \A i, j \in 1 .. Len(fts) : fts[i] = fts[j] => i = j,
         NEW m \in 1 .. Len(fts), NEW n \in 1 .. Len(fts), m < n
  PROVE  FusedScore(fts, <<>>, fts[m]) > FusedScore(fts, <<>>, fts[n])
<1>1. RRF_K \in Nat /\ Pool \in Nat /\ Unit \in Nat \ {0} /\ m \in 1 .. Pool /\ n \in 1 .. Pool
  BY FusionAssumption
<1>2. ASSUME NEW i \in 1 .. Len(fts)
      PROVE  FusedScore(fts, <<>>, fts[i]) = Unit \div (RRF_K + i)
             /\ Unit \div (RRF_K + i) \in Nat
  <2>1. fts[i] \in ToSet(fts) /\ fts[i] \notin ToSet(<<>>)
    BY DEF ToSet
  <2>2. Share(fts, fts[i]) = Unit \div (RRF_K + i)
    BY <2>1, ShareOfRank
  <2>3. Share(<<>>, fts[i]) = 0
    BY <2>1 DEF Share, ToSet
  <2>4. i \in 1 .. Pool
    BY <1>1
  <2>5. Unit \div (RRF_K + i) \in Nat
    BY <2>4, RankShares
  <2>6. QED BY <2>2, <2>3, <2>5 DEF FusedScore
<1> DEFINE a == Unit \div (RRF_K + m)
           b == Unit \div (RRF_K + n)
<1>3. /\ a \in Nat /\ a * (RRF_K + m) = Unit
      /\ b \in Nat /\ b * (RRF_K + n) = Unit
  BY <1>1, RankShares
<1> HIDE DEF a, b
<1>4. a > b
  <2>1. SUFFICES ASSUME a <= b PROVE FALSE
    BY <1>3
  <2>2. b > 0
    BY <1>1, <1>3
  <2>3. b * (RRF_K + n) > b * (RRF_K + m)
    BY <1>1, <1>3, <2>2
  <2>4. a * (RRF_K + m) <= b * (RRF_K + m)
    BY <1>1, <1>3, <2>1
  <2>5. b * (RRF_K + m) \in Nat
    BY <1>1, <1>3
  <2>6. QED BY <1>1, <1>3, <2>3, <2>4, <2>5
<1>5. QED BY <1>2, <1>4 DEF a, b

\* No id is in the list twice.
OnceEach(ids) ==
    /\ ids \in Seq(Hashes)
    /\ \A m, n \in 1 .. Len(ids) : ids[m] = ids[n] => m = n

LEMMA IdsAreFinite ==
  ASSUME NEW ids \in Seq(Hashes)
  PROVE  /\ ToSet(ids) = {ids[n] : n \in 1 .. Len(ids)} /\ ToSet(ids) \subseteq Hashes
         /\ IsFiniteSet(ToSet(ids))
<1>1. DOMAIN ids = 1 .. Len(ids) /\ Len(ids) \in Nat
  OBVIOUS
<1>2. ToSet(ids) = {ids[n] : n \in 1 .. Len(ids)} /\ ToSet(ids) \subseteq Hashes
  BY <1>1 DEF ToSet
<1>3. [n \in 1 .. Len(ids) |-> ids[n]] \in Surjection(1 .. Len(ids), ToSet(ids))
  BY <1>2 DEF Surjection
<1>4. IsFiniteSet(1 .. Len(ids))
  BY <1>1, FS_Interval
<1>5. QED BY <1>2, <1>3, <1>4, FS_Surjection

\* Leaving ids out keeps the order of the others.
LEMMA ThoseStayInOrder ==
  ASSUME NEW ids, OnceEach(ids), NEW S
  PROVE  /\ OnceEach(Those(ids, S)) /\ ToSet(Those(ids, S)) = ToSet(ids) \cap S
         /\ \A m, n \in 1 .. Len(Those(ids, S)) : m < n =>
               \E i, j \in 1 .. Len(ids) :
                  i < j /\ ids[i] = Those(ids, S)[m] /\ ids[j] = Those(ids, S)[n]
         /\ ToSet(ids) \subseteq S => Those(ids, S) = ids
<1> DEFINE Earlier(g, h) == \E m, n \in DOMAIN ids : m < n /\ ids[m] = g /\ ids[n] = h
           R == ToSet(ids) \cap S
           before == [x \in R |-> {y \in R : Earlier(y, x)}]
           s == Listing(before)
<1>1. /\ ids \in Seq(Hashes) /\ DOMAIN ids = 1 .. Len(ids) /\ Len(ids) \in Nat
      /\ ToSet(ids) = {ids[n] : n \in 1 .. Len(ids)} /\ R \subseteq Hashes
  <2>1. ids \in Seq(Hashes)
    BY DEF OnceEach
  <2>2. QED BY <2>1, IdsAreFinite
<1>2. \A m, n \in 1 .. Len(ids) : ids[m] = ids[n] => m = n
  BY DEF OnceEach
<1>3. IsFiniteSet(R)
  BY <1>1, IdsAreFinite, FS_Intersection
<1>4. /\ \A x \in R : ~Earlier(x, x)
      /\ \A x, y, z \in R : Earlier(x, y) /\ Earlier(y, z) => Earlier(x, z)
      /\ \A x, y \in R : x # y => Earlier(x, y) \/ Earlier(y, x)
  <2>1. ASSUME NEW x \in R, Earlier(x, x) PROVE FALSE
    BY <1>1, <1>2, <2>1
  <2>2. ASSUME NEW x \in R, NEW y \in R, NEW z \in R, Earlier(x, y), Earlier(y, z)
        PROVE  Earlier(x, z)
    <3>1. PICK m, n \in 1 .. Len(ids) : m < n /\ ids[m] = x /\ ids[n] = y
      BY <1>1, <2>2
    <3>2. PICK p, k \in 1 .. Len(ids) : p < k /\ ids[p] = y /\ ids[k] = z
      BY <1>1, <2>2
    <3>3. n = p
      BY <1>2, <3>1, <3>2
    <3>4. m < k
      BY <1>1, <3>1, <3>2, <3>3
    <3>5. QED BY <1>1, <3>1, <3>2, <3>4
  <2>3. ASSUME NEW x \in R, NEW y \in R, x # y PROVE Earlier(x, y) \/ Earlier(y, x)
    <3>1. PICK m \in 1 .. Len(ids) : ids[m] = x
      BY <1>1
    <3>2. PICK n \in 1 .. Len(ids) : ids[n] = y
      BY <1>1
    <3>3. m < n \/ n < m
      BY <1>1, <2>3, <3>1, <3>2
    <3>4. QED BY <1>1, <3>1, <3>2, <3>3
  <2>4. QED BY <2>1, <2>2, <2>3
<1>5. Those(ids, S) = s
  BY DEF Those, InOrder
<1>6. \A x, y \in R : Earlier(x, y) <=>
         \E m, n \in 1 .. Len(ids) : m < n /\ ids[m] = x /\ ids[n] = y
  BY <1>1
<1> HIDE DEF Earlier, R
<1>7. IsOrder(before, R)
  BY <1>4 DEF IsOrder
<1>8. /\ s \in Seq(R)
      /\ \A x \in R : \E n \in 1 .. Len(s) : s[n] = x
      /\ \A m, n \in 1 .. Len(s) : m < n => s[m] \in before[s[n]]
  <2> HIDE DEF before
  <2>1. QED BY <1>3, <1>7, ListingIsASequence
<1>9. ToSet(ids) \subseteq S => s = ids
  <2>1. SUFFICES ASSUME ToSet(ids) \subseteq S PROVE s = ids
    OBVIOUS
  <2>2. R = ToSet(ids)
    BY <2>1 DEF R
  <2>3. ids \in Seq(R) /\ \A x \in R : \E n \in 1 .. Len(ids) : ids[n] = x
    BY <1>1, <2>2
  <2>4. ASSUME NEW m \in 1 .. Len(ids), NEW n \in 1 .. Len(ids), m < n
        PROVE  ids[m] \in before[ids[n]]
    <3>1. ids[m] \in R /\ ids[n] \in R
      BY <2>3
    <3>2. QED BY <1>6, <2>4, <3>1
  <2> HIDE DEF before
  <2>5. QED BY <1>3, <1>7, <2>3, <2>4, OneListing
<1> HIDE DEF s
<1>10. ASSUME NEW m \in 1 .. Len(s), NEW n \in 1 .. Len(s), m < n
       PROVE  s[m] \in R /\ s[n] \in R /\ Earlier(s[m], s[n])
  <2>1. s[m] \in R /\ s[n] \in R
    <3> HIDE DEF before
    <3>1. s \in Seq(R)
      BY <1>8
    <3>2. QED BY <3>1
  <2>2. s[m] \in before[s[n]]
    <3> HIDE DEF before
    <3>1. QED BY <1>8, <1>10
  <2>3. QED BY <2>1, <2>2
<1>11. s \in Seq(Hashes)
  BY <1>1, <1>8
<1>12. ASSUME NEW m \in 1 .. Len(s), NEW n \in 1 .. Len(s), s[m] = s[n] PROVE m = n
  <2>1. Len(s) \in Nat
    BY <1>8
  <2>2. ~(m < n) /\ ~(n < m)
    BY <1>4, <1>10, <1>12
  <2>3. QED BY <2>1, <2>2
<1>13. ToSet(s) = R
  <2>1. ToSet(s) = {s[n] : n \in 1 .. Len(s)}
    BY <1>11, IdsAreFinite
  <2>2. QED BY <1>8, <2>1
<1>14. OnceEach(s)
  BY <1>11, <1>12 DEF OnceEach
<1>15. ASSUME NEW m \in 1 .. Len(s), NEW n \in 1 .. Len(s), m < n
       PROVE  \E i, j \in 1 .. Len(ids) : i < j /\ ids[i] = s[m] /\ ids[j] = s[n]
  <2>1. s[m] \in R /\ s[n] \in R /\ Earlier(s[m], s[n])
    BY <1>10, <1>15
  <2>2. QED BY <1>6, <2>1
<1>16. QED BY <1>5, <1>9, <1>13, <1>14, <1>15 DEF R

\* The best of a list.
LEMMA TopIsOnceEach ==
  ASSUME NEW ids, OnceEach(ids), NEW n \in Nat
  PROVE  /\ OnceEach(Top(ids, n)) /\ Len(Top(ids, n)) <= n
         /\ ToSet(Top(ids, n)) \subseteq ToSet(ids)
<1>1. ids \in Seq(Hashes) /\ Len(ids) \in Nat
  BY DEF OnceEach
<1> DEFINE s == Top(ids, n)
<1>2. /\ s \in Seq(Hashes) /\ Len(s) = (IF Len(ids) < n THEN Len(ids) ELSE n)
      /\ \A i \in 1 .. Len(s) : i \in 1 .. Len(ids) /\ s[i] = ids[i]
  BY <1>1, TopOf
<1> HIDE DEF s
<1>3. OnceEach(s)
  BY <1>2 DEF OnceEach
<1>4. ToSet(s) \subseteq ToSet(ids)
  <2>1. ToSet(s) = {s[i] : i \in 1 .. Len(s)} /\ ToSet(ids) = {ids[i] : i \in 1 .. Len(ids)}
    BY <1>1, <1>2, IdsAreFinite
  <2>2. QED BY <1>2, <2>1
<1>5. Len(s) <= n
  BY <1>1, <1>2
<1>6. QED BY <1>3, <1>4, <1>5 DEF s

\* What either half of a search brings to the fusion.
LEMMA Candidates ==
  ASSUME ContentTypeOK, NEW q \in Queries
  PROVE  \A ids \in {FtsCandidates(q), VectorCandidates(q)} :
            OnceEach(ids) /\ Len(ids) <= Pool /\ ToSet(ids) \subseteq signals
<1>1. ASSUME NEW ids \in {Matches[q], Nearness[q]} PROVE OnceEach(ids)
  <2>1. ids \in Seq(Hashes) /\ \A m, n \in DOMAIN ids : ids[m] = ids[n] => m = n
    BY DiscoveryAssumption
  <2>2. QED BY <2>1 DEF OnceEach
<1>2. Pool \in Nat
  BY FusionAssumption
<1>3. ASSUME NEW ids, OnceEach(ids), NEW S, S \subseteq signals
      PROVE  LET s == Top(Those(ids, S), Pool) IN
             OnceEach(s) /\ Len(s) <= Pool /\ ToSet(s) \subseteq signals
  <2>1. OnceEach(Those(ids, S)) /\ ToSet(Those(ids, S)) = ToSet(ids) \cap S
    BY <1>3, ThoseStayInOrder
  <2>2. QED BY <1>2, <1>3, <2>1, TopIsOnceEach
<1>4. signals \subseteq signals /\ signal_embeddings \subseteq signals
  BY DEF ContentTypeOK
<1>5. QED BY <1>1, <1>3, <1>4 DEF FtsCandidates, VectorCandidates

\* The fused list: the candidates of both lists, the better score first.
Better(fts, vec, g, h) ==
    \/ FusedScore(fts, vec, g) > FusedScore(fts, vec, h)
    \/ FusedScore(fts, vec, g) = FusedScore(fts, vec, h) /\ g < h

LEMMA ScoresAreNumbers ==
  ASSUME NEW fts \in Seq(Hashes), Len(fts) <= Pool, NEW vec \in Seq(Hashes), Len(vec) <= Pool, NEW h
  PROVE  FusedScore(fts, vec, h) \in Nat
<1>1. ASSUME NEW ids \in Seq(Hashes), Len(ids) <= Pool PROVE Share(ids, h) \in Nat
  <2>1. CASE h \notin ToSet(ids)
    BY <1>1, <2>1, ShareOfRank
  <2>2. CASE h \in ToSet(ids)
    BY <1>1, <2>2, ShareOfRank, RankShares
  <2>3. QED BY <2>1, <2>2
<1>2. Share(fts, h) \in Nat /\ Share(vec, h) \in Nat
  BY <1>1
<1>3. QED BY <1>2 DEF FusedScore

LEMMA FusedInOrder ==
  ASSUME NEW fts \in Seq(Hashes), Len(fts) <= Pool, NEW vec \in Seq(Hashes), Len(vec) <= Pool
  PROVE  LET s == ReciprocalRankFusion(fts, vec)
             U == ToSet(fts) \cup ToSet(vec)
         IN  /\ OnceEach(s) /\ ToSet(s) = U
             /\ \A m, n \in 1 .. Len(s) : m < n => Better(fts, vec, s[m], s[n])
             /\ \A t \in Seq(U) :
                   /\ \A x \in U : \E n \in 1 .. Len(t) : t[n] = x
                   /\ \A m, n \in 1 .. Len(t) : m < n => Better(fts, vec, t[m], t[n])
                   => s = t
<1> DEFINE U == ToSet(fts) \cup ToSet(vec)
           before == [x \in U |-> {y \in U : Better(fts, vec, y, x)}]
           s == Listing(before)
<1>1. ReciprocalRankFusion(fts, vec) = s
  BY DEF ReciprocalRankFusion, InOrder, Better
<1>2. U \subseteq Hashes /\ IsFiniteSet(U)
  <2>1. /\ ToSet(fts) \subseteq Hashes /\ IsFiniteSet(ToSet(fts))
        /\ ToSet(vec) \subseteq Hashes /\ IsFiniteSet(ToSet(vec))
    BY IdsAreFinite
  <2>2. QED BY <2>1, FS_Union
<1> HIDE DEF U
<1>3. \A x \in U : FusedScore(fts, vec, x) \in Nat /\ x \in Nat
  BY <1>2, ScoresAreNumbers, Distances
<1>4. /\ \A x \in U : ~Better(fts, vec, x, x)
      /\ \A x, y, z \in U :
            Better(fts, vec, x, y) /\ Better(fts, vec, y, z) => Better(fts, vec, x, z)
      /\ \A x, y \in U : x # y => Better(fts, vec, x, y) \/ Better(fts, vec, y, x)
  BY <1>3 DEF Better
<1>5. IsOrder(before, U)
  BY <1>4 DEF IsOrder
<1>6. /\ s \in Seq(U)
      /\ \A x \in U : \E n \in 1 .. Len(s) : s[n] = x
      /\ \A m, n \in 1 .. Len(s) : m < n => s[m] \in before[s[n]]
  <2> HIDE DEF before
  <2>1. QED BY <1>2, <1>5, ListingIsASequence
<1>7. ASSUME NEW t \in Seq(U), \A x \in U : \E n \in 1 .. Len(t) : t[n] = x,
             \A m, n \in 1 .. Len(t) : m < n => Better(fts, vec, t[m], t[n])
      PROVE  s = t
  <2>1. ASSUME NEW m \in 1 .. Len(t), NEW n \in 1 .. Len(t), m < n PROVE t[m] \in before[t[n]]
    <3>1. t[m] \in U /\ t[n] \in U
      OBVIOUS
    <3>2. QED BY <1>7, <2>1, <3>1
  <2> HIDE DEF before
  <2>2. QED BY <1>2, <1>5, <1>7, <2>1, OneListing
<1> HIDE DEF s
<1>8. ASSUME NEW m \in 1 .. Len(s), NEW n \in 1 .. Len(s), m < n
      PROVE  s[m] \in U /\ s[n] \in U /\ Better(fts, vec, s[m], s[n])
  <2>1. s[m] \in U /\ s[n] \in U
    <3> HIDE DEF before
    <3>1. s \in Seq(U)
      BY <1>6
    <3>2. QED BY <3>1
  <2>2. s[m] \in before[s[n]]
    <3> HIDE DEF before
    <3>1. QED BY <1>6, <1>8
  <2>3. QED BY <2>1, <2>2
<1>9. s \in Seq(Hashes) /\ Len(s) \in Nat
  BY <1>2, <1>6
<1>10. ASSUME NEW m \in 1 .. Len(s), NEW n \in 1 .. Len(s), s[m] = s[n] PROVE m = n
  <2>1. ~(m < n) /\ ~(n < m)
    BY <1>4, <1>8, <1>10
  <2>2. QED BY <1>9, <2>1
<1>11. OnceEach(s)
  BY <1>9, <1>10 DEF OnceEach
<1>12. ToSet(s) = U
  <2>1. ToSet(s) = {s[n] : n \in 1 .. Len(s)}
    BY <1>9, IdsAreFinite
  <2> HIDE DEF before
  <2>2. \A n \in 1 .. Len(s) : s[n] \in U
    <3>1. s \in Seq(U)
      BY <1>6
    <3>2. QED BY <3>1
  <2>3. \A x \in U : \E n \in 1 .. Len(s) : s[n] = x
    BY <1>6
  <2>4. QED BY ONLY <2>1, <2>2, <2>3
<1>13. QED BY <1>1, <1>7, <1>8, <1>11, <1>12 DEF U

\* Without the semantic half the fusion changes nothing.
LEMMA FusedAlone ==
  ASSUME NEW fts, OnceEach(fts), Len(fts) <= Pool
  PROVE  ReciprocalRankFusion(fts, <<>>) = fts
<1> DEFINE U == ToSet(fts) \cup ToSet(<<>>)
<1>1. /\ fts \in Seq(Hashes) /\ \A i, j \in 1 .. Len(fts) : fts[i] = fts[j] => i = j
      /\ <<>> \in Seq(Hashes) /\ Len(<<>>) <= Pool
  BY FusionAssumption DEF OnceEach
<1>2. U = {fts[n] : n \in 1 .. Len(fts)}
  <2>1. ToSet(fts) = {fts[n] : n \in 1 .. Len(fts)} /\ ToSet(<<>>) = {}
    BY <1>1, IdsAreFinite DEF ToSet
  <2>2. QED BY <2>1
<1> HIDE DEF U
<1>3. fts \in Seq(U) /\ \A x \in U : \E n \in 1 .. Len(fts) : fts[n] = x
  BY <1>1, <1>2
<1>4. \A m, n \in 1 .. Len(fts) : m < n => Better(fts, <<>>, fts[m], fts[n])
  BY <1>1, OneListKeepsItsOrder DEF Better
<1>5. \A t \in Seq(U) :
         /\ \A x \in U : \E n \in 1 .. Len(t) : t[n] = x
         /\ \A m, n \in 1 .. Len(t) : m < n => Better(fts, <<>>, t[m], t[n])
         => ReciprocalRankFusion(fts, <<>>) = t
  BY <1>1, FusedInOrder DEF U
<1>6. QED BY <1>3, <1>4, <1>5

\* The hits, in the order of their scores, with the lists that found each.
LEMMA HitsInOrder ==
  ASSUME ContentTypeOK,
         NEW fts \in Seq(Hashes), Len(fts) <= Pool, NEW vec \in Seq(Hashes), Len(vec) <= Pool
  PROVE  LET hits == HybridSearch(fts, vec) IN
         /\ DOMAIN hits = 1 .. Len(hits) /\ Len(hits) \in Nat
         /\ \A m, n \in 1 .. Len(hits) : m < n =>
               Better(fts, vec, hits[m].content_hash, hits[n].content_hash)
         /\ \A n \in 1 .. Len(hits) : Cardinality(hits[n].sources) = 2 <=>
               hits[n].content_hash \in ToSet(fts) \cap ToSet(vec)
<1> DEFINE fused == ReciprocalRankFusion(fts, vec)
           top == Top(fused, Limit)
           hydrated == Those(top, signals)
           both == {"lexical", "semantic"}
           found(h) == {s \in both : h \in ToSet(IF s = "lexical" THEN fts ELSE vec)}
           hits == [n \in DOMAIN hydrated |-> [content_hash |-> hydrated[n],
                                               sources |-> found(hydrated[n])]]
<1>1. HybridSearch(fts, vec) = hits
  BY DEF HybridSearch
<1>2. Limit \in Nat
  BY DiscoveryAssumption
<1>3. /\ OnceEach(fused)
      /\ \A m, n \in 1 .. Len(fused) : m < n => Better(fts, vec, fused[m], fused[n])
  BY FusedInOrder
<1> HIDE DEF fused
<1>4. OnceEach(top) /\ \A i \in 1 .. Len(top) : i \in 1 .. Len(fused) /\ top[i] = fused[i]
  <2>1. fused \in Seq(Hashes)
    BY <1>3 DEF OnceEach
  <2>2. QED BY <1>2, <1>3, <2>1, TopIsOnceEach, TopOf
<1> HIDE DEF top
<1>5. /\ OnceEach(hydrated)
      /\ \A m, n \in 1 .. Len(hydrated) : m < n =>
            \E i, j \in 1 .. Len(top) : i < j /\ top[i] = hydrated[m] /\ top[j] = hydrated[n]
  BY <1>4, ThoseStayInOrder
<1> HIDE DEF hydrated
<1>6. DOMAIN hydrated = 1 .. Len(hydrated) /\ Len(hydrated) \in Nat
  <2>1. hydrated \in Seq(Hashes)
    BY <1>5 DEF OnceEach
  <2>2. QED BY <2>1
<1>7. DOMAIN hits = 1 .. Len(hits) /\ Len(hits) = Len(hydrated)
  <2> DEFINE T == {hits[n] : n \in DOMAIN hydrated}
  <2>1. hits \in [1 .. Len(hydrated) -> T]
    BY <1>6
  <2> HIDE DEF hits, T
  <2>2. QED BY <1>6, <2>1
<1>8. ASSUME NEW n \in 1 .. Len(hits)
      PROVE  hits[n].content_hash = hydrated[n] /\ hits[n].sources = found(hydrated[n])
  <2>1. n \in DOMAIN hydrated
    BY <1>6, <1>7
  <2> HIDE DEF found
  <2>2. QED BY <2>1
<1>9. ASSUME NEW h PROVE Cardinality(found(h)) = 2 <=> h \in ToSet(fts) \cap ToSet(vec)
  <2>1. IsFiniteSet(both) /\ Cardinality(both) = 2
    <3>1. IsFiniteSet({"lexical"}) /\ Cardinality({"lexical"}) = 1
      BY FS_Singleton
    <3>2. IsFiniteSet({"lexical"} \cup {"semantic"})
          /\ Cardinality({"lexical"} \cup {"semantic"}) = 1 + 1
      BY <3>1, FS_AddElement
    <3>3. both = {"lexical"} \cup {"semantic"}
      OBVIOUS
    <3>4. QED BY <3>2, <3>3
  <2>2. found(h) = both <=> h \in ToSet(fts) \cap ToSet(vec)
    OBVIOUS
  <2>3. found(h) \in SUBSET both
    OBVIOUS
  <2> HIDE DEF found, both
  <2>4. Cardinality(both) = Cardinality(found(h)) => both = found(h)
    BY <2>1, <2>3, FS_Subset
  <2>5. QED BY <2>1, <2>2, <2>4
<1> HIDE DEF hits, found
<1>10. ASSUME NEW m \in 1 .. Len(hits), NEW n \in 1 .. Len(hits), m < n
       PROVE  Better(fts, vec, hits[m].content_hash, hits[n].content_hash)
  <2>1. m \in 1 .. Len(hydrated) /\ n \in 1 .. Len(hydrated)
    BY <1>7
  <2>2. \E i, j \in 1 .. Len(top) : i < j /\ top[i] = hydrated[m] /\ top[j] = hydrated[n]
    BY <1>5, <1>10, <2>1
  <2>3. PICK i, j \in 1 .. Len(top) : i < j /\ top[i] = hydrated[m] /\ top[j] = hydrated[n]
    BY <2>2
  <2>4. Better(fts, vec, fused[i], fused[j]) /\ top[i] = fused[i] /\ top[j] = fused[j]
    BY <1>3, <1>4, <2>3
  <2>5. QED BY <1>8, <2>3, <2>4
<1>11. \A n \in 1 .. Len(hits) : Cardinality(hits[n].sources) = 2 <=>
          hits[n].content_hash \in ToSet(fts) \cap ToSet(vec)
  BY <1>8, <1>9
<1>12. QED BY <1>1, <1>6, <1>7, <1>10, <1>11

LEMMA FusionFollows == ContentTypeOK => FusionIsFaithful
<1> SUFFICES ASSUME ContentTypeOK, NEW q \in Queries
    PROVE  /\ LET hits == SearchSignals(q, TRUE).hits IN
              \A m, n \in DOMAIN hits :
                m < n /\ Cardinality(hits[n].sources) = 2 => Cardinality(hits[m].sources) = 2
           /\ LET hits == SearchSignals(q, FALSE).hits IN
              [n \in DOMAIN hits |-> hits[n].content_hash] = Top(FtsCandidates(q), Limit)
  BY DEF FusionIsFaithful
<1> DEFINE fts == FtsCandidates(q)
           vec == VectorCandidates(q)
           joint == HybridSearch(fts, vec)
           alone == HybridSearch(fts, <<>>)
<1>1. SearchSignals(q, TRUE).hits = joint /\ SearchSignals(q, FALSE).hits = alone
  BY DEF SearchSignals
<1>2. /\ OnceEach(fts) /\ Len(fts) <= Pool /\ ToSet(fts) \subseteq signals
      /\ OnceEach(vec) /\ Len(vec) <= Pool
  BY Candidates
<1> HIDE DEF fts, vec
<1>3. fts \in Seq(Hashes) /\ vec \in Seq(Hashes) /\ Len(fts) \in Nat
  BY <1>2 DEF OnceEach
<1>4. ASSUME NEW m \in DOMAIN joint, NEW n \in DOMAIN joint, m < n,
             Cardinality(joint[n].sources) = 2
      PROVE  Cardinality(joint[m].sources) = 2
  <2> DEFINE g == joint[n].content_hash
             h == joint[m].content_hash
  <2>1. /\ m \in 1 .. Len(joint) /\ n \in 1 .. Len(joint)
        /\ Better(fts, vec, h, g)
        /\ g \in ToSet(fts) \cap ToSet(vec)
        /\ Cardinality(joint[m].sources) = 2 <=> h \in ToSet(fts) \cap ToSet(vec)
    BY <1>2, <1>3, <1>4, HitsInOrder
  <2> HIDE DEF joint, g, h
  <2>2. SUFFICES ASSUME h \notin ToSet(fts) \cap ToSet(vec) PROVE FALSE
    BY <2>1
  <2>3. FusedScore(fts, vec, g) > FusedScore(fts, vec, h)
    BY <1>2, <1>3, <2>1, <2>2, BothBeatOne
  <2>4. FusedScore(fts, vec, g) \in Nat /\ FusedScore(fts, vec, h) \in Nat
    BY <1>2, <1>3, ScoresAreNumbers
  <2>5. QED BY <2>1, <2>3, <2>4 DEF Better
<1>5. [n \in DOMAIN alone |-> alone[n].content_hash] = Top(fts, Limit)
  <2> DEFINE top == Top(fts, Limit)
             hydrated == Those(top, signals)
  <2>1. ReciprocalRankFusion(fts, <<>>) = fts
    BY <1>2, FusedAlone
  <2>2. OnceEach(top) /\ ToSet(top) \subseteq signals
    <3>1. Limit \in Nat
      BY DiscoveryAssumption
    <3>2. QED BY <1>2, <3>1, TopIsOnceEach
  <2> HIDE DEF top
  <2>3. hydrated = top
    BY <2>2, ThoseStayInOrder
  <2>4. DOMAIN alone = DOMAIN hydrated /\ \A n \in DOMAIN hydrated : alone[n].content_hash = hydrated[n]
    BY <2>1 DEF HybridSearch, top
  <2>5. top = [n \in DOMAIN top |-> top[n]]
    <3>1. top \in Seq(Hashes)
      BY <2>2 DEF OnceEach
    <3>2. QED BY <3>1
  <2> HIDE DEF hydrated, alone
  <2>6. QED BY <2>3, <2>4, <2>5 DEF top
<1>6. QED BY <1>1, <1>4, <1>5 DEF fts

\* Every search, with the embedding of the query or without it, over every reachable content of the
\* tables: the halves, the fusion, the hydration and the limit (search.py).
THEOREM FusionHolds == ContentSpec => []FusionIsFaithful
<1>1. ContentTypeOK => FusionIsFaithful
  BY FusionFollows
<1>2. QED BY <1>1, ContentTypesHold, PTL
=============================================================================
