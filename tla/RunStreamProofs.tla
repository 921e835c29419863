-------------------------- MODULE RunStreamProofs --------------------------
(***************************************************************************)
(* Proofs about RunStream, for any number of watchers and connections, on  *)
(* top of what RunPipelineProofs shows of the pipeline that is watched.    *)
(***************************************************************************)
EXTENDS RunStream, RunPipelineProofs

-----------------------------------------------------------------------------
(* The inductive invariant *)

\* A `done` is on its way to watcher c.
DoneSent(c) == \E delta \in Coming(c) : delta.type = "done"

\* The bumps of watcher c's run that it knows of, or will.
Known(c) ==
    snapshot[c] \cup relayed[c] \cup {delta.task : delta \in Coming(c)}
    \cup Unpublished(watched[c])

\* From the moment the row is read the watcher must not lose anything; a `done` is sent,
\* and a stream closed, only about a run that has ended.
WatchInv(c) ==
    /\ stream[c] \in {"read", "relaying"} => Bumps(watched[c]) \subseteq Known(c)
    /\ (stream[c] = "relaying" \/ (stream[c] = "read" /\ seen[c] \notin Terminal))
          /\ runs[watched[c]].status \in Terminal
             => DoneSent(c) \/ OwesDone(watched[c]) # {}
    /\ stream[c] = "read" /\ seen[c] \in Terminal => runs[watched[c]].status \in Terminal
    /\ DoneSent(c) => runs[watched[c]].status \in Terminal
    /\ stream[c] = "closed" => runs[watched[c]].status \in Terminal

StreamInv ==
    /\ FullInv
    /\ StreamTypeOK
    /\ \A c \in Watchers : WatchInv(c)
-----------------------------------------------------------------------------
(* What the steps of the pipeline do to the deltas that are still to be published *)

\* The steps of run r that publish nothing.
WorkOn(r) ==
    \/ CreateRun(r) \/ DispatchStep(r) \/ RefreshForRun(r) \/ DecideRun(r)
    \/ \E i \in Influencers : ScrapeStep(r, i)
    \/ \E x \in Signals : RateStep(r, x)

LEMMA WorkIsOfOneRun ==
  ASSUME WorkStep
  PROVE  Untouched \/ \E r \in Runs : WorkOn(r)
  BY BystanderStep DEF WorkStep, WorkOn

LEMMA WorkIsAStep ==
  ASSUME NEW r \in Runs, WorkOn(r)
  PROVE  RunStep(r)
  BY DEF WorkOn, RunStep

\* A bump brings its unpublished delta with it, and only publishing takes one away.
Pending(r) ==
    /\ \A i \in Influencers :
          /\ scrape[r][i] \in {"counted", "enqueued"} => scrape'[r][i] \in {"counted", "enqueued"}
          /\ scrape'[r][i] = "returned" => scrape[r][i] = "returned"
    /\ \A x \in Signals :
          /\ rate[r][x] \in {"say_rating", "say_done"} => rate'[r][x] = rate[r][x]
          /\ rate'[r][x] = "announced" => rate[r][x] = "announced"
    /\ finalize[r] = "say_done" => finalize'[r] = "say_done"

LEMMA WorkLeavesPending ==
  ASSUME TypeOK, NEW r \in Runs, Shape(r), WorkOn(r)
  PROVE  Pending(r)
<1> USE DEF TypeOK, scrapeTasks, ratingTasks, Pending
<1>1. CASE CreateRun(r)
  BY <1>1 DEF CreateRun
<1>2. CASE SendDispatch(r) \/ DispatchRun(r)
  BY <1>2 DEF SendDispatch, DispatchRun
<1>3. CASE StartChord(r)
  <2>1. \A i \in Influencers : scrape[r][i] = "idle" /\ scrape'[r][i] \in {"idle", "queued"}
    BY <1>3 DEF StartChord, Shape
  <2>2. QED BY <1>3, <2>1 DEF StartChord
<1>4. CASE RefreshForRun(r)
  BY <1>4 DEF RefreshForRun
<1>5. CASE DecideRun(r)
  BY <1>5 DEF DecideRun
<1>6. ASSUME NEW i \in Influencers, ScrapeStart(r, i) PROVE Pending(r)
  BY <1>6 DEF ScrapeStart
<1>7. ASSUME NEW i \in Influencers, ScrapeReturns(r, i) \/ ScrapeRaises(r, i) PROVE Pending(r)
  BY <1>7 DEF ScrapeReturns, ScrapeRaises
<1>8. ASSUME NEW i \in Influencers, CountScrape(r, i) PROVE Pending(r)
  BY <1>8 DEF CountScrape
<1>9. ASSUME NEW i \in Influencers, EnqueueRatings(r, i) PROVE Pending(r)
  <2>1. \A x \in PostsOf(i) : rate[r][x] = "idle"
    BY <1>9 DEF Shape, EnqueueRatings, PostsOf
  <2>2. \A x \in Signals : rate'[r][x] = rate[r][x] \/ (rate[r][x] = "idle" /\ rate'[r][x] = "queued")
    BY <1>9, <2>1 DEF EnqueueRatings
  <2>3. QED BY <1>9, <2>2 DEF EnqueueRatings
<1>10. ASSUME NEW x \in Signals, AnnounceRating(r, x) PROVE Pending(r)
  BY <1>10 DEF AnnounceRating
<1>11. ASSUME NEW x \in Signals, RateStep(r, x), ~AnnounceRating(r, x) PROVE Pending(r)
  BY <1>11 DEF RateStep, AlreadyRated, CallModel, StoreRating, RetryRating, GiveUpRating
<1>12. QED
  BY <1>1, <1>2, <1>3, <1>4, <1>5, <1>6, <1>7, <1>8, <1>9, <1>10, <1>11
  DEF WorkOn, DispatchStep, ScrapeStep

LEMMA SameIsPending ==
  ASSUME NEW r \in Runs, SameRun(r)
  PROVE  Pending(r)
  BY DEF SameRun, Pending

LEMMA PendingKeeps ==
  ASSUME TypeOK, TypeOK', NEW r \in Runs, Pending(r)
  PROVE  /\ Unpublished(r) \subseteq Unpublished(r)'
         /\ Bumps(r)' \subseteq Bumps(r) \cup Unpublished(r)'
         /\ OwesDone(r) \subseteq OwesDone(r)'
<1> USE DEF Pending
<1>1. Unpublished(r) \subseteq Unpublished(r)'
  BY DEF Unpublished
<1>2. Bumps(r)' \subseteq Bumps(r) \cup Unpublished(r)'
  BY DEF Bumps, Unpublished, Counted, Announced
<1>3. OwesDone(r) \subseteq OwesDone(r)'
  BY DEF OwesDone
<1>4. QED BY <1>1, <1>2, <1>3

\* What any step that publishes nothing does to any run.
LEMMA WorkKeeps ==
  ASSUME FullInv, WorkStep, NEW q \in Runs
  PROVE  /\ Unpublished(q) \subseteq Unpublished(q)'
         /\ Bumps(q)' \subseteq Bumps(q) \cup Unpublished(q)'
         /\ OwesDone(q) \subseteq OwesDone(q)'
<1>1. TypeOK /\ TypeOK' /\ Shape(q)
  BY FullInvStep DEF FullInv, IInv, Next
<1>2. Pending(q)
  <2>1. CASE Untouched
    BY <2>1, UntouchedIsSame, SameIsPending
  <2>2. ASSUME NEW r \in Runs, WorkOn(r) PROVE Pending(q)
    <3>1. CASE q = r
      BY <1>1, <2>2, <3>1, WorkLeavesPending
    <3>2. CASE q # r
      BY <1>1, <2>2, <3>2, WorkIsAStep, OtherRunsStay, SameIsPending
    <3>3. QED BY <3>1, <3>2
  <2>3. QED BY <2>1, <2>2, WorkIsOfOneRun
<1>3. QED BY <1>1, <1>2, PendingKeeps

\* A run ends in a step after which some task owes its `done`, and stays ended.
LEMMA EndingOwes ==
  ASSUME FullInv, Next, NEW q \in Runs
  PROVE  /\ runs[q].status \in Terminal => runs'[q].status \in Terminal
         /\ runs[q].status \notin Terminal /\ runs'[q].status \in Terminal
               => OwesDone(q)' # {}
<1>1. TypeOK /\ Shape(q)
  BY DEF FullInv, IInv
<1>2. CASE Untouched
  BY <1>2 DEF Untouched
<1>3. ASSUME NEW r \in Runs, RunStep(r), q # r
      PROVE  runs'[q] = runs[q]
  BY <1>1, <1>3, OtherRunsStay DEF SameRun
<1>4. CASE RunStep(q)
  BY <1>1, <1>4, TerminalStep, EndStep
<1>5. QED BY <1>2, <1>3, <1>4, StepsAreOfOneRun

-----------------------------------------------------------------------------
(* Redis: what a publication and a relay do to an inbox *)

\* What an inbox holds.
Items(s) == {s[n] : n \in DOMAIN s}

LEMMA AppendItems ==
  ASSUME NEW S, NEW s \in Seq(S), NEW e \in S
  PROVE  Items(Append(s, e)) = Items(s) \cup {e}
<1>1. /\ DOMAIN Append(s, e) = 1 .. Len(s) + 1 /\ DOMAIN s = 1 .. Len(s) /\ Len(s) \in Nat
      /\ Append(s, e)[Len(s) + 1] = e
      /\ \A n \in 1 .. Len(s) : Append(s, e)[n] = s[n]
  OBVIOUS
<1>2. QED BY <1>1 DEF Items

LEMMA HeadAndTail ==
  ASSUME NEW S, NEW s \in Seq(S), s # <<>>
  PROVE  /\ Head(s) \in S /\ Tail(s) \in Seq(S)
         /\ Items(s) = {Head(s)} \cup Items(Tail(s))
<1>1. Len(s) \in Nat \ {0} /\ DOMAIN s = 1 .. Len(s) /\ Head(s) = s[1]
  OBVIOUS
<1>2. /\ Tail(s) \in Seq(S) /\ DOMAIN Tail(s) = 1 .. Len(s) - 1
      /\ \A n \in 1 .. Len(s) - 1 : Tail(s)[n] = s[n + 1]
  OBVIOUS
<1>3. Head(s) \in S
  BY <1>1
<1>4. \A n \in 1 .. Len(s) : n = 1 \/ (n - 1 \in 1 .. Len(s) - 1 /\ s[n] = Tail(s)[n - 1])
  BY <1>1, <1>2
<1>5. Items(s) \subseteq {Head(s)} \cup Items(Tail(s))
  <2>1. SUFFICES ASSUME NEW n \in 1 .. Len(s)
                 PROVE  s[n] \in {Head(s)} \cup Items(Tail(s))
    BY <1>1 DEF Items
  <2>2. CASE n = 1
    BY <1>1, <2>2
  <2>3. CASE n - 1 \in DOMAIN Tail(s) /\ s[n] = Tail(s)[n - 1]
    BY <2>3 DEF Items
  <2>4. QED BY <1>2, <1>4, <2>2, <2>3
<1>6. {Head(s)} \cup Items(Tail(s)) \subseteq Items(s)
  BY <1>1, <1>2 DEF Items
<1>7. QED BY <1>2, <1>3, <1>5, <1>6

LEMMA ComingIsItems == \A c : Coming(c) = Items(inbox[c])
  BY DEF Coming, Items

LEMMA EmptyItems == Items(<<>>) = {}
  BY DEF Items

\* A delta reaches the watchers of its run that are subscribed, behind what they have.
LEMMA PublishFacts ==
  ASSUME StreamTypeOK, NEW r, NEW type \in {"progress", "scrape_done", "rating", "done"},
         NEW task \in Tasks, Publish(r, type, task), NEW c \in Watchers
  PROVE  /\ stream'[c] = stream[c] /\ watched'[c] = watched[c] /\ snapshot'[c] = snapshot[c]
         /\ seen'[c] = seen[c] /\ relayed'[c] = relayed[c]
         /\ inbox'[c] \in Seq(Deltas)
         /\ Coming(c)' = Coming(c) \cup
               (IF stream[c] \in Open /\ watched[c] = r
                THEN {[type |-> type, task |-> task]} ELSE {})
<1> DEFINE delta == [type |-> type, task |-> task]
<1>1. delta \in Deltas /\ inbox[c] \in Seq(Deltas)
  BY DEF Deltas, StreamTypeOK
<1>2. inbox'[c] = IF stream[c] \in Open /\ watched[c] = r THEN Append(inbox[c], delta) ELSE inbox[c]
  BY DEF Publish, Listening
<1> HIDE DEF delta
<1>3. Items(Append(inbox[c], delta)) = Items(inbox[c]) \cup {delta}
  BY <1>1, AppendItems
<1>4. Coming(c)' = Items(inbox'[c])
  BY DEF Coming, Items
<1>5. Coming(c)' = Coming(c) \cup
               (IF stream[c] \in Open /\ watched[c] = r THEN {delta} ELSE {})
  BY <1>2, <1>3, <1>4, ComingIsItems
<1>6. inbox'[c] \in Seq(Deltas)
  BY <1>1, <1>2
<1>7. QED BY <1>5, <1>6 DEF Publish, delta

\* What a task that publishes still owes afterwards: all but the delta it sent.
LEMMA ProgressKeeps ==
  ASSUME TypeOK, NEW r \in Runs, NEW i \in Influencers, PublishProgress(r, i)
  PROVE  /\ Unpublished(r) \subseteq Unpublished(r)' \cup {ScrapeTask(r, i)}
         /\ Bumps(r)' \subseteq Bumps(r)
         /\ OwesDone(r)' = OwesDone(r)
         /\ runs' = runs
<1>1. \A j \in Influencers : j # i => scrape'[r][j] = scrape[r][j]
  BY DEF TypeOK, PublishProgress
<1>2. scrape[r][i] = "enqueued" /\ scrape'[r][i] = "returned"
  BY DEF TypeOK, PublishProgress
<1>3. rate' = rate /\ finalize' = finalize /\ runs' = runs
  BY DEF PublishProgress, ratingTasks
<1>4. Unpublished(r) \subseteq Unpublished(r)' \cup {ScrapeTask(r, i)}
  BY <1>1, <1>3 DEF Unpublished
<1>5. Counted(r)' = Counted(r) /\ Announced(r)' = Announced(r) /\ OwesDone(r)' = OwesDone(r)
  BY <1>1, <1>2, <1>3 DEF Counted, Announced, OwesDone
<1>6. QED BY <1>3, <1>4, <1>5 DEF Bumps

LEMMA FanInKeeps ==
  ASSUME TypeOK, NEW r \in Runs, PublishFanIn(r)
  PROVE  /\ Unpublished(r)' = Unpublished(r) /\ Bumps(r)' = Bumps(r)
         /\ finalize[r] # "say_done" => OwesDone(r) \subseteq OwesDone(r)'
         /\ runs' = runs
<1>1. scrape' = scrape /\ rate' = rate /\ runs' = runs
  BY DEF PublishFanIn, scrapeTasks, ratingTasks
<1>2. QED BY <1>1 DEF Unpublished, Bumps, Counted, Announced, OwesDone

LEMMA RatingKeeps ==
  ASSUME TypeOK, NEW r \in Runs, NEW x \in Signals, PublishRating(r, x)
  PROVE  /\ Unpublished(r) \subseteq Unpublished(r)' \cup {RateTask(r, x)}
         /\ Bumps(r)' \subseteq Bumps(r)
         /\ rate[r][x] # "say_done" => OwesDone(r) \subseteq OwesDone(r)'
         /\ runs' = runs
<1>1. \A y \in Signals : y # x => rate'[r][y] = rate[r][y]
  BY DEF TypeOK, PublishRating
<1>2. rate[r][x] \in {"say_rating", "say_done"} /\ rate'[r][x] = "announced"
  BY DEF TypeOK, PublishRating
<1>3. scrape' = scrape /\ finalize' = finalize /\ runs' = runs
  BY DEF PublishRating, scrapeTasks
<1>4. Unpublished(r) \subseteq Unpublished(r)' \cup {RateTask(r, x)}
  BY <1>1, <1>3 DEF Unpublished
<1>5. Counted(r)' = Counted(r) /\ Announced(r)' = Announced(r)
  BY <1>1, <1>2, <1>3 DEF Counted, Announced
<1>6. rate[r][x] # "say_done" => OwesDone(r) \subseteq OwesDone(r)'
  BY <1>1, <1>3 DEF OwesDone
<1>7. QED BY <1>3, <1>4, <1>5, <1>6 DEF Bumps

-----------------------------------------------------------------------------
(* Type correctness *)

LEMMA StreamTypeStep ==
  ASSUME StreamTypeOK, FullInv, [StreamNext]_allVars
  PROVE  StreamTypeOK'
<1> USE DEF StreamTypeOK, StreamStates
<1>1. TypeOK
  BY DEF FullInv, IInv
<1>2. CASE UNCHANGED streamVars
  BY <1>2 DEF streamVars
<1>3. CASE PublishedStep
  <2>1. ASSUME NEW r \in Runs, NEW type \in {"progress", "scrape_done", "rating", "done"},
               NEW task \in Tasks, Publish(r, type, task)
        PROVE  StreamTypeOK'
    <3>1. \A c \in Watchers : inbox'[c] \in Seq(Deltas)
      BY <2>1, PublishFacts
    <3>2. inbox' \in [Watchers -> Seq(Deltas)]
      BY <2>1, <3>1 DEF Publish
    <3>3. \A c \in Watchers : inbox'[c] # <<>> => stream[c] \in Open
      BY <2>1 DEF Publish, Listening
    <3>4. QED BY <2>1, <3>2, <3>3 DEF Publish
  <2>2. /\ \A r \in Runs : FinalizeTask(r) \in Tasks
        /\ \A r \in Runs, i \in Influencers : ScrapeTask(r, i) \in Tasks
        /\ \A r \in Runs, x \in Signals : RateTask(r, x) \in Tasks
    BY DEF Tasks, FinalizeTask, ScrapeTask, RateTask
  <2>3. QED BY <1>3, <2>1, <2>2 DEF PublishedStep
<1>4. ASSUME NEW c \in Watchers, NEW r \in Runs, Connect(c, r) PROVE StreamTypeOK'
  <2>1. <<>> \in Seq(Deltas)
    OBVIOUS
  <2>2. connects + 1 \in 0 .. MaxConnects
    BY <1>4, ConnectsAssumption DEF Connect
  <2>3. QED BY <1>4, <2>1, <2>2 DEF Connect, Statuses
<1>5. ASSUME NEW c \in Watchers, ReadSnapshot(c) PROVE StreamTypeOK'
  <2>1. Bumps(watched[c]) \subseteq Tasks
    BY DEF Bumps, Counted, Announced, Tasks, ScrapeTask, RateTask
  <2>2. runs[watched[c]].status \in Statuses
    BY <1>1 DEF TypeOK, RunRow
  <2>3. QED BY <1>5, <2>1, <2>2 DEF ReadSnapshot, Open
<1>6. ASSUME NEW c \in Watchers, SendSnapshot(c) PROVE StreamTypeOK'
  <2>1. AfterSnapshot(seen[c]) \in StreamStates
    BY DEF AfterSnapshot
  <2>2. stream' \in [Watchers -> StreamStates]
    BY <1>6, <2>1 DEF SendSnapshot
  <2>3. inbox' = [inbox EXCEPT ![c] = IF stream'[c] = "relaying" THEN inbox[c] ELSE <<>>]
    BY <1>6 DEF SendSnapshot
  <2>4. <<>> \in Seq(Deltas)
    OBVIOUS
  <2>5. inbox' \in [Watchers -> Seq(Deltas)]
    BY <2>3, <2>4
  <2>6. \A d \in Watchers : inbox'[d] # <<>> => stream'[d] \in Open
    BY <1>6, <2>3 DEF SendSnapshot, Open
  <2>7. QED BY <1>6, <2>2, <2>5, <2>6 DEF SendSnapshot
<1>7. ASSUME NEW c \in Watchers, Relay(c) PROVE StreamTypeOK'
  <2>1. Head(inbox[c]) \in Deltas /\ Tail(inbox[c]) \in Seq(Deltas)
    BY <1>7, HeadAndTail DEF Relay
  <2>2. Head(inbox[c]).task \in Tasks
    BY <2>1 DEF Deltas
  <2>3. inbox' = [inbox EXCEPT ![c] = IF stream'[c] = "relaying" THEN Tail(inbox[c]) ELSE <<>>]
    BY <1>7 DEF Relay
  <2>4. <<>> \in Seq(Deltas)
    OBVIOUS
  <2>5. inbox' \in [Watchers -> Seq(Deltas)]
    BY <2>1, <2>3, <2>4
  <2>6. stream' \in [Watchers -> StreamStates] /\ relayed' \in [Watchers -> SUBSET Tasks]
    BY <1>7, <2>2 DEF Relay
  <2>7. \A d \in Watchers : inbox'[d] # <<>> => stream'[d] \in Open
    BY <1>7, <2>3 DEF Relay, Open
  <2>8. QED BY <1>7, <2>5, <2>6, <2>7 DEF Relay
<1>8. ASSUME NEW c \in Watchers, Disconnect(c) PROVE StreamTypeOK'
  <2>1. <<>> \in Seq(Deltas)
    OBVIOUS
  <2>2. QED BY <1>8, <2>1 DEF Disconnect
<1>9. QED
  BY <1>2, <1>3, <1>4, <1>5, <1>6, <1>7, <1>8 DEF StreamNext, allVars

\* A step of the composition is a step of the pipeline, or leaves it alone.
LEMMA StreamStepIsAStep ==
  ASSUME [StreamNext]_allVars
  PROVE  [Next]_pipelineVars
<1>1. PublishedStep => PublishStep
  BY DEF PublishedStep, PublishStep
<1>2. QED
  BY <1>1 DEF StreamNext, allVars, Next, Connect, ReadSnapshot, SendSnapshot, Relay, Disconnect

-----------------------------------------------------------------------------
(* Every step preserves WatchInv *)

\* While a watcher does nothing, the tasks of its run may bump the row and end the run.
LEMMA WorkWatch ==
  ASSUME FullInv, StreamTypeOK, WorkStep, UNCHANGED streamVars,
         NEW c \in Watchers, NEW q \in Runs, q = watched[c], WatchInv(c)
  PROVE  WatchInv(c)'
<1>1. q \in Runs
  OBVIOUS
<1>2. /\ Unpublished(q) \subseteq Unpublished(q)'
      /\ Bumps(q)' \subseteq Bumps(q) \cup Unpublished(q)'
      /\ OwesDone(q) \subseteq OwesDone(q)'
  BY <1>1, WorkKeeps
<1>3. /\ runs[q].status \in Terminal => runs'[q].status \in Terminal
      /\ runs[q].status \notin Terminal /\ runs'[q].status \in Terminal => OwesDone(q)' # {}
  BY <1>1, EndingOwes DEF Next
<1>4. /\ stream' = stream /\ watched' = watched /\ snapshot' = snapshot /\ seen' = seen
      /\ relayed' = relayed /\ inbox' = inbox
  BY DEF streamVars
<1>5. Unpublished(watched[c])' = Unpublished(q)' /\ Bumps(watched[c])' = Bumps(q)'
      /\ OwesDone(watched[c])' = OwesDone(q)'
  BY <1>4 DEF Unpublished, Bumps, OwesDone, Counted, Announced
<1>6. Coming(c)' = Coming(c) /\ (DoneSent(c)' <=> DoneSent(c))
  BY <1>4 DEF Coming, DoneSent
<1>7. Known(c) \subseteq Known(c)' /\ Unpublished(q)' \subseteq Known(c)'
  BY <1>2, <1>4, <1>5, <1>6 DEF Known
<1>8. watched'[c] = q /\ watched[c] = q
  BY <1>4
<1>9. stream[c] \in {"read", "relaying"} => Bumps(watched[c])' \subseteq Known(c)'
  BY <1>2, <1>5, <1>7, <1>8 DEF WatchInv
<1>10. (stream[c] = "relaying" \/ (stream[c] = "read" /\ seen[c] \notin Terminal))
          /\ runs'[q].status \in Terminal
             => DoneSent(c) \/ OwesDone(watched[c])' # {}
  BY <1>2, <1>3, <1>5, <1>8 DEF WatchInv
<1>11. QED BY <1>3, <1>4, <1>6, <1>8, <1>9, <1>10 DEF WatchInv

\* A delta is published: those who listen get it, and the task no longer owes it.
LEMMA PublishWatch ==
  ASSUME FullInv, FullInv', StreamTypeOK, NEW r \in Runs,
         NEW type \in {"progress", "scrape_done", "rating", "done"}, NEW task \in Tasks,
         RunStep(r), runs' = runs, Publish(r, type, task),
         Unpublished(r) \subseteq Unpublished(r)' \cup {task},
         Bumps(r)' \subseteq Bumps(r),
         type # "done" => OwesDone(r) \subseteq OwesDone(r)',
         type = "done" => OwesDone(r) # {},
         NEW c \in Watchers, NEW q \in Runs, q = watched[c], WatchInv(c)
  PROVE  WatchInv(c)'
<1> DEFINE delta == [type |-> type, task |-> task]
<1>1. TypeOK
  BY DEF FullInv, IInv
<1>2. /\ stream'[c] = stream[c] /\ watched'[c] = watched[c] /\ snapshot'[c] = snapshot[c]
      /\ seen'[c] = seen[c] /\ relayed'[c] = relayed[c]
      /\ Coming(c)' = Coming(c) \cup
            (IF stream[c] \in Open /\ watched[c] = r THEN {delta} ELSE {})
  BY ONLY StreamTypeOK, Publish(r, type, task), PublishFacts,
             type \in {"progress", "scrape_done", "rating", "done"}, task \in Tasks
<1>3. Unpublished(watched[c])' = Unpublished(q)' /\ Bumps(watched[c])' = Bumps(q)'
      /\ OwesDone(watched[c])' = OwesDone(q)'
  BY <1>2 DEF Unpublished, Bumps, OwesDone, Counted, Announced
<1>4. q # r => /\ Unpublished(q)' = Unpublished(q) /\ Bumps(q)' = Bumps(q)
               /\ OwesDone(q)' = OwesDone(q)
  BY <1>1, OtherRunsStay DEF SameRun, Unpublished, Bumps, OwesDone, Counted, Announced
<1>5. delta.type = type /\ delta.task = task
  OBVIOUS
<1> HIDE DEF delta
<1>6. watched[c] = q /\ watched'[c] = q
  BY <1>2
<1>7. DoneSent(c)' <=> DoneSent(c) \/ (stream[c] \in Open /\ q = r /\ type = "done")
  BY <1>2, <1>5, <1>6 DEF DoneSent
<1>8. stream[c] \in {"read", "relaying"} => Known(c) \subseteq Known(c)'
  <2>1. {d.task : d \in Coming(c)} \subseteq {d.task : d \in Coming(c)'}
    BY <1>2
  <2>2. stream[c] \in {"read", "relaying"} /\ q = r => task \in {d.task : d \in Coming(c)'}
    BY <1>2, <1>5, <1>6 DEF Open
  <2>3. q # r => Unpublished(q)' = Unpublished(q)
    BY <1>4
  <2>4. q = r => Unpublished(q) \subseteq Unpublished(q)' \cup {task}
    OBVIOUS
  <2>5. QED BY <1>2, <1>3, <1>6, <2>1, <2>2, <2>3, <2>4 DEF Known
<1>9. Bumps(q)' \subseteq Bumps(q)
  BY <1>4
<1>10. stream[c] \in {"read", "relaying"} => Bumps(watched[c])' \subseteq Known(c)'
  BY <1>3, <1>6, <1>8, <1>9 DEF WatchInv
<1>11. OwesDone(r) # {} => runs[r].status \in Terminal
  BY DEF FullInv, EndInv
<1>12. DoneSent(c)' => runs[q].status \in Terminal
  BY <1>6, <1>7, <1>11 DEF WatchInv
<1>13. (stream[c] = "relaying" \/ (stream[c] = "read" /\ seen[c] \notin Terminal))
          /\ runs[q].status \in Terminal
             => DoneSent(c)' \/ OwesDone(watched[c])' # {}
  <2>1. SUFFICES ASSUME stream[c] = "relaying" \/ (stream[c] = "read" /\ seen[c] \notin Terminal),
                        runs[q].status \in Terminal, ~DoneSent(c)'
                 PROVE  OwesDone(q)' # {}
    BY <1>3
  <2>2. OwesDone(q) # {}
    BY <1>6, <1>7, <2>1 DEF WatchInv
  <2>3. q = r => type # "done"
    BY <1>7, <2>1 DEF Open
  <2>4. QED BY <1>4, <2>2, <2>3
<1>14. QED BY <1>2, <1>6, <1>10, <1>12, <1>13 DEF WatchInv

LEMMA PublishedWatch ==
  ASSUME FullInv, FullInv', StreamTypeOK, PublishedStep,
         NEW c \in Watchers, NEW q \in Runs, q = watched[c], WatchInv(c)
  PROVE  WatchInv(c)'
<1>1. TypeOK
  BY DEF FullInv, IInv
<1>2. ASSUME NEW r \in Runs, NEW i \in Influencers,
             PublishProgress(r, i), Publish(r, "progress", ScrapeTask(r, i))
      PROVE  WatchInv(c)'
  <2>1. ScrapeTask(r, i) \in Tasks /\ RunStep(r)
    BY <1>2 DEF Tasks, ScrapeTask, RunStep
  <2>2. QED BY <1>1, <1>2, <2>1, ProgressKeeps, PublishWatch
<1>3. ASSUME NEW r \in Runs, PublishFanIn(r),
             Publish(r, IF finalize[r] = "say_done" THEN "done" ELSE "scrape_done",
                     FinalizeTask(r))
      PROVE  WatchInv(c)'
  <2>1. FinalizeTask(r) \in Tasks /\ RunStep(r)
    BY <1>3 DEF Tasks, FinalizeTask, RunStep
  <2>2. /\ Unpublished(r)' = Unpublished(r) /\ Bumps(r)' = Bumps(r) /\ runs' = runs
        /\ finalize[r] # "say_done" => OwesDone(r) \subseteq OwesDone(r)'
    BY <1>1, <1>3, FanInKeeps
  <2>3. CASE finalize[r] = "say_done"
    <3>1. Publish(r, "done", FinalizeTask(r)) /\ OwesDone(r) # {}
      BY <1>3, <2>3 DEF OwesDone
    <3>2. QED BY <2>1, <2>2, <3>1, PublishWatch
  <2>4. CASE finalize[r] # "say_done"
    <3>1. Publish(r, "scrape_done", FinalizeTask(r))
      BY <1>3, <2>4
    <3>2. QED BY <2>1, <2>2, <2>4, <3>1, PublishWatch
  <2>5. QED BY <2>3, <2>4
<1>4. ASSUME NEW r \in Runs, NEW x \in Signals, PublishRating(r, x),
             Publish(r, IF rate[r][x] = "say_done" THEN "done" ELSE "rating", RateTask(r, x))
      PROVE  WatchInv(c)'
  <2>1. RateTask(r, x) \in Tasks /\ RunStep(r)
    BY <1>4 DEF Tasks, RateTask, RunStep
  <2>2. /\ Unpublished(r) \subseteq Unpublished(r)' \cup {RateTask(r, x)}
        /\ Bumps(r)' \subseteq Bumps(r) /\ runs' = runs
        /\ rate[r][x] # "say_done" => OwesDone(r) \subseteq OwesDone(r)'
    BY <1>1, <1>4, RatingKeeps
  <2>3. CASE rate[r][x] = "say_done"
    <3>1. Publish(r, "done", RateTask(r, x)) /\ OwesDone(r) # {}
      BY <1>4, <2>3 DEF OwesDone
    <3>2. QED BY <2>1, <2>2, <3>1, PublishWatch
  <2>4. CASE rate[r][x] # "say_done"
    <3>1. Publish(r, "rating", RateTask(r, x))
      BY <1>4, <2>4
    <3>2. QED BY <2>1, <2>2, <2>4, <3>1, PublishWatch
  <2>5. QED BY <2>3, <2>4
<1>5. QED BY <1>2, <1>3, <1>4 DEF PublishedStep

\* What a watcher's own step leaves to the others, and what it leaves of the pipeline.
WatcherStep(c) ==
    \/ \E r \in Runs : Connect(c, r)
    \/ ReadSnapshot(c) \/ SendSnapshot(c) \/ Relay(c) \/ Disconnect(c)

LEMMA OtherWatchersStay ==
  ASSUME StreamTypeOK, NEW c \in Watchers, WatcherStep(c), NEW d \in Watchers, d # c,
         WatchInv(d)
  PROVE  WatchInv(d)'
<1>1. /\ stream'[d] = stream[d] /\ watched'[d] = watched[d] /\ snapshot'[d] = snapshot[d]
      /\ seen'[d] = seen[d] /\ relayed'[d] = relayed[d] /\ inbox'[d] = inbox[d]
      /\ UNCHANGED pipelineVars
  BY DEF StreamTypeOK, WatcherStep, Connect, ReadSnapshot, SendSnapshot, Relay, Disconnect
<1>2. QED BY <1>1 DEF WatchInv, Known, DoneSent, Coming, Bumps, Unpublished, OwesDone,
                      Counted, Announced, pipelineVars

LEMMA ConnectWatch ==
  ASSUME StreamTypeOK, NEW c \in Watchers, NEW r \in Runs, Connect(c, r)
  PROVE  WatchInv(c)'
<1>1. stream'[c] = "subscribed" /\ inbox'[c] = <<>>
  BY DEF StreamTypeOK, Connect
<1>2. Coming(c)' = {}
  BY <1>1 DEF Coming
<1>3. QED BY <1>1, <1>2 DEF WatchInv, DoneSent

LEMMA ReadWatch ==
  ASSUME StreamTypeOK, NEW c \in Watchers, WatchInv(c), ReadSnapshot(c)
  PROVE  WatchInv(c)'
<1>1. /\ stream'[c] = "read" /\ snapshot'[c] = Bumps(watched[c])
      /\ seen'[c] = runs[watched[c]].status
      /\ watched' = watched /\ inbox' = inbox /\ UNCHANGED pipelineVars
  BY DEF StreamTypeOK, ReadSnapshot
<1>2. Bumps(watched[c])' = Bumps(watched[c]) /\ runs'[watched'[c]] = runs[watched[c]]
  BY <1>1 DEF pipelineVars, Bumps, Counted, Announced
<1>3. DoneSent(c)' <=> DoneSent(c)
  BY <1>1 DEF DoneSent, Coming
<1>4. QED BY <1>1, <1>2, <1>3 DEF WatchInv, Known

LEMMA SendWatch ==
  ASSUME StreamTypeOK, NEW c \in Watchers, WatchInv(c), SendSnapshot(c)
  PROVE  WatchInv(c)'
<1>1. /\ stream[c] = "read" /\ stream'[c] = AfterSnapshot(seen[c])
      /\ inbox'[c] = IF stream'[c] = "relaying" THEN inbox[c] ELSE <<>>
      /\ UNCHANGED <<pipelineVars, watched, snapshot, seen, relayed>>
  BY DEF StreamTypeOK, SendSnapshot
<1>2. /\ Bumps(watched[c])' = Bumps(watched[c]) /\ runs'[watched'[c]] = runs[watched[c]]
      /\ Unpublished(watched[c])' = Unpublished(watched[c])
      /\ OwesDone(watched[c])' = OwesDone(watched[c])
  BY <1>1 DEF pipelineVars, Bumps, Unpublished, OwesDone, Counted, Announced
<1>3. CASE stream'[c] = "relaying"
  <2>1. seen[c] \notin Terminal
    BY <1>1, <1>3 DEF AfterSnapshot
  <2>2. Coming(c)' = Coming(c)
    BY <1>1, <1>3 DEF Coming
  <2>3. Known(c)' = Known(c) /\ (DoneSent(c)' <=> DoneSent(c))
    BY <1>1, <1>2, <2>2 DEF Known, DoneSent
  <2>4. QED BY <1>1, <1>2, <1>3, <2>1, <2>3 DEF WatchInv
<1>4. CASE stream'[c] # "relaying"
  <2>1. Coming(c)' = {}
    BY <1>1, <1>4 DEF Coming
  <2>2. stream'[c] \in {"closed", "not_found"} /\ (stream'[c] = "closed" => seen[c] \in Terminal)
    BY <1>1, <1>4 DEF AfterSnapshot
  <2>3. stream'[c] = "closed" => runs[watched[c]].status \in Terminal
    BY <1>1, <2>2 DEF WatchInv
  <2>4. QED BY <1>2, <2>1, <2>2, <2>3 DEF WatchInv, DoneSent
<1>5. QED BY <1>3, <1>4

LEMMA RelayWatch ==
  ASSUME StreamTypeOK, NEW c \in Watchers, WatchInv(c), Relay(c)
  PROVE  WatchInv(c)'
<1> DEFINE delta == Head(inbox[c])
<1>1. /\ stream[c] = "relaying" /\ inbox[c] # <<>> /\ inbox[c] \in Seq(Deltas)
      /\ stream'[c] = IF delta.type = "done" THEN "closed" ELSE "relaying"
      /\ relayed'[c] = relayed[c] \cup {delta.task}
      /\ inbox'[c] = IF stream'[c] = "relaying" THEN Tail(inbox[c]) ELSE <<>>
      /\ UNCHANGED <<pipelineVars, watched, snapshot, seen>>
  BY DEF StreamTypeOK, Relay, ClosesOn
<1>2. /\ Bumps(watched[c])' = Bumps(watched[c]) /\ runs'[watched'[c]] = runs[watched[c]]
      /\ Unpublished(watched[c])' = Unpublished(watched[c])
      /\ OwesDone(watched[c])' = OwesDone(watched[c])
  BY <1>1 DEF pipelineVars, Bumps, Unpublished, OwesDone, Counted, Announced
<1>3. Coming(c) = {delta} \cup Items(Tail(inbox[c]))
  BY <1>1, HeadAndTail, ComingIsItems
<1>4. Coming(c)' = Items(inbox'[c])
  BY DEF Coming, Items
<1> HIDE DEF delta
<1>5. CASE delta.type = "done"
  <2>1. Coming(c)' = {}
    BY <1>1, <1>4, <1>5, EmptyItems
  <2>2. runs[watched[c]].status \in Terminal
    BY <1>3, <1>5 DEF WatchInv, DoneSent
  <2>3. QED BY <1>1, <1>2, <1>5, <2>1, <2>2 DEF WatchInv, DoneSent
<1>6. CASE delta.type # "done"
  <2>1. Coming(c) = {delta} \cup Coming(c)'
    BY <1>1, <1>3, <1>4, <1>6
  <2>2. DoneSent(c)' <=> DoneSent(c)
    BY <1>6, <2>1 DEF DoneSent
  <2>3. {d.task : d \in Coming(c)} = {delta.task} \cup {d.task : d \in Coming(c)'}
    BY <2>1
  <2>4. Known(c)' = Known(c)
    BY <1>1, <1>2, <2>3 DEF Known
  <2>5. QED BY <1>1, <1>2, <1>6, <2>2, <2>4 DEF WatchInv
<1>7. QED BY <1>5, <1>6

LEMMA DisconnectWatch ==
  ASSUME StreamTypeOK, NEW c \in Watchers, Disconnect(c)
  PROVE  WatchInv(c)'
<1>1. stream'[c] = "off" /\ inbox'[c] = <<>>
  BY DEF StreamTypeOK, Disconnect
<1>2. Coming(c)' = {}
  BY <1>1 DEF Coming
<1>3. QED BY <1>1, <1>2 DEF WatchInv, DoneSent

-----------------------------------------------------------------------------
(* The theorems *)

LEMMA InitStreamInv == StreamInit => StreamInv
<1> SUFFICES ASSUME StreamInit PROVE StreamInv
  OBVIOUS
<1>1. FullInv
  BY InitFullInv DEF StreamInit
<1>2. <<>> \in Seq(Deltas)
  OBVIOUS
<1>3. StreamTypeOK
  BY <1>2, ConnectsAssumption DEF StreamInit, StreamTypeOK, StreamStates, Statuses
<1>4. \A c \in Watchers : stream[c] = "off" /\ Coming(c) = {}
  BY DEF StreamInit, Coming
<1>5. QED BY <1>1, <1>3, <1>4 DEF StreamInv, WatchInv, DoneSent

LEMMA StreamInvStep == StreamInv /\ [StreamNext]_allVars => StreamInv'
<1> SUFFICES ASSUME StreamInv, [StreamNext]_allVars PROVE StreamInv'
  OBVIOUS
<1>1. FullInv /\ FullInv' /\ StreamTypeOK
  BY StreamStepIsAStep, FullInvStep DEF StreamInv
<1>2. StreamTypeOK'
  BY <1>1, StreamTypeStep
<1>3. ASSUME NEW d \in Watchers PROVE WatchInv(d)'
  <2>1. PICK q \in Runs : q = watched[d]
    BY <1>1 DEF StreamTypeOK
  <2>2. WatchInv(d)
    BY DEF StreamInv
  <2>3. CASE WorkStep /\ UNCHANGED streamVars
    BY <1>1, <2>1, <2>2, <2>3, WorkWatch
  <2>4. CASE PublishedStep
    BY <1>1, <2>1, <2>2, <2>4, PublishedWatch
  <2>5. ASSUME NEW c \in Watchers, WatcherStep(c) PROVE WatchInv(d)'
    <3>1. CASE c = d
      BY <1>1, <2>2, <2>5, <3>1, ConnectWatch, ReadWatch, SendWatch, RelayWatch,
         DisconnectWatch DEF WatcherStep
    <3>2. CASE c # d
      BY <1>1, <2>2, <2>5, <3>2, OtherWatchersStay
    <3>3. QED BY <3>1, <3>2
  <2>6. CASE UNCHANGED allVars
    BY <2>2, <2>6 DEF allVars, pipelineVars, streamVars, WatchInv, Known, DoneSent, Coming,
                      Bumps, Unpublished, OwesDone, Counted, Announced
  <2>7. QED BY <2>3, <2>4, <2>5, <2>6 DEF StreamNext, WatcherStep
<1>4. QED BY <1>1, <1>2, <1>3 DEF StreamInv

LEMMA StreamInvariance == StreamSpec => []StreamInv
  BY InitStreamInv, StreamInvStep, PTL DEF StreamSpec

\* The generators keep their types, and only an open one holds deltas: a stream that has
\* ended, whichever way, has unsubscribed.
THEOREM StreamTypesHold == StreamSpec => []StreamTypeOK
  BY StreamInvariance, PTL DEF StreamInv

\* Subscribing before the snapshot is enough: whatever the pipeline commits or publishes
\* meanwhile, each bump is in the snapshot, relayed, on its way or still to be published.
THEOREM NothingFallsBetween == StreamSpec => []NoGap
<1>1. StreamInv => NoGap
  BY DEF StreamInv, WatchInv, Known, NoGap
<1>2. QED BY <1>1, StreamInvariance, PTL

\* Whenever the row ends, before, between or after the subscription and the snapshot, a
\* watcher that still waits has a `done` coming, and only an ended run's stream is closed.
THEOREM TheEndIsTold == StreamSpec => []DoneIsComing
<1>1. StreamInv => DoneIsComing
  BY DEF StreamInv, WatchInv, DoneSent, DoneIsComing
<1>2. QED BY <1>1, StreamInvariance, PTL

-----------------------------------------------------------------------------
(* Watching does not interfere *)

\* Whatever the browsers do, connect, stall, disconnect, the pipeline behind the streams
\* takes only steps it could take unwatched: stream_run reads the row and writes nothing.
THEOREM WatchersOnlyWatch == StreamSpec => Spec
<1>1. StreamInit => Init
  BY DEF StreamInit
<1>2. [StreamNext]_allVars => [Next]_pipelineVars
  BY StreamStepIsAStep
<1>3. QED BY <1>1, <1>2, PTL DEF StreamSpec, Spec

\* A watched run goes through the lifecycle of the runs table, and no other.
THEOREM WatchedRunsKeepTheirLifecycle == StreamSpec => LifecycleSpec
  BY WatchersOnlyWatch, RefinementTheorem, PTL
=============================================================================
