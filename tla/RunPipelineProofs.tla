------------------------- MODULE RunPipelineProofs -------------------------
(***************************************************************************)
(* Proofs about RunPipeline, for any set of runs, influencers and signals, *)
(* any number of retries and any number of tasks that stop half way; the   *)
(* last section is about RunUncaught, where a model call may raise.        *)
(***************************************************************************)
EXTENDS RunUncaught, FiniteSetTheorems, TLAPS

-----------------------------------------------------------------------------
(* Type correctness *)

LEMMA InitTypeOK == Init => TypeOK
  BY BoundsAssumption
  DEF Init, TypeOK, NoRun, RunRow, Statuses, DispatchStates, ScrapeStates, FinalizeStates,
      RateStates, Tasks

\* A finite set's size is a natural number: what the counters are bumped by.
LEMMA SizesAreNatural ==
  /\ \A S \in SUBSET Influencers : Cardinality(S) \in Nat
  /\ \A S \in SUBSET Signals : Cardinality(S) \in Nat
  BY RunsAssumption, FS_Subset, FS_CardinalityType

\* What each statement on a row writes, and what it leaves alone.
LEMMA InsertedRowFacts ==
  ASSUME NEW model \in BOOLEAN, NEW total \in Nat
  PROVE  /\ InsertedRow(model, total) \in RunRow
         /\ InsertedRow(model, total).status = "queued"
         /\ InsertedRow(model, total).model = model
         /\ InsertedRow(model, total).total = total
         /\ InsertedRow(model, total).done_count = 0
         /\ InsertedRow(model, total).inserted = 0
         /\ InsertedRow(model, total).rated_count = 0
         /\ InsertedRow(model, total).finished = FALSE
  BY DEF InsertedRow, NoRun, RunRow, Statuses

LEMMA TrueUpTotalFacts ==
  ASSUME NEW row \in RunRow, NEW n \in Nat
  PROVE  /\ TrueUpTotal(row, n) \in RunRow
         /\ TrueUpTotal(row, n).total = n
         /\ TrueUpTotal(row, n).status = row.status
         /\ TrueUpTotal(row, n).model = row.model
         /\ TrueUpTotal(row, n).done_count = row.done_count
         /\ TrueUpTotal(row, n).inserted = row.inserted
         /\ TrueUpTotal(row, n).rated_count = row.rated_count
         /\ TrueUpTotal(row, n).finished = row.finished
  BY DEF TrueUpTotal, RunRow

LEMMA MarkRunningFacts ==
  ASSUME NEW row \in RunRow
  PROVE  /\ MarkRunning(row) \in RunRow
         /\ MarkRunning(row).status = (IF row.status = "queued" THEN "running" ELSE row.status)
         /\ MarkRunning(row).model = row.model
         /\ MarkRunning(row).total = row.total
         /\ MarkRunning(row).done_count = row.done_count
         /\ MarkRunning(row).inserted = row.inserted
         /\ MarkRunning(row).rated_count = row.rated_count
         /\ MarkRunning(row).finished = row.finished
  BY DEF MarkRunning, RunRow, Statuses

LEMMA AddScrapeFacts ==
  ASSUME NEW row \in RunRow, NEW n \in Nat
  PROVE  /\ AddScrape(row, n) \in RunRow
         /\ AddScrape(row, n).done_count = row.done_count + 1
         /\ AddScrape(row, n).inserted = row.inserted + n
         /\ AddScrape(row, n).status = row.status
         /\ AddScrape(row, n).model = row.model
         /\ AddScrape(row, n).total = row.total
         /\ AddScrape(row, n).rated_count = row.rated_count
         /\ AddScrape(row, n).finished = row.finished
<1>1. ASSUME NEW a \in Nat, NEW b \in Nat
      PROVE  [row EXCEPT !.done_count = a, !.inserted = b] \in RunRow
  BY DEF RunRow
<1>2. row.done_count + 1 \in Nat /\ row.inserted + n \in Nat
  BY DEF RunRow
<1>3. AddScrape(row, n) \in RunRow
  BY <1>1, <1>2 DEF AddScrape
<1>4. QED BY <1>3 DEF AddScrape, RunRow

LEMMA DecideFacts ==
  ASSUME NEW row \in RunRow, NEW status \in {"failed", "rating", "completed"}
  PROVE  /\ Decide(row, status) \in RunRow
         /\ Decide(row, status).status = status
         /\ Decide(row, status).finished <=> (row.finished \/ status \in Terminal)
         /\ Decide(row, status).model = row.model
         /\ Decide(row, status).total = row.total
         /\ Decide(row, status).done_count = row.done_count
         /\ Decide(row, status).inserted = row.inserted
         /\ Decide(row, status).rated_count = row.rated_count
  BY DEF Decide, RunRow, Statuses, Terminal

LEMMA AddRatingFacts ==
  ASSUME NEW row \in RunRow
  PROVE  /\ AddRating(row) \in RunRow
         /\ AddRating(row).status = (IF LastRating(row) THEN "completed" ELSE row.status)
         /\ AddRating(row).rated_count = row.rated_count + 1
         /\ AddRating(row).finished <=> (row.finished \/ LastRating(row))
         /\ AddRating(row).model = row.model
         /\ AddRating(row).total = row.total
         /\ AddRating(row).done_count = row.done_count
         /\ AddRating(row).inserted = row.inserted
<1>1. ASSUME NEW a \in Nat, NEW b \in Statuses, NEW c \in BOOLEAN
      PROVE  [row EXCEPT !.rated_count = a, !.status = b, !.finished = c] \in RunRow
  BY DEF RunRow
<1>2. /\ row.rated_count + 1 \in Nat
      /\ (IF LastRating(row) THEN "completed" ELSE row.status) \in Statuses
      /\ (row.finished \/ LastRating(row)) \in BOOLEAN
  BY DEF RunRow, Statuses, LastRating
<1>3. AddRating(row) \in RunRow
  BY <1>1, <1>2 DEF AddRating
<1>4. QED BY <1>3 DEF AddRating, RunRow

LEMMA TypeOKStep == TypeOK /\ Next => TypeOK'
<1> SUFFICES ASSUME TypeOK, Next PROVE TypeOK'
  OBVIOUS
<1> USE DEF TypeOK, DispatchStates, ScrapeStates, FinalizeStates,
            RateStates, database, scrapeTasks, ratingTasks
<1>1. ASSUME NEW i \in Influencers, CreateInfluencer(i) PROVE TypeOK'
  BY <1>1 DEF CreateInfluencer
<1>2. ASSUME NEW x \in Signals, CreateSignal(x) PROVE TypeOK'
  BY <1>2 DEF CreateSignal
<1>3. ASSUME NEW r \in Runs, CreateRun(r) PROVE TypeOK'
  <2>1. Cardinality(watchlist) \in Nat
    BY SizesAreNatural
  <2>2. PICK model \in BOOLEAN :
          runs' = [runs EXCEPT ![r] = InsertedRow(model, Cardinality(watchlist))]
    BY <1>3 DEF CreateRun
  <2>3. runs' \in [Runs -> RunRow]
    BY <2>1, <2>2, InsertedRowFacts
  <2>4. QED BY <1>3, <2>3 DEF CreateRun
<1>4. ASSUME NEW r \in Runs, SendDispatch(r) PROVE TypeOK'
  BY <1>4 DEF SendDispatch
<1>5. ASSUME NEW r \in Runs, DispatchRun(r) PROVE TypeOK'
  BY <1>5, SizesAreNatural, TrueUpTotalFacts DEF DispatchRun
<1>6. ASSUME NEW r \in Runs, StartChord(r) PROVE TypeOK'
  BY <1>6 DEF StartChord
<1>7. ASSUME NEW r \in Runs, NEW i \in Influencers, ScrapeStart(r, i) PROVE TypeOK'
  BY <1>7, MarkRunningFacts DEF ScrapeStart
<1>8. ASSUME NEW r \in Runs, NEW i \in Influencers, ScrapeReturns(r, i) PROVE TypeOK'
  BY <1>8 DEF ScrapeReturns, PostsOf
<1>9. ASSUME NEW r \in Runs, NEW i \in Influencers, ScrapeRaises(r, i) PROVE TypeOK'
  BY <1>9 DEF ScrapeRaises, PostsOf
<1>10. ASSUME NEW r \in Runs, NEW i \in Influencers, CountScrape(r, i) PROVE TypeOK'
  <2>1. Cardinality(new_items[r] \cap PostsOf(i)) \in Nat
    BY SizesAreNatural DEF PostsOf
  <2>2. QED BY <1>10, <2>1, AddScrapeFacts DEF CountScrape
<1>11. ASSUME NEW r \in Runs, NEW i \in Influencers, EnqueueRatings(r, i) PROVE TypeOK'
  BY <1>11 DEF EnqueueRatings
<1>12. ASSUME NEW r \in Runs, NEW i \in Influencers, PublishProgress(r, i) PROVE TypeOK'
  BY <1>12 DEF PublishProgress
<1>13. ASSUME NEW r \in Runs, RefreshForRun(r) PROVE TypeOK'
  BY <1>13 DEF RefreshForRun
<1>14. ASSUME NEW r \in Runs, DecideRun(r) PROVE TypeOK'
  <2>1. PostScrapeStatus(runs[r], RunFailed(r), RatingOn(r))
          \in {"failed", "rating", "completed"}
    BY DEF PostScrapeStatus
  <2>2. QED BY <1>14, <2>1, DecideFacts DEF DecideRun, Terminal
<1>15. ASSUME NEW r \in Runs, PublishFanIn(r) PROVE TypeOK'
  BY <1>15 DEF PublishFanIn
<1>16. ASSUME NEW r \in Runs, NEW x \in Signals, RateStep(r, x) PROVE TypeOK'
  <2>1. CASE AlreadyRated(r, x) BY <2>1 DEF AlreadyRated
  <2>2. CASE CallModel(r, x) BY <2>2 DEF CallModel
  <2>3. CASE StoreRating(r, x) BY <2>3 DEF StoreRating
  <2>4. CASE RetryRating(r, x) BY <2>4, BoundsAssumption DEF RetryRating
  <2>5. CASE GiveUpRating(r, x) BY <2>5 DEF GiveUpRating
  <2>6. CASE AnnounceRating(r, x) BY <2>6, AddRatingFacts DEF AnnounceRating
  <2>7. QED BY <1>16, <2>1, <2>2, <2>3, <2>4, <2>5, <2>6 DEF RateStep
<1>17. ASSUME NEW r \in Runs, NEW x \in Signals, PublishRating(r, x) PROVE TypeOK'
  BY <1>17 DEF PublishRating
<1>18. CASE SweepUnrated
  BY <1>18 DEF SweepUnrated
<1>19. ASSUME NEW x \in Signals, RateSwept(x) PROVE TypeOK'
  BY <1>19 DEF RateSwept
<1>20. CASE RefreshRollup
  BY <1>20 DEF RefreshRollup
<1>21. CASE Crash
  <2>1. Underway \subseteq Tasks
    BY DEF Underway, Tasks, DispatchTask, FinalizeTask
  <2>2. QED BY <1>21, <2>1 DEF Crash
<1>22. QED
  BY <1>1, <1>2, <1>3, <1>4, <1>5, <1>6, <1>7, <1>8, <1>9, <1>10, <1>11, <1>12, <1>13,
     <1>14, <1>15, <1>16, <1>17, <1>18, <1>19, <1>20, <1>21
  DEF Next, WorkStep, PublishStep, DispatchStep, ScrapeStep

\* Every variable keeps its type.
THEOREM TypeCorrect == Spec => []TypeOK
<1>1. TypeOK /\ UNCHANGED pipelineVars => TypeOK'
  BY DEF TypeOK, pipelineVars
<1>2. QED BY InitTypeOK, TypeOKStep, <1>1, PTL DEF Spec

-----------------------------------------------------------------------------
(* The inductive invariant *)

LEMMA InitIInv == Init => IInv
<1> SUFFICES ASSUME Init PROVE IInv
  OBVIOUS
<1>1. TypeOK
  BY InitTypeOK
<1>2. LedgerBalances
  <2> SUFFICES ASSUME NEW r \in Runs
               PROVE  /\ runs[r].done_count = Cardinality(Counted(r))
                      /\ runs[r].inserted = Cardinality(Accounted(r))
                      /\ runs[r].rated_count = Cardinality(Announced(r))
                      /\ Announced(r) \subseteq Accounted(r)
    BY DEF LedgerBalances
  <2>1. Counted(r) = {} /\ Accounted(r) = {} /\ Announced(r) = {}
    BY DEF Init, Counted, Accounted, Announced
  <2>2. runs[r].done_count = 0 /\ runs[r].inserted = 0 /\ runs[r].rated_count = 0
    BY DEF Init, NoRun
  <2>3. QED BY <2>1, <2>2, FS_EmptySet
<1>3. ASSUME NEW r \in Runs PROVE Shape(r) /\ StatusFits(r) /\ RollupFits(r)
  BY DEF Init, NoRun, Shape, StatusFits, RollupFits, Terminal
<1>4. QED BY <1>1, <1>2, <1>3 DEF IInv

\* Nothing the invariant speaks of.
Untouched ==
    UNCHANGED <<rating_model, runs, dispatch, cohort, scrape, new_items, landed, finalize, rate>>

\* The steps that leave the runs and their tasks alone.
LEMMA BystanderStep ==
  ASSUME \/ \E i \in Influencers : CreateInfluencer(i)
         \/ \E x \in Signals : CreateSignal(x) \/ RateSwept(x)
         \/ SweepUnrated \/ RefreshRollup \/ Crash
  PROVE  Untouched
  BY DEF Untouched, CreateInfluencer, CreateSignal, RateSwept, SweepUnrated, RefreshRollup,
         Crash, scrapeTasks, ratingTasks

\* Every step of run r, and what a step of one run may change of another.
RunStep(r) ==
    \/ CreateRun(r)
    \/ DispatchStep(r)
    \/ \E i \in Influencers : ScrapeStep(r, i) \/ PublishProgress(r, i)
    \/ RefreshForRun(r) \/ DecideRun(r) \/ PublishFanIn(r)
    \/ \E x \in Signals : RateStep(r, x) \/ PublishRating(r, x)

LEMMA StepsAreOfOneRun ==
  ASSUME Next
  PROVE  Untouched \/ \E r \in Runs : RunStep(r)
  BY BystanderStep DEF Next, WorkStep, PublishStep, RunStep

SameRun(q) ==
    /\ runs'[q] = runs[q]
    /\ dispatch'[q] = dispatch[q]
    /\ cohort'[q] = cohort[q]
    /\ scrape'[q] = scrape[q]
    /\ new_items'[q] = new_items[q]
    /\ landed'[q] = landed[q]
    /\ finalize'[q] = finalize[q]
    /\ rate'[q] = rate[q]

LEMMA OtherRunsStay ==
  ASSUME TypeOK, NEW r \in Runs, RunStep(r), NEW q \in Runs, q # r
  PROVE  SameRun(q)
<1> USE DEF TypeOK, SameRun, scrapeTasks, ratingTasks
<1>1. CASE CreateRun(r)
  BY <1>1 DEF CreateRun
<1>2. CASE SendDispatch(r)
  BY <1>2 DEF SendDispatch
<1>3. CASE DispatchRun(r)
  BY <1>3 DEF DispatchRun
<1>4. CASE StartChord(r)
  BY <1>4 DEF StartChord
<1>5. ASSUME NEW i \in Influencers, ScrapeStart(r, i) PROVE SameRun(q)
  BY <1>5 DEF ScrapeStart
<1>6. ASSUME NEW i \in Influencers, ScrapeReturns(r, i) PROVE SameRun(q)
  BY <1>6 DEF ScrapeReturns
<1>7. ASSUME NEW i \in Influencers, ScrapeRaises(r, i) PROVE SameRun(q)
  BY <1>7 DEF ScrapeRaises
<1>8. ASSUME NEW i \in Influencers, CountScrape(r, i) PROVE SameRun(q)
  BY <1>8 DEF CountScrape
<1>9. ASSUME NEW i \in Influencers, EnqueueRatings(r, i) PROVE SameRun(q)
  BY <1>9 DEF EnqueueRatings
<1>10. ASSUME NEW i \in Influencers, PublishProgress(r, i) PROVE SameRun(q)
  BY <1>10 DEF PublishProgress
<1>11. CASE RefreshForRun(r)
  BY <1>11 DEF RefreshForRun
<1>12. CASE DecideRun(r)
  BY <1>12 DEF DecideRun
<1>13. CASE PublishFanIn(r)
  BY <1>13 DEF PublishFanIn
<1>14. ASSUME NEW x \in Signals, AlreadyRated(r, x) PROVE SameRun(q)
  BY <1>14 DEF AlreadyRated
<1>15. ASSUME NEW x \in Signals, CallModel(r, x) PROVE SameRun(q)
  BY <1>15 DEF CallModel
<1>16. ASSUME NEW x \in Signals, StoreRating(r, x) PROVE SameRun(q)
  BY <1>16 DEF StoreRating
<1>17. ASSUME NEW x \in Signals, RetryRating(r, x) PROVE SameRun(q)
  BY <1>17 DEF RetryRating
<1>18. ASSUME NEW x \in Signals, GiveUpRating(r, x) PROVE SameRun(q)
  BY <1>18 DEF GiveUpRating
<1>19. ASSUME NEW x \in Signals, AnnounceRating(r, x) PROVE SameRun(q)
  BY <1>19 DEF AnnounceRating
<1>20. ASSUME NEW x \in Signals, PublishRating(r, x) PROVE SameRun(q)
  BY <1>20 DEF PublishRating
<1>21. QED
  BY <1>1, <1>2, <1>3, <1>4, <1>5, <1>6, <1>7, <1>8, <1>9, <1>10, <1>11, <1>12, <1>13,
     <1>14, <1>15, <1>16, <1>17, <1>18, <1>19, <1>20
  DEF RunStep, DispatchStep, ScrapeStep, RateStep

LEMMA StoresGrow ==
  ASSUME TypeOK, NEW r \in Runs, RunStep(r)
  PROVE  /\ rating_model' = rating_model
         /\ signals \subseteq signals'
         /\ rollup' \in {rollup, signals}
<1> DEFINE Grow == /\ rating_model' = rating_model
                   /\ signals \subseteq signals'
                   /\ rollup' \in {rollup, signals}
<1> USE DEF database
<1>1. CASE CreateRun(r)
  BY <1>1 DEF CreateRun
<1>2. CASE SendDispatch(r)
  BY <1>2 DEF SendDispatch
<1>3. CASE DispatchRun(r)
  BY <1>3 DEF DispatchRun
<1>4. CASE StartChord(r)
  BY <1>4 DEF StartChord
<1>5. ASSUME NEW i \in Influencers, ScrapeStart(r, i) PROVE Grow
  BY <1>5 DEF ScrapeStart
<1>6. ASSUME NEW i \in Influencers, ScrapeReturns(r, i) PROVE Grow
  BY <1>6 DEF ScrapeReturns
<1>7. ASSUME NEW i \in Influencers, ScrapeRaises(r, i) PROVE Grow
  BY <1>7 DEF ScrapeRaises
<1>8. ASSUME NEW i \in Influencers, CountScrape(r, i) PROVE Grow
  BY <1>8 DEF CountScrape
<1>9. ASSUME NEW i \in Influencers, EnqueueRatings(r, i) PROVE Grow
  BY <1>9 DEF EnqueueRatings
<1>10. ASSUME NEW i \in Influencers, PublishProgress(r, i) PROVE Grow
  BY <1>10 DEF PublishProgress
<1>11. CASE RefreshForRun(r)
  BY <1>11 DEF RefreshForRun
<1>12. CASE DecideRun(r)
  BY <1>12 DEF DecideRun
<1>13. CASE PublishFanIn(r)
  BY <1>13 DEF PublishFanIn
<1>14. ASSUME NEW x \in Signals, AlreadyRated(r, x) PROVE Grow
  BY <1>14 DEF AlreadyRated
<1>15. ASSUME NEW x \in Signals, CallModel(r, x) PROVE Grow
  BY <1>15 DEF CallModel
<1>16. ASSUME NEW x \in Signals, StoreRating(r, x) PROVE Grow
  BY <1>16 DEF StoreRating
<1>17. ASSUME NEW x \in Signals, RetryRating(r, x) PROVE Grow
  BY <1>17 DEF RetryRating
<1>18. ASSUME NEW x \in Signals, GiveUpRating(r, x) PROVE Grow
  BY <1>18 DEF GiveUpRating
<1>19. ASSUME NEW x \in Signals, AnnounceRating(r, x) PROVE Grow
  BY <1>19 DEF AnnounceRating
<1>20. ASSUME NEW x \in Signals, PublishRating(r, x) PROVE Grow
  BY <1>20 DEF PublishRating
<1>21. QED
  BY <1>1, <1>2, <1>3, <1>4, <1>5, <1>6, <1>7, <1>8, <1>9, <1>10, <1>11, <1>12, <1>13,
     <1>14, <1>15, <1>16, <1>17, <1>18, <1>19, <1>20
  DEF RunStep, DispatchStep, ScrapeStep, RateStep

\* The tasks of a run keep their order.
LEMMA ShapeStep ==
  ASSUME TypeOK, NEW r \in Runs, Shape(r), RunStep(r)
  PROVE  Shape(r)'
<1> USE DEF TypeOK, scrapeTasks, ratingTasks
<1>1. CASE CreateRun(r)
  <2>1. PICK model \in BOOLEAN :
          runs' = [runs EXCEPT ![r] = InsertedRow(model, Cardinality(watchlist))]
    BY <1>1 DEF CreateRun
  <2>2. runs'[r].status = "queued"
    <3>1. runs'[r] = InsertedRow(model, Cardinality(watchlist))
      BY <2>1
    <3>2. QED BY <3>1 DEF InsertedRow, NoRun
  <2>3. dispatch[r] = "idle" /\ dispatch'[r] = "unsent"
    BY <1>1 DEF CreateRun, Shape
  <2>4. UNCHANGED <<cohort, scrape, new_items, finalize, rate>>
    BY <1>1 DEF CreateRun
  <2>5. finalize[r] = "idle" /\ \A x \in Signals : rate[r][x] = "idle"
    BY <2>3, OwnerAssumption DEF Shape, AllReturned
  <2>6. QED BY <2>2, <2>3, <2>4, <2>5 DEF Shape, Terminal
<1>2. CASE SendDispatch(r)
  BY <1>2 DEF SendDispatch, Shape, AllReturned, RatingOn, Terminal
<1>3. CASE DispatchRun(r)
  <2>1. /\ runs'[r].status = runs[r].status
        /\ runs'[r].model = runs[r].model
    BY <1>3, SizesAreNatural, TrueUpTotalFacts DEF DispatchRun
  <2>2. finalize[r] = "idle"
    BY <1>3 DEF DispatchRun, Shape, AllReturned
  <2>3. QED BY <1>3, <2>1, <2>2 DEF DispatchRun, Shape, AllReturned, RatingOn, Terminal
<1>4. CASE StartChord(r)
  <2>1. finalize[r] = "idle" /\ \A x \in Signals : rate[r][x] = "idle"
    BY <1>4, OwnerAssumption DEF StartChord, Shape, AllReturned
  <2>2. QED BY <1>4, <2>1 DEF StartChord, Shape, AllReturned, RatingOn, Terminal
<1>5. ASSUME NEW i \in Influencers, ScrapeStart(r, i) PROVE Shape(r)'
  <2>1. /\ runs'[r].model = runs[r].model
        /\ runs'[r].status = (IF runs[r].status = "queued" THEN "running" ELSE runs[r].status)
    BY <1>5, MarkRunningFacts DEF ScrapeStart
  <2>2. ~AllReturned(r) /\ dispatch[r] = "fanned"
    BY <1>5 DEF ScrapeStart, Shape, AllReturned
  <2>3. QED BY <1>5, <2>1, <2>2, OwnerAssumption DEF ScrapeStart, Shape, RatingOn, Terminal
<1>6. ASSUME NEW i \in Influencers, ScrapeReturns(r, i) PROVE Shape(r)'
  <2>1. ~AllReturned(r) /\ dispatch[r] = "fanned"
    BY <1>6 DEF ScrapeReturns, Shape, AllReturned
  <2>2. QED BY <1>6, <2>1, OwnerAssumption
    DEF ScrapeReturns, Shape, RatingOn, Terminal
<1>7. ASSUME NEW i \in Influencers, ScrapeRaises(r, i) PROVE Shape(r)'
  <2>1. ~AllReturned(r) /\ dispatch[r] = "fanned"
    BY <1>7 DEF ScrapeRaises, Shape, AllReturned
  <2>2. QED BY <1>7, <2>1, OwnerAssumption
    DEF ScrapeRaises, Shape, RatingOn, Terminal
<1>8. ASSUME NEW i \in Influencers, CountScrape(r, i) PROVE Shape(r)'
  <2>1. Cardinality(new_items[r] \cap PostsOf(i)) \in Nat
    BY SizesAreNatural DEF PostsOf
  <2>2. runs'[r].model = runs[r].model /\ runs'[r].status = runs[r].status
    BY <1>8, <2>1, AddScrapeFacts DEF CountScrape
  <2>3. ~AllReturned(r) /\ dispatch[r] = "fanned"
    BY <1>8 DEF CountScrape, Shape, AllReturned
  <2>4. QED BY <1>8, <2>2, <2>3, OwnerAssumption DEF CountScrape, Shape, RatingOn, Terminal
<1>9. ASSUME NEW i \in Influencers, EnqueueRatings(r, i) PROVE Shape(r)'
  <2>1. ~AllReturned(r) /\ dispatch[r] = "fanned"
    BY <1>9 DEF EnqueueRatings, Shape, AllReturned
  <2>2. QED BY <1>9, <2>1, OwnerAssumption
    DEF EnqueueRatings, Shape, RatingOn, Terminal, PostsOf
<1>10. ASSUME NEW i \in Influencers, PublishProgress(r, i) PROVE Shape(r)'
  <2>1. ~AllReturned(r) /\ dispatch[r] = "fanned"
    BY <1>10 DEF PublishProgress, Shape, AllReturned
  <2>2. QED BY <1>10, <2>1, OwnerAssumption
    DEF PublishProgress, Shape, RatingOn, Terminal
<1>11. CASE RefreshForRun(r)
  BY <1>11 DEF RefreshForRun, Shape, AllReturned, RatingOn, Terminal
<1>12. CASE DecideRun(r)
  <2> DEFINE status == PostScrapeStatus(runs[r], RunFailed(r), RatingOn(r))
  <2>1. status \in {"failed", "rating", "completed"}
    BY DEF PostScrapeStatus
  <2>2. /\ runs'[r] = Decide(runs[r], status)
        /\ finalize'[r] = IF status \in Terminal THEN "say_done" ELSE "say_scrape_done"
    BY <1>12 DEF DecideRun
  <2> HIDE DEF status
  <2>3. runs'[r].model = runs[r].model /\ runs'[r].status = status
    BY <2>1, <2>2, DecideFacts
  <2>4. AllReturned(r) /\ dispatch[r] # "idle"
    BY <1>12 DEF DecideRun, Shape, AllReturned
  <2>5. UNCHANGED <<rating_model, dispatch, scrape, cohort, new_items, rate>>
    BY <1>12 DEF DecideRun
  <2>6. QED BY <2>1, <2>2, <2>3, <2>4, <2>5 DEF Shape, AllReturned, RatingOn, Terminal
<1>13. CASE PublishFanIn(r)
  BY <1>13 DEF PublishFanIn, Shape, AllReturned, RatingOn, Terminal
<1>14. ASSUME NEW x \in Signals, AlreadyRated(r, x) PROVE Shape(r)'
  BY <1>14 DEF AlreadyRated, Shape, AllReturned, RatingOn, Terminal
<1>15. ASSUME NEW x \in Signals, CallModel(r, x) PROVE Shape(r)'
  BY <1>15 DEF CallModel, Shape, AllReturned, RatingOn, Terminal
<1>16. ASSUME NEW x \in Signals, StoreRating(r, x) PROVE Shape(r)'
  BY <1>16 DEF StoreRating, Shape, AllReturned, RatingOn, Terminal
<1>17. ASSUME NEW x \in Signals, RetryRating(r, x) PROVE Shape(r)'
  BY <1>17 DEF RetryRating, Shape, AllReturned, RatingOn, Terminal
<1>18. ASSUME NEW x \in Signals, GiveUpRating(r, x) PROVE Shape(r)'
  BY <1>18 DEF GiveUpRating, Shape, AllReturned, RatingOn, Terminal
<1>19. ASSUME NEW x \in Signals, AnnounceRating(r, x) PROVE Shape(r)'
  <2>1. /\ runs'[r].model = runs[r].model
        /\ runs'[r].status = (IF LastRating(runs[r]) THEN "completed" ELSE runs[r].status)
    BY <1>19, AddRatingFacts DEF AnnounceRating
  <2>2. LastRating(runs[r]) => runs[r].status = "rating"
    BY DEF LastRating
  <2>3. /\ \A y \in Signals : rate'[r][y] # "idle" => rate[r][y] # "idle"
        /\ UNCHANGED <<dispatch, scrape, cohort, new_items, finalize, rating_model>>
    BY <1>19 DEF AnnounceRating
  <2>4. QED BY <2>1, <2>2, <2>3 DEF Shape, AllReturned, RatingOn, Terminal
<1>20. ASSUME NEW x \in Signals, PublishRating(r, x) PROVE Shape(r)'
  BY <1>20 DEF PublishRating, Shape, AllReturned, RatingOn, Terminal
<1>21. QED
  BY <1>1, <1>2, <1>3, <1>4, <1>5, <1>6, <1>7, <1>8, <1>9, <1>10, <1>11, <1>12, <1>13,
     <1>14, <1>15, <1>16, <1>17, <1>18, <1>19, <1>20
  DEF RunStep, DispatchStep, ScrapeStep, RateStep

\* The counters of a row are the sizes of the sets of tasks that have bumped them.
Ledger(r) ==
    /\ runs[r].done_count = Cardinality(Counted(r))
    /\ runs[r].inserted = Cardinality(Accounted(r))
    /\ runs[r].rated_count = Cardinality(Announced(r))

SameCounters(r) ==
    /\ runs'[r].done_count = runs[r].done_count
    /\ runs'[r].inserted = runs[r].inserted
    /\ runs'[r].rated_count = runs[r].rated_count

LEMMA LedgerStep ==
  ASSUME TypeOK, NEW r \in Runs, Shape(r), Ledger(r), RunStep(r)
  PROVE  Ledger(r)'
<1> USE DEF TypeOK, scrapeTasks, ratingTasks
<1>1. CASE CreateRun(r)
  <2>1. PICK model \in BOOLEAN :
          runs' = [runs EXCEPT ![r] = InsertedRow(model, Cardinality(watchlist))]
    BY <1>1 DEF CreateRun
  <2>2. runs'[r] = InsertedRow(model, Cardinality(watchlist))
    BY <2>1
  <2>3. /\ runs'[r].done_count = 0
        /\ runs'[r].inserted = 0
        /\ runs'[r].rated_count = 0
    BY <2>2 DEF InsertedRow, NoRun
  <2>4. Counted(r)' = {}
    BY <1>1 DEF CreateRun, Counted, Shape
  <2>5. Accounted(r)' = {}
    BY <2>4 DEF Accounted
  <2>6. Announced(r)' = {}
    BY <1>1, OwnerAssumption DEF CreateRun, Announced, Shape
  <2>7. QED BY <2>3, <2>4, <2>5, <2>6, FS_EmptySet DEF Ledger
<1>2. CASE SendDispatch(r)
  <2>1. Counted(r)' = Counted(r)
    BY <1>2 DEF SendDispatch, Counted
  <2>2. Accounted(r)' = Accounted(r)
    BY <1>2, <2>1 DEF SendDispatch, Accounted
  <2>3. Announced(r)' = Announced(r)
    BY <1>2 DEF SendDispatch, Announced
  <2>4. SameCounters(r)
    BY <1>2 DEF SendDispatch, SameCounters
  <2>5. QED BY <2>1, <2>2, <2>3, <2>4 DEF Ledger, SameCounters
<1>3. CASE DispatchRun(r)
  <2>1. Counted(r)' = Counted(r)
    BY <1>3 DEF DispatchRun, Counted
  <2>2. Accounted(r)' = Accounted(r)
    BY <1>3, <2>1 DEF DispatchRun, Accounted
  <2>3. Announced(r)' = Announced(r)
    BY <1>3 DEF DispatchRun, Announced
  <2>4. SameCounters(r)
    BY <1>3, SizesAreNatural, TrueUpTotalFacts DEF DispatchRun, SameCounters
  <2>5. QED BY <2>1, <2>2, <2>3, <2>4 DEF Ledger, SameCounters
<1>4. CASE StartChord(r)
  <2>1. Counted(r)' = Counted(r)
    BY <1>4 DEF StartChord, Counted, Shape
  <2>2. Accounted(r)' = Accounted(r)
    BY <1>4, <2>1 DEF StartChord, Accounted
  <2>3. Announced(r)' = Announced(r)
    BY <1>4 DEF StartChord, Announced
  <2>4. SameCounters(r)
    BY <1>4 DEF StartChord, SameCounters
  <2>5. QED BY <2>1, <2>2, <2>3, <2>4 DEF Ledger, SameCounters
<1>5. ASSUME NEW i \in Influencers, ScrapeStart(r, i) PROVE Ledger(r)'
  <2>1. Counted(r)' = Counted(r)
    BY <1>5 DEF ScrapeStart, Counted
  <2>2. Accounted(r)' = Accounted(r)
    BY <1>5, <2>1 DEF ScrapeStart, Accounted
  <2>3. Announced(r)' = Announced(r)
    BY <1>5 DEF ScrapeStart, Announced
  <2>4. SameCounters(r)
    BY <1>5, MarkRunningFacts DEF ScrapeStart, SameCounters
  <2>5. QED BY <2>1, <2>2, <2>3, <2>4 DEF Ledger, SameCounters
<1>6. ASSUME NEW i \in Influencers, ScrapeReturns(r, i) PROVE Ledger(r)'
  <2>1. Counted(r)' = Counted(r)
    BY <1>6 DEF ScrapeReturns, Counted
  <2>2. Accounted(r)' = Accounted(r)
    BY <1>6, <2>1 DEF ScrapeReturns, Accounted, Counted, PostsOf
  <2>3. Announced(r)' = Announced(r)
    BY <1>6 DEF ScrapeReturns, Announced
  <2>4. SameCounters(r)
    BY <1>6 DEF ScrapeReturns, SameCounters
  <2>5. QED BY <2>1, <2>2, <2>3, <2>4 DEF Ledger, SameCounters
<1>7. ASSUME NEW i \in Influencers, ScrapeRaises(r, i) PROVE Ledger(r)'
  <2>1. Counted(r)' = Counted(r)
    BY <1>7 DEF ScrapeRaises, Counted
  <2>2. Accounted(r)' = Accounted(r)
    BY <1>7, <2>1 DEF ScrapeRaises, Accounted
  <2>3. Announced(r)' = Announced(r)
    BY <1>7 DEF ScrapeRaises, Announced
  <2>4. SameCounters(r)
    BY <1>7 DEF ScrapeRaises, SameCounters
  <2>5. QED BY <2>1, <2>2, <2>3, <2>4 DEF Ledger, SameCounters
<1>8. ASSUME NEW i \in Influencers, CountScrape(r, i) PROVE Ledger(r)'
  <2> DEFINE N == new_items[r] \cap PostsOf(i)
  <2>1. /\ IsFiniteSet(Counted(r)) /\ IsFiniteSet(Accounted(r)) /\ IsFiniteSet(N)
        /\ Cardinality(N) \in Nat
    <3>1. Counted(r) \subseteq Influencers /\ Accounted(r) \subseteq Signals /\ N \subseteq Signals
      BY DEF Counted, Accounted, PostsOf
    <3>2. QED BY <3>1, RunsAssumption, SizesAreNatural, FS_Subset
  <2>2. Counted(r)' = Counted(r) \cup {i} /\ i \notin Counted(r)
    BY <1>8 DEF CountScrape, Counted
  <2>3. Accounted(r)' = Accounted(r) \cup N /\ Accounted(r) \cap N = {}
    BY <1>8, <2>2 DEF CountScrape, Accounted, PostsOf
  <2>4. Announced(r)' = Announced(r)
    BY <1>8 DEF CountScrape, Announced
  <2>5. Cardinality(Counted(r)') = Cardinality(Counted(r)) + 1
    BY <2>1, <2>2, FS_AddElement
  <2>6. Cardinality(Accounted(r)') = Cardinality(Accounted(r)) + Cardinality(N)
    <3>1. Cardinality(Accounted(r) \cup N)
            = Cardinality(Accounted(r)) + Cardinality(N) - Cardinality(Accounted(r) \cap N)
      BY <2>1, FS_Union
    <3>2. Cardinality(Accounted(r) \cap N) = 0
      BY <2>3, FS_EmptySet
    <3>3. Cardinality(Accounted(r)) \in Nat
      BY <2>1, FS_CardinalityType
    <3>4. QED BY <2>1, <2>3, <3>1, <3>2, <3>3
  <2>7. runs'[r] = AddScrape(runs[r], Cardinality(N))
    BY <1>8 DEF CountScrape
  <2> HIDE DEF N
  <2>8. /\ runs'[r].done_count = runs[r].done_count + 1
        /\ runs'[r].inserted = runs[r].inserted + Cardinality(N)
        /\ runs'[r].rated_count = runs[r].rated_count
    BY <2>1, <2>7, AddScrapeFacts
  <2>9. QED BY <2>4, <2>5, <2>6, <2>8 DEF Ledger
<1>9. ASSUME NEW i \in Influencers, EnqueueRatings(r, i) PROVE Ledger(r)'
  <2>1. Counted(r)' = Counted(r)
    BY <1>9 DEF EnqueueRatings, Counted
  <2>2. Accounted(r)' = Accounted(r)
    BY <1>9, <2>1 DEF EnqueueRatings, Accounted
  <2>3. Announced(r)' = Announced(r)
    BY <1>9 DEF EnqueueRatings, Announced, Shape, PostsOf
  <2>4. SameCounters(r)
    BY <1>9 DEF EnqueueRatings, SameCounters
  <2>5. QED BY <2>1, <2>2, <2>3, <2>4 DEF Ledger, SameCounters
<1>10. ASSUME NEW i \in Influencers, PublishProgress(r, i) PROVE Ledger(r)'
  <2>1. Counted(r)' = Counted(r)
    BY <1>10 DEF PublishProgress, Counted
  <2>2. Accounted(r)' = Accounted(r)
    BY <1>10, <2>1 DEF PublishProgress, Accounted
  <2>3. Announced(r)' = Announced(r)
    BY <1>10 DEF PublishProgress, Announced
  <2>4. SameCounters(r)
    BY <1>10 DEF PublishProgress, SameCounters
  <2>5. QED BY <2>1, <2>2, <2>3, <2>4 DEF Ledger, SameCounters
<1>11. CASE RefreshForRun(r)
  <2>1. Counted(r)' = Counted(r)
    BY <1>11 DEF RefreshForRun, Counted
  <2>2. Accounted(r)' = Accounted(r)
    BY <1>11, <2>1 DEF RefreshForRun, Accounted
  <2>3. Announced(r)' = Announced(r)
    BY <1>11 DEF RefreshForRun, Announced
  <2>4. SameCounters(r)
    BY <1>11 DEF RefreshForRun, SameCounters
  <2>5. QED BY <2>1, <2>2, <2>3, <2>4 DEF Ledger, SameCounters
<1>12. CASE DecideRun(r)
  <2>1. Counted(r)' = Counted(r)
    BY <1>12 DEF DecideRun, Counted
  <2>2. Accounted(r)' = Accounted(r)
    BY <1>12, <2>1 DEF DecideRun, Accounted
  <2>3. Announced(r)' = Announced(r)
    BY <1>12 DEF DecideRun, Announced
  <2>4. SameCounters(r)
    <3> DEFINE status == PostScrapeStatus(runs[r], RunFailed(r), RatingOn(r))
    <3>1. status \in {"failed", "rating", "completed"}
      BY DEF PostScrapeStatus
    <3>2. runs'[r] = Decide(runs[r], status)
      BY <1>12 DEF DecideRun
    <3> HIDE DEF status
    <3>3. QED BY <3>1, <3>2, DecideFacts DEF SameCounters
  <2>5. QED BY <2>1, <2>2, <2>3, <2>4 DEF Ledger, SameCounters
<1>13. CASE PublishFanIn(r)
  <2>1. Counted(r)' = Counted(r)
    BY <1>13 DEF PublishFanIn, Counted
  <2>2. Accounted(r)' = Accounted(r)
    BY <1>13, <2>1 DEF PublishFanIn, Accounted
  <2>3. Announced(r)' = Announced(r)
    BY <1>13 DEF PublishFanIn, Announced
  <2>4. SameCounters(r)
    BY <1>13 DEF PublishFanIn, SameCounters
  <2>5. QED BY <2>1, <2>2, <2>3, <2>4 DEF Ledger, SameCounters
<1>14. ASSUME NEW x \in Signals, AlreadyRated(r, x) PROVE Ledger(r)'
  <2>1. Counted(r)' = Counted(r)
    BY <1>14 DEF AlreadyRated, Counted
  <2>2. Accounted(r)' = Accounted(r)
    BY <1>14, <2>1 DEF AlreadyRated, Accounted
  <2>3. Announced(r)' = Announced(r)
    BY <1>14 DEF AlreadyRated, Announced
  <2>4. SameCounters(r)
    BY <1>14 DEF AlreadyRated, SameCounters
  <2>5. QED BY <2>1, <2>2, <2>3, <2>4 DEF Ledger, SameCounters
<1>15. ASSUME NEW x \in Signals, CallModel(r, x) PROVE Ledger(r)'
  <2>1. Counted(r)' = Counted(r)
    BY <1>15 DEF CallModel, Counted
  <2>2. Accounted(r)' = Accounted(r)
    BY <1>15, <2>1 DEF CallModel, Accounted
  <2>3. Announced(r)' = Announced(r)
    BY <1>15 DEF CallModel, Announced
  <2>4. SameCounters(r)
    BY <1>15 DEF CallModel, SameCounters
  <2>5. QED BY <2>1, <2>2, <2>3, <2>4 DEF Ledger, SameCounters
<1>16. ASSUME NEW x \in Signals, StoreRating(r, x) PROVE Ledger(r)'
  <2>1. Counted(r)' = Counted(r)
    BY <1>16 DEF StoreRating, Counted
  <2>2. Accounted(r)' = Accounted(r)
    BY <1>16, <2>1 DEF StoreRating, Accounted
  <2>3. Announced(r)' = Announced(r)
    BY <1>16 DEF StoreRating, Announced
  <2>4. SameCounters(r)
    BY <1>16 DEF StoreRating, SameCounters
  <2>5. QED BY <2>1, <2>2, <2>3, <2>4 DEF Ledger, SameCounters
<1>17. ASSUME NEW x \in Signals, RetryRating(r, x) PROVE Ledger(r)'
  <2>1. Counted(r)' = Counted(r)
    BY <1>17 DEF RetryRating, Counted
  <2>2. Accounted(r)' = Accounted(r)
    BY <1>17, <2>1 DEF RetryRating, Accounted
  <2>3. Announced(r)' = Announced(r)
    BY <1>17 DEF RetryRating, Announced
  <2>4. SameCounters(r)
    BY <1>17 DEF RetryRating, SameCounters
  <2>5. QED BY <2>1, <2>2, <2>3, <2>4 DEF Ledger, SameCounters
<1>18. ASSUME NEW x \in Signals, GiveUpRating(r, x) PROVE Ledger(r)'
  <2>1. Counted(r)' = Counted(r)
    BY <1>18 DEF GiveUpRating, Counted
  <2>2. Accounted(r)' = Accounted(r)
    BY <1>18, <2>1 DEF GiveUpRating, Accounted
  <2>3. Announced(r)' = Announced(r)
    BY <1>18 DEF GiveUpRating, Announced
  <2>4. SameCounters(r)
    BY <1>18 DEF GiveUpRating, SameCounters
  <2>5. QED BY <2>1, <2>2, <2>3, <2>4 DEF Ledger, SameCounters
<1>19. ASSUME NEW x \in Signals, AnnounceRating(r, x) PROVE Ledger(r)'
  <2>1. Counted(r)' = Counted(r)
    BY <1>19 DEF AnnounceRating, Counted
  <2>2. Accounted(r)' = Accounted(r)
    BY <1>19, <2>1 DEF AnnounceRating, Accounted
  <2>3. Announced(r)' = Announced(r) \cup {x} /\ x \notin Announced(r)
    BY <1>19 DEF AnnounceRating, Announced
  <2>4. IsFiniteSet(Announced(r))
    BY RunsAssumption, FS_Subset DEF Announced
  <2>5. Cardinality(Announced(r)') = Cardinality(Announced(r)) + 1
    BY <2>3, <2>4, FS_AddElement
  <2>6. runs'[r] = AddRating(runs[r])
    BY <1>19 DEF AnnounceRating
  <2>7. /\ runs'[r].done_count = runs[r].done_count
        /\ runs'[r].inserted = runs[r].inserted
        /\ runs'[r].rated_count = runs[r].rated_count + 1
    BY <2>6, AddRatingFacts
  <2>8. QED BY <2>1, <2>2, <2>5, <2>7 DEF Ledger
<1>20. ASSUME NEW x \in Signals, PublishRating(r, x) PROVE Ledger(r)'
  <2>1. Counted(r)' = Counted(r)
    BY <1>20 DEF PublishRating, Counted
  <2>2. Accounted(r)' = Accounted(r)
    BY <1>20, <2>1 DEF PublishRating, Accounted
  <2>3. Announced(r)' = Announced(r)
    BY <1>20 DEF PublishRating, Announced
  <2>4. SameCounters(r)
    BY <1>20 DEF PublishRating, SameCounters
  <2>5. QED BY <2>1, <2>2, <2>3, <2>4 DEF Ledger, SameCounters
<1>21. QED
  BY <1>1, <1>2, <1>3, <1>4, <1>5, <1>6, <1>7, <1>8, <1>9, <1>10, <1>11, <1>12, <1>13,
     <1>14, <1>15, <1>16, <1>17, <1>18, <1>19, <1>20
  DEF RunStep, DispatchStep, ScrapeStep, RateStep

\* The status stays true to the counters, and the total to the cohort.
LEMMA StatusStep ==
  ASSUME TypeOK, NEW r \in Runs, Shape(r), StatusFits(r), RunStep(r)
  PROVE  StatusFits(r)'
<1> USE DEF TypeOK, scrapeTasks, ratingTasks
<1>1. CASE CreateRun(r)
  <2>1. PICK model \in BOOLEAN :
          runs' = [runs EXCEPT ![r] = InsertedRow(model, Cardinality(watchlist))]
    BY <1>1 DEF CreateRun
  <2>2. runs'[r] = InsertedRow(model, Cardinality(watchlist))
    BY <2>1
  <2>3. runs'[r].status = "queued" /\ runs'[r].finished = FALSE
    BY <2>2 DEF InsertedRow, NoRun
  <2>4. dispatch'[r] = "unsent"
    BY <1>1 DEF CreateRun
  <2>5. QED BY <2>3, <2>4 DEF StatusFits, Terminal
<1>2. CASE SendDispatch(r)
  BY <1>2 DEF SendDispatch, StatusFits, RatingOn, Terminal
<1>3. CASE DispatchRun(r)
  <2>1. Cardinality(watchlist) \in Nat
    BY SizesAreNatural
  <2>2. runs'[r] = TrueUpTotal(runs[r], Cardinality(watchlist)) /\ cohort'[r] = watchlist
    BY <1>3 DEF DispatchRun
  <2>3. /\ runs'[r].total = Cardinality(cohort'[r])
        /\ runs'[r].status = runs[r].status /\ runs'[r].model = runs[r].model
        /\ runs'[r].inserted = runs[r].inserted /\ runs'[r].rated_count = runs[r].rated_count
        /\ runs'[r].finished = runs[r].finished
    BY <2>1, <2>2, TrueUpTotalFacts
  <2>4. QED BY <1>3, <2>3 DEF DispatchRun, StatusFits, RatingOn, Terminal
<1>4. CASE StartChord(r)
  BY <1>4 DEF StartChord, StatusFits, RatingOn, Terminal
<1>5. ASSUME NEW i \in Influencers, ScrapeStart(r, i) PROVE StatusFits(r)'
  <2>1. /\ runs'[r].status = (IF runs[r].status = "queued" THEN "running" ELSE runs[r].status)
        /\ runs'[r].total = runs[r].total /\ runs'[r].model = runs[r].model
        /\ runs'[r].inserted = runs[r].inserted /\ runs'[r].rated_count = runs[r].rated_count
        /\ runs'[r].finished = runs[r].finished
    BY <1>5, MarkRunningFacts DEF ScrapeStart
  <2>2. QED BY <1>5, <2>1 DEF ScrapeStart, StatusFits, RatingOn, Terminal
<1>6. ASSUME NEW i \in Influencers, ScrapeReturns(r, i) PROVE StatusFits(r)'
  BY <1>6 DEF ScrapeReturns, StatusFits, RatingOn, Terminal
<1>7. ASSUME NEW i \in Influencers, ScrapeRaises(r, i) PROVE StatusFits(r)'
  BY <1>7 DEF ScrapeRaises, StatusFits, RatingOn, Terminal
<1>8. ASSUME NEW i \in Influencers, CountScrape(r, i) PROVE StatusFits(r)'
  <2>1. Cardinality(new_items[r] \cap PostsOf(i)) \in Nat
    BY SizesAreNatural DEF PostsOf
  <2>2. /\ runs'[r].status = runs[r].status /\ runs'[r].total = runs[r].total
        /\ runs'[r].finished = runs[r].finished
    BY <1>8, <2>1, AddScrapeFacts DEF CountScrape
  <2>3. runs[r].status \notin Terminal \cup {"rating"}
    BY <1>8 DEF CountScrape, Shape, AllReturned
  <2>4. QED BY <1>8, <2>2, <2>3 DEF CountScrape, StatusFits, Terminal
<1>9. ASSUME NEW i \in Influencers, EnqueueRatings(r, i) PROVE StatusFits(r)'
  BY <1>9 DEF EnqueueRatings, StatusFits, RatingOn, Terminal
<1>10. ASSUME NEW i \in Influencers, PublishProgress(r, i) PROVE StatusFits(r)'
  BY <1>10 DEF PublishProgress, StatusFits, RatingOn, Terminal
<1>11. CASE RefreshForRun(r)
  BY <1>11 DEF RefreshForRun, StatusFits, RatingOn, Terminal
<1>12. CASE DecideRun(r)
  <2> DEFINE status == PostScrapeStatus(runs[r], RunFailed(r), RatingOn(r))
  <2>1. /\ status \in {"failed", "rating", "completed"}
        /\ status = "rating" => RatingOn(r) /\ runs[r].rated_count < runs[r].inserted
        /\ status = "completed" /\ RatingOn(r) => runs[r].rated_count >= runs[r].inserted
    BY DEF PostScrapeStatus, RunRow
  <2>2. runs'[r] = Decide(runs[r], status)
    BY <1>12 DEF DecideRun
  <2>3. runs[r].status \notin Terminal \cup {"rating"}
    BY <1>12 DEF DecideRun, Shape
  <2> HIDE DEF status
  <2>4. /\ runs'[r].status = status /\ runs'[r].model = runs[r].model
        /\ runs'[r].total = runs[r].total
        /\ runs'[r].inserted = runs[r].inserted /\ runs'[r].rated_count = runs[r].rated_count
        /\ runs'[r].finished <=> (runs[r].finished \/ status \in Terminal)
    BY <2>1, <2>2, DecideFacts
  <2>5. UNCHANGED <<rating_model, dispatch, cohort>>
    BY <1>12 DEF DecideRun
  <2>6. QED BY <2>1, <2>3, <2>4, <2>5 DEF StatusFits, RatingOn, Terminal
<1>13. CASE PublishFanIn(r)
  BY <1>13 DEF PublishFanIn, StatusFits, RatingOn, Terminal
<1>14. ASSUME NEW x \in Signals, AlreadyRated(r, x) PROVE StatusFits(r)'
  BY <1>14 DEF AlreadyRated, StatusFits, RatingOn, Terminal
<1>15. ASSUME NEW x \in Signals, CallModel(r, x) PROVE StatusFits(r)'
  BY <1>15 DEF CallModel, StatusFits, RatingOn, Terminal
<1>16. ASSUME NEW x \in Signals, StoreRating(r, x) PROVE StatusFits(r)'
  BY <1>16 DEF StoreRating, StatusFits, RatingOn, Terminal
<1>17. ASSUME NEW x \in Signals, RetryRating(r, x) PROVE StatusFits(r)'
  BY <1>17 DEF RetryRating, StatusFits, RatingOn, Terminal
<1>18. ASSUME NEW x \in Signals, GiveUpRating(r, x) PROVE StatusFits(r)'
  BY <1>18 DEF GiveUpRating, StatusFits, RatingOn, Terminal
<1>19. ASSUME NEW x \in Signals, AnnounceRating(r, x) PROVE StatusFits(r)'
  <2>1. runs'[r] = AddRating(runs[r]) /\ UNCHANGED <<rating_model, dispatch, cohort>>
    BY <1>19 DEF AnnounceRating
  <2>2. /\ runs'[r].status = (IF LastRating(runs[r]) THEN "completed" ELSE runs[r].status)
        /\ runs'[r].model = runs[r].model /\ runs'[r].total = runs[r].total
        /\ runs'[r].inserted = runs[r].inserted
        /\ runs'[r].rated_count = runs[r].rated_count + 1
        /\ runs'[r].finished <=> (runs[r].finished \/ LastRating(runs[r]))
    BY <2>1, AddRatingFacts
  <2>3. runs[r].inserted \in Nat /\ runs[r].rated_count \in Nat
    BY DEF RunRow
  <2>4. QED BY <2>1, <2>2, <2>3 DEF LastRating, StatusFits, RatingOn, Terminal
<1>20. ASSUME NEW x \in Signals, PublishRating(r, x) PROVE StatusFits(r)'
  BY <1>20 DEF PublishRating, StatusFits, RatingOn, Terminal
<1>21. QED
  BY <1>1, <1>2, <1>3, <1>4, <1>5, <1>6, <1>7, <1>8, <1>9, <1>10, <1>11, <1>12, <1>13,
     <1>14, <1>15, <1>16, <1>17, <1>18, <1>19, <1>20
  DEF RunStep, DispatchStep, ScrapeStep, RateStep

\* The rollup covers what the run has committed, once finalize_run has refreshed it.
LEMMA RollupStep ==
  ASSUME TypeOK, NEW r \in Runs, Shape(r), RollupFits(r), RunStep(r)
  PROVE  RollupFits(r)'
<1> USE DEF TypeOK, database, scrapeTasks, ratingTasks
<1>1. CASE CreateRun(r)
  <2>1. PICK model \in BOOLEAN :
          runs' = [runs EXCEPT ![r] = InsertedRow(model, Cardinality(watchlist))]
    BY <1>1 DEF CreateRun
  <2>2. runs'[r] = InsertedRow(model, Cardinality(watchlist))
    BY <2>1
  <2>3. runs'[r].status = "queued"
    BY <2>2 DEF InsertedRow, NoRun
  <2>4. QED BY <1>1, <2>3 DEF CreateRun, RollupFits
<1>2. CASE SendDispatch(r)
  BY <1>2 DEF SendDispatch, RollupFits
<1>3. CASE DispatchRun(r)
  <2>1. runs'[r].status = runs[r].status
    BY <1>3, SizesAreNatural, TrueUpTotalFacts DEF DispatchRun
  <2>2. QED BY <1>3, <2>1 DEF DispatchRun, RollupFits
<1>4. CASE StartChord(r)
  BY <1>4 DEF StartChord, RollupFits
<1>5. ASSUME NEW i \in Influencers, ScrapeStart(r, i) PROVE RollupFits(r)'
  <2>1. runs'[r].status = (IF runs[r].status = "queued" THEN "running" ELSE runs[r].status)
    BY <1>5, MarkRunningFacts DEF ScrapeStart
  <2>2. QED BY <1>5, <2>1 DEF ScrapeStart, RollupFits
<1>6. ASSUME NEW i \in Influencers, ScrapeReturns(r, i) PROVE RollupFits(r)'
  <2>1. finalize[r] = "idle" /\ runs[r].status \notin Terminal \cup {"rating"}
    BY <1>6 DEF ScrapeReturns, Shape, AllReturned
  <2>2. landed'[r] \subseteq signals'
    BY <1>6 DEF ScrapeReturns, RollupFits
  <2>3. UNCHANGED <<runs, finalize>>
    BY <1>6 DEF ScrapeReturns
  <2>4. QED BY <2>1, <2>2, <2>3 DEF RollupFits, Terminal
<1>7. ASSUME NEW i \in Influencers, ScrapeRaises(r, i) PROVE RollupFits(r)'
  <2>1. finalize[r] = "idle" /\ runs[r].status \notin Terminal \cup {"rating"}
    BY <1>7 DEF ScrapeRaises, Shape, AllReturned
  <2>2. landed'[r] \subseteq signals'
    BY <1>7 DEF ScrapeRaises, RollupFits
  <2>3. UNCHANGED <<runs, finalize>>
    BY <1>7 DEF ScrapeRaises
  <2>4. QED BY <2>1, <2>2, <2>3 DEF RollupFits, Terminal
<1>8. ASSUME NEW i \in Influencers, CountScrape(r, i) PROVE RollupFits(r)'
  <2>1. Cardinality(new_items[r] \cap PostsOf(i)) \in Nat
    BY SizesAreNatural DEF PostsOf
  <2>2. runs'[r].status = runs[r].status
    BY <1>8, <2>1, AddScrapeFacts DEF CountScrape
  <2>3. QED BY <1>8, <2>2 DEF CountScrape, RollupFits
<1>9. ASSUME NEW i \in Influencers, EnqueueRatings(r, i) PROVE RollupFits(r)'
  BY <1>9 DEF EnqueueRatings, RollupFits
<1>10. ASSUME NEW i \in Influencers, PublishProgress(r, i) PROVE RollupFits(r)'
  BY <1>10 DEF PublishProgress, RollupFits
<1>11. CASE RefreshForRun(r)
  BY <1>11 DEF RefreshForRun, RollupFits
<1>12. CASE DecideRun(r)
  <2> DEFINE status == PostScrapeStatus(runs[r], RunFailed(r), RatingOn(r))
  <2>1. status \in {"failed", "rating", "completed"}
    BY DEF PostScrapeStatus
  <2>2. status # "failed" => finalize[r] = "refreshed"
    BY <1>12 DEF DecideRun, PostScrapeStatus, RunFailed
  <2>3. runs'[r] = Decide(runs[r], status)
    BY <1>12 DEF DecideRun
  <2> HIDE DEF status
  <2>4. runs'[r].status = status
    BY <2>1, <2>3, DecideFacts
  <2>5. finalize'[r] # "refreshed" /\ UNCHANGED <<signals, rollup, landed>>
    BY <1>12 DEF DecideRun
  <2>6. QED BY <2>1, <2>2, <2>4, <2>5 DEF RollupFits
<1>13. CASE PublishFanIn(r)
  BY <1>13 DEF PublishFanIn, RollupFits
<1>14. ASSUME NEW x \in Signals, AlreadyRated(r, x) PROVE RollupFits(r)'
  BY <1>14 DEF AlreadyRated, RollupFits
<1>15. ASSUME NEW x \in Signals, CallModel(r, x) PROVE RollupFits(r)'
  BY <1>15 DEF CallModel, RollupFits
<1>16. ASSUME NEW x \in Signals, StoreRating(r, x) PROVE RollupFits(r)'
  BY <1>16 DEF StoreRating, RollupFits
<1>17. ASSUME NEW x \in Signals, RetryRating(r, x) PROVE RollupFits(r)'
  BY <1>17 DEF RetryRating, RollupFits
<1>18. ASSUME NEW x \in Signals, GiveUpRating(r, x) PROVE RollupFits(r)'
  BY <1>18 DEF GiveUpRating, RollupFits
<1>19. ASSUME NEW x \in Signals, AnnounceRating(r, x) PROVE RollupFits(r)'
  <2>1. runs'[r].status = (IF LastRating(runs[r]) THEN "completed" ELSE runs[r].status)
    BY <1>19, AddRatingFacts DEF AnnounceRating
  <2>2. LastRating(runs[r]) => runs[r].status = "rating"
    BY DEF LastRating
  <2>3. QED BY <1>19, <2>1, <2>2 DEF AnnounceRating, RollupFits
<1>20. ASSUME NEW x \in Signals, PublishRating(r, x) PROVE RollupFits(r)'
  BY <1>20 DEF PublishRating, RollupFits
<1>21. QED
  BY <1>1, <1>2, <1>3, <1>4, <1>5, <1>6, <1>7, <1>8, <1>9, <1>10, <1>11, <1>12, <1>13,
     <1>14, <1>15, <1>16, <1>17, <1>18, <1>19, <1>20
  DEF RunStep, DispatchStep, ScrapeStep, RateStep

-----------------------------------------------------------------------------
(* The invariant of every run *)

RunInv(r) == Shape(r) /\ Ledger(r) /\ StatusFits(r) /\ RollupFits(r)

LEMMA IInvByRun == IInv <=> TypeOK /\ \A r \in Runs : RunInv(r)
<1>1. ASSUME NEW r \in Runs, Shape(r) PROVE Announced(r) \subseteq Accounted(r)
  BY <1>1, OwnerAssumption DEF Shape, Announced, Accounted, Counted
<1>2. (\A r \in Runs : Shape(r)) => (LedgerBalances <=> \A r \in Runs : Ledger(r))
  BY <1>1 DEF LedgerBalances, Ledger
<1>3. QED BY <1>2 DEF IInv, RunInv

LEMMA IInvByRunNext == (IInv <=> TypeOK /\ \A r \in Runs : RunInv(r))'
  BY IInvByRun, PTL

\* A step of another run, or of none, leaves a run's invariant alone: what the runs share
\* only grows, and a refresh by whoever does it shows all that is stored.
LEMMA OthersKeep ==
  ASSUME NEW q \in Runs, RunInv(q), SameRun(q),
         rating_model' = rating_model, signals \subseteq signals',
         rollup' \in {rollup, signals}
  PROVE  RunInv(q)'
<1>1. /\ Counted(q)' = Counted(q) /\ Accounted(q)' = Accounted(q)
      /\ Announced(q)' = Announced(q) /\ (RatingOn(q)' <=> RatingOn(q))
      /\ (AllReturned(q)' <=> AllReturned(q))
  BY DEF SameRun, Counted, Accounted, Announced, RatingOn, AllReturned
<1>2. Shape(q)'
  BY <1>1 DEF RunInv, SameRun, Shape
<1>3. Ledger(q)'
  BY <1>1 DEF RunInv, SameRun, Ledger
<1>4. StatusFits(q)'
  BY <1>1 DEF RunInv, SameRun, StatusFits
<1>5. RollupFits(q)'
  BY DEF RunInv, SameRun, RollupFits
<1>6. QED BY <1>2, <1>3, <1>4, <1>5 DEF RunInv

LEMMA BystandersGrow ==
  ASSUME \/ \E i \in Influencers : CreateInfluencer(i)
         \/ \E x \in Signals : CreateSignal(x) \/ RateSwept(x)
         \/ SweepUnrated \/ RefreshRollup \/ Crash
  PROVE  signals \subseteq signals' /\ rollup' \in {rollup, signals}
  BY DEF CreateInfluencer, CreateSignal, RateSwept, SweepUnrated, RefreshRollup, Crash,
         database

LEMMA IInvStep == IInv /\ [Next]_pipelineVars => IInv'
<1> SUFFICES ASSUME IInv, [Next]_pipelineVars PROVE IInv'
  OBVIOUS
<1>1. CASE UNCHANGED pipelineVars
  <2>1. TypeOK'
    BY <1>1 DEF IInv, TypeOK, pipelineVars
  <2>2. ASSUME NEW q \in Runs PROVE RunInv(q)'
    BY <1>1, OthersKeep, IInvByRun DEF pipelineVars, SameRun
  <2>3. QED BY <2>1, <2>2, IInvByRunNext
<1>2. CASE Next
  <2>1. TypeOK /\ TypeOK'
    BY <1>2, TypeOKStep DEF IInv
  <2>2. ASSUME NEW q \in Runs PROVE RunInv(q)'
    <3>1. RunInv(q)
      BY IInvByRun
    <3>2. CASE \E r \in Runs : RunStep(r)
      <4>1. PICK r \in Runs : RunStep(r)
        BY <3>2
      <4>2. CASE q = r
        BY <2>1, <3>1, <4>1, <4>2, ShapeStep, LedgerStep, StatusStep, RollupStep
        DEF RunInv
      <4>3. CASE q # r
        BY <2>1, <3>1, <4>1, <4>3, OtherRunsStay, StoresGrow, OthersKeep
      <4>4. QED BY <4>2, <4>3
    <3>3. CASE \/ \E i \in Influencers : CreateInfluencer(i)
               \/ \E x \in Signals : CreateSignal(x) \/ RateSwept(x)
               \/ SweepUnrated \/ RefreshRollup \/ Crash
      <4>1. SameRun(q) /\ rating_model' = rating_model
        BY <3>3, BystanderStep DEF Untouched, SameRun
      <4>2. QED BY <3>1, <3>3, <4>1, BystandersGrow, OthersKeep
    <3>4. QED BY <1>2, <3>2, <3>3 DEF Next, WorkStep, PublishStep, RunStep
  <2>3. QED BY <2>1, <2>2, IInvByRunNext
<1>3. QED BY <1>1, <1>2

\* The tasks of a run, its row and the rollup stay in step (tasks.py: every UPDATE that
\* scrape_influencer, finalize_run and _announce_rating commit).
THEOREM Invariance == Spec => []IInv
  BY InitIInv, IInvStep, PTL DEF Spec

-----------------------------------------------------------------------------
(* The safety properties *)

\* No bump of the run's counters is lost, doubled or unaccounted for.
THEOREM LedgerTheorem == Spec => []LedgerBalances
<1>1. IInv => LedgerBalances
  BY DEF IInv
<1>2. QED BY <1>1, Invariance, PTL

\* finalize_run never leaves a run in `rating` with nothing left to rate.
THEOREM NoStrandedRunTheorem == Spec => []NoStrandedRun
<1>1. IInv => NoStrandedRun
  BY DEF IInv, StatusFits, NoStrandedRun
<1>2. QED BY <1>1, Invariance, PTL

\* As many announced as inserted, and none but those: all of them.
LEMMA CompletedStates == IInv => CompletedMeansHandled
<1> SUFFICES ASSUME IInv, NEW r \in Runs, runs[r].status = "completed", RatingOn(r)
             PROVE  Announced(r) = Accounted(r)
  BY DEF CompletedMeansHandled
<1>1. Announced(r) \subseteq Accounted(r) /\ Accounted(r) \subseteq Signals
  BY DEF IInv, LedgerBalances, TypeOK, Accounted
<1>2. Cardinality(Announced(r)) >= Cardinality(Accounted(r))
  BY DEF IInv, LedgerBalances, StatusFits
<1>3. IsFiniteSet(Accounted(r)) /\ IsFiniteSet(Announced(r))
  BY <1>1, RunsAssumption, FS_Subset
<1>4. /\ Cardinality(Announced(r)) <= Cardinality(Accounted(r))
      /\ Cardinality(Announced(r)) = Cardinality(Accounted(r))
            => Announced(r) = Accounted(r)
  BY <1>1, <1>3, FS_Subset
<1>5. Cardinality(Announced(r)) \in Nat /\ Cardinality(Accounted(r)) \in Nat
  BY <1>3, FS_CardinalityType
<1>6. QED BY <1>2, <1>4, <1>5

\* A completed run has announced every signal it inserted.
THEOREM CompletedTheorem == Spec => []CompletedMeansHandled
  BY CompletedStates, Invariance, PTL

LEMMA BarrierStates == IInv => FanInIsABarrier
<1> SUFFICES ASSUME IInv, NEW r \in Runs, runs[r].status \in Terminal \cup {"rating"}
             PROVE  /\ \A i \in cohort[r] : scrape[r][i] = "returned"
                    /\ runs[r].done_count = runs[r].total
                    /\ runs[r].total = Cardinality(cohort[r])
  BY DEF FanInIsABarrier
<1>1. dispatch[r] = "fanned" /\ \A i \in cohort[r] : scrape[r][i] = "returned"
  BY DEF IInv, Shape, AllReturned
<1>2. Counted(r) = cohort[r]
  BY <1>1 DEF IInv, TypeOK, Shape, Counted
<1>3. QED BY <1>1, <1>2 DEF IInv, LedgerBalances, StatusFits

\* finalize_run begins only when every scrape of the run has returned and been counted.
THEOREM BarrierTheorem == Spec => []FanInIsABarrier
  BY BarrierStates, Invariance, PTL

\* The rollup shows what a run committed once the run has left its scrape phase unfailed.
THEOREM RollupTheorem == Spec => []RollupCoversRun
<1>1. IInv => RollupCoversRun
  BY DEF IInv, RollupFits, RollupCoversRun
<1>2. QED BY <1>1, Invariance, PTL

-----------------------------------------------------------------------------
(* The end of a run *)

\* The statements that write the row of a run.
LEMMA RowWriters ==
  ASSUME NEW r \in Runs, RunStep(r)
  PROVE  \/ runs' = runs
         \/ CreateRun(r) \/ DispatchRun(r) \/ DecideRun(r)
         \/ \E i \in Influencers : ScrapeStart(r, i) \/ CountScrape(r, i)
         \/ \E x \in Signals : AnnounceRating(r, x)
  BY DEF RunStep, DispatchStep, ScrapeStep, RateStep, SendDispatch, StartChord,
         ScrapeReturns, ScrapeRaises, EnqueueRatings, PublishProgress, RefreshForRun,
         PublishFanIn, AlreadyRated, CallModel, StoreRating, RetryRating, GiveUpRating,
         PublishRating

LEMMA TerminalStep ==
  ASSUME TypeOK, NEW r \in Runs, Shape(r), RunStep(r), runs[r].status \in Terminal
  PROVE  runs'[r].status = runs[r].status
<1> USE DEF TypeOK
<1>1. CASE runs' = runs
  BY <1>1
<1>2. CASE CreateRun(r)
  BY <1>2 DEF CreateRun, Terminal
<1>3. CASE DispatchRun(r)
  BY <1>3, SizesAreNatural, TrueUpTotalFacts DEF DispatchRun
<1>4. CASE DecideRun(r)
  BY <1>4 DEF DecideRun, Shape
<1>5. ASSUME NEW i \in Influencers, ScrapeStart(r, i) PROVE runs'[r].status = runs[r].status
  BY <1>5, MarkRunningFacts DEF ScrapeStart, Terminal
<1>6. ASSUME NEW i \in Influencers, CountScrape(r, i) PROVE runs'[r].status = runs[r].status
  <2>1. Cardinality(new_items[r] \cap PostsOf(i)) \in Nat
    BY SizesAreNatural DEF PostsOf
  <2>2. QED BY <1>6, <2>1, AddScrapeFacts DEF CountScrape
<1>7. ASSUME NEW x \in Signals, AnnounceRating(r, x) PROVE runs'[r].status = runs[r].status
  BY <1>7, AddRatingFacts DEF AnnounceRating, LastRating, Terminal
<1>8. QED BY <1>1, <1>2, <1>3, <1>4, <1>5, <1>6, <1>7, RowWriters

\* No statement of any task takes a run out of a terminal status, and none stamps
\* finished_at but the one that makes it terminal (tasks.py: the CASE of _announce_rating
\* flips a run in `rating` and no other).
THEOREM TerminalTheorem == Spec => TerminalIsFinal
<1>1. ASSUME IInv, IInv', [Next]_pipelineVars, NEW r \in Runs
      PROVE  /\ runs[r].status \in Terminal => runs'[r].status = runs[r].status
             /\ runs'[r].finished <=> runs'[r].status \in Terminal
  <2>1. runs'[r].finished <=> runs'[r].status \in Terminal
    BY <1>1 DEF IInv, StatusFits
  <2>2. ASSUME runs[r].status \in Terminal PROVE runs'[r].status = runs[r].status
    <3>1. CASE UNCHANGED pipelineVars \/ Untouched
      BY <3>1 DEF pipelineVars, Untouched
    <3>2. ASSUME NEW q \in Runs, RunStep(q) PROVE runs'[r].status = runs[r].status
      <4>1. CASE q = r
        BY <1>1, <2>2, <3>2, <4>1, TerminalStep DEF IInv
      <4>2. CASE q # r
        BY <1>1, <3>2, <4>2, OtherRunsStay DEF IInv, SameRun
      <4>3. QED BY <4>1, <4>2
    <3>3. QED BY <1>1, <3>1, <3>2, StepsAreOfOneRun
  <2>3. QED BY <2>1, <2>2
<1>2. IInv /\ IInv' /\ [Next]_pipelineVars =>
         [\A r \in Runs :
            /\ runs[r].status \in Terminal => runs'[r].status = runs[r].status
            /\ runs'[r].finished <=> runs'[r].status \in Terminal]_pipelineVars
  BY <1>1
<1>3. QED BY <1>2, Invariance, PTL DEF Spec, TerminalIsFinal

-----------------------------------------------------------------------------
(* Who says `done`, and when a run is running *)

\* A `done` is owed only for a run that has ended, and none but a run that has started has a
\* scrape task that has.
EndInv(r) ==
    /\ OwesDone(r) # {} => runs[r].status \in Terminal
    /\ (\E i \in Influencers : scrape[r][i] \notin {"idle", "queued"}) =>
          runs[r].status \notin {"absent", "queued"}

FullInv == IInv /\ \A r \in Runs : EndInv(r)

\* What a step of a run that writes no row changes of who owes a `done`: nobody new does.
LEMMA NoRowNoDone ==
  ASSUME TypeOK, NEW r \in Runs, RunStep(r),
         ~DecideRun(r), \A x \in Signals : ~AnnounceRating(r, x)
  PROVE  /\ finalize'[r] = "say_done" => finalize[r] = "say_done"
         /\ \A x \in Signals : rate'[r][x] = "say_done" => rate[r][x] = "say_done"
<1> DEFINE Same == /\ finalize'[r] = "say_done" => finalize[r] = "say_done"
                   /\ \A x \in Signals : rate'[r][x] = "say_done" => rate[r][x] = "say_done"
<1> USE DEF TypeOK, scrapeTasks, ratingTasks
<1>1. CASE CreateRun(r)
  BY <1>1 DEF CreateRun
<1>2. CASE DispatchStep(r)
  BY <1>2 DEF DispatchStep, SendDispatch, DispatchRun, StartChord
<1>3. ASSUME NEW i \in Influencers, ScrapeStep(r, i) \/ PublishProgress(r, i) PROVE Same
  <2>1. CASE EnqueueRatings(r, i)
    BY <2>1 DEF EnqueueRatings
  <2>2. CASE ~EnqueueRatings(r, i)
    BY <1>3, <2>2 DEF ScrapeStep, ScrapeStart, ScrapeReturns, ScrapeRaises, CountScrape,
                      PublishProgress
  <2>3. QED BY <2>1, <2>2
<1>4. CASE RefreshForRun(r) \/ PublishFanIn(r)
  BY <1>4 DEF RefreshForRun, PublishFanIn
<1>5. ASSUME NEW x \in Signals, RateStep(r, x) \/ PublishRating(r, x), ~AnnounceRating(r, x)
      PROVE  Same
  BY <1>5 DEF RateStep, AlreadyRated, CallModel, StoreRating, RetryRating, GiveUpRating,
              PublishRating
<1>6. QED BY <1>1, <1>2, <1>3, <1>4, <1>5 DEF RunStep

\* Only finalize_run and the last rating end a run.
LEMMA OthersDoNotEnd ==
  ASSUME TypeOK, NEW r \in Runs, RunStep(r), runs[r].status \notin Terminal,
         ~DecideRun(r), \A x \in Signals : ~AnnounceRating(r, x)
  PROVE  runs'[r].status \notin Terminal
<1> USE DEF TypeOK
<1>1. CASE runs' = runs
  BY <1>1
<1>2. CASE CreateRun(r)
  <2>1. PICK model \in BOOLEAN :
          runs' = [runs EXCEPT ![r] = InsertedRow(model, Cardinality(watchlist))]
    BY <1>2 DEF CreateRun
  <2>2. QED BY <2>1, InsertedRowFacts, SizesAreNatural DEF Terminal
<1>3. CASE DispatchRun(r)
  BY <1>3, SizesAreNatural, TrueUpTotalFacts DEF DispatchRun
<1>4. ASSUME NEW i \in Influencers, ScrapeStart(r, i) PROVE runs'[r].status \notin Terminal
  BY <1>4, MarkRunningFacts DEF ScrapeStart, Terminal
<1>5. ASSUME NEW i \in Influencers, CountScrape(r, i) PROVE runs'[r].status \notin Terminal
  <2>1. Cardinality(new_items[r] \cap PostsOf(i)) \in Nat
    BY SizesAreNatural DEF PostsOf
  <2>2. QED BY <1>5, <2>1, AddScrapeFacts DEF CountScrape
<1>6. QED BY <1>1, <1>2, <1>3, <1>4, <1>5, RowWriters

\* finalize_run owes a `done` when it ends the run, and nobody owed one before.
LEMMA DecideOwes ==
  ASSUME FullInv, NEW r \in Runs, DecideRun(r)
  PROVE  /\ OwesDone(r)' \ OwesDone(r) # {} <=> runs'[r].status \in Terminal
         /\ runs[r].status \notin Terminal
<1>1. TypeOK /\ Shape(r) /\ EndInv(r)
  BY DEF FullInv, IInv
<1>2. runs[r].status \notin Terminal
  BY <1>1 DEF Shape, DecideRun
<1>3. OwesDone(r) = {}
  BY <1>1, <1>2 DEF EndInv
<1> DEFINE status == PostScrapeStatus(runs[r], RunFailed(r), RatingOn(r))
<1>4. status \in {"failed", "rating", "completed"}
  BY DEF PostScrapeStatus
<1>5. /\ runs' = [runs EXCEPT ![r] = Decide(@, status)]
      /\ finalize' = [finalize EXCEPT ![r] =
                         IF status \in Terminal THEN "say_done" ELSE "say_scrape_done"]
      /\ rate' = rate
  BY DEF DecideRun, ratingTasks
<1> HIDE DEF status
<1>6. runs'[r].status = status
  BY <1>1, <1>4, <1>5, DecideFacts DEF TypeOK
<1>7. finalize'[r] = IF status \in Terminal THEN "say_done" ELSE "say_scrape_done"
  BY <1>1, <1>5 DEF TypeOK
<1>8. \A x \in Signals : rate'[r][x] # "say_done"
  BY <1>3, <1>5 DEF OwesDone
<1>9. OwesDone(r)' # {} <=> status \in Terminal
  BY <1>7, <1>8 DEF OwesDone
<1>10. QED BY <1>2, <1>3, <1>6, <1>9

\* No rating of a completed run is left to be announced.
LEMMA NoneLeftToAnnounce ==
  ASSUME IInv, NEW r \in Runs, NEW x \in Signals, rate[r][x] = "ended"
  PROVE  runs[r].status # "completed"
<1>1. RatingOn(r) /\ x \in Accounted(r) /\ x \notin Announced(r)
  BY OwnerAssumption DEF IInv, Shape, Accounted, Announced, Counted
<1>2. QED BY <1>1, CompletedStates DEF CompletedMeansHandled

\* A rating owes a `done` when it is the last, and nobody owed one before.
LEMMA AnnounceOwes ==
  ASSUME FullInv, NEW r \in Runs, NEW x \in Signals, AnnounceRating(r, x)
  PROVE  OwesDone(r)' \ OwesDone(r) # {}
            <=> (runs[r].status \notin Terminal /\ runs'[r].status \in Terminal)
<1>1. TypeOK /\ EndInv(r) /\ rate[r][x] = "ended" /\ runs[r].status # "completed"
  BY NoneLeftToAnnounce DEF FullInv, IInv, AnnounceRating
<1> DEFINE last == LastRating(runs[r])
<1>2. /\ runs'[r].status = IF last THEN "completed" ELSE runs[r].status
      /\ AddRating(runs[r]).status = runs'[r].status
  BY <1>1, AddRatingFacts DEF TypeOK, AnnounceRating
<1>3. last => runs[r].status = "rating"
  BY DEF LastRating
<1> HIDE DEF last
<1>4. /\ finalize' = finalize
      /\ rate'[r][x] = IF last THEN "say_done" ELSE "say_rating"
      /\ \A y \in Signals : y # x => rate'[r][y] = rate[r][y]
  BY <1>1, <1>2 DEF TypeOK, AnnounceRating
<1>5. CASE last
  <2>1. OwesDone(r) = {}
    BY <1>1, <1>3, <1>5 DEF EndInv, Terminal
  <2>2. x \in OwesDone(r)'
    BY <1>4, <1>5 DEF OwesDone
  <2>3. QED BY <1>2, <1>3, <1>5, <2>1, <2>2 DEF Terminal
<1>6. CASE ~last
  <2>1. OwesDone(r)' \subseteq OwesDone(r)
    BY <1>4, <1>6 DEF OwesDone
  <2>2. QED BY <1>2, <1>6, <2>1
<1>7. QED BY <1>5, <1>6

LEMMA EndStep ==
  ASSUME FullInv, NEW r \in Runs, RunStep(r)
  PROVE  OwesDone(r)' \ OwesDone(r) # {}
            <=> (runs[r].status \notin Terminal /\ runs'[r].status \in Terminal)
<1>1. TypeOK /\ Shape(r)
  BY DEF FullInv, IInv
<1>2. CASE DecideRun(r)
  BY <1>2, DecideOwes
<1>3. ASSUME NEW x \in Signals, AnnounceRating(r, x)
      PROVE  OwesDone(r)' \ OwesDone(r) # {}
                <=> (runs[r].status \notin Terminal /\ runs'[r].status \in Terminal)
  BY <1>3, AnnounceOwes
<1>4. CASE ~DecideRun(r) /\ \A x \in Signals : ~AnnounceRating(r, x)
  <2>1. OwesDone(r)' \subseteq OwesDone(r)
    BY <1>1, <1>4, NoRowNoDone DEF OwesDone
  <2>2. runs[r].status \notin Terminal => runs'[r].status \notin Terminal
    BY <1>1, <1>4, OthersDoNotEnd
  <2>3. QED BY <2>1, <2>2
<1>5. QED BY <1>2, <1>3, <1>4

\* A run that has a scrape under way is running: the task marked it so, and no statement
\* takes it back.
LEMMA StartedStep ==
  ASSUME TypeOK, NEW r \in Runs, Shape(r), EndInv(r), RunStep(r)
  PROVE  (\E i \in Influencers : scrape'[r][i] \notin {"idle", "queued"}) =>
            runs'[r].status \notin {"absent", "queued"}
<1> USE DEF TypeOK, scrapeTasks, ratingTasks
<1> DEFINE Started == \E i \in Influencers : scrape[r][i] \notin {"idle", "queued"}
           Goal == Started' => runs'[r].status \notin {"absent", "queued"}
<1>1. Started => runs[r].status \notin {"absent", "queued"}
  BY DEF EndInv
<1>2. CASE CreateRun(r)
  BY <1>2 DEF CreateRun, Shape
<1>3. CASE SendDispatch(r) \/ RefreshForRun(r) \/ PublishFanIn(r)
  BY <1>1, <1>3 DEF SendDispatch, RefreshForRun, PublishFanIn
<1>4. CASE DispatchRun(r)
  BY <1>1, <1>4, SizesAreNatural, TrueUpTotalFacts DEF DispatchRun
<1>5. CASE StartChord(r)
  BY <1>5 DEF StartChord, Shape
<1>6. CASE DecideRun(r)
  <2>1. PostScrapeStatus(runs[r], RunFailed(r), RatingOn(r)) \in {"failed", "rating", "completed"}
    BY DEF PostScrapeStatus
  <2>2. QED BY <1>6, <2>1, DecideFacts DEF DecideRun
<1>7. ASSUME NEW i \in Influencers, ScrapeStart(r, i) PROVE Goal
  <2>1. runs'[r].status = IF runs[r].status = "queued" THEN "running" ELSE runs[r].status
    BY <1>7, MarkRunningFacts DEF ScrapeStart
  <2>2. runs[r].status # "absent"
    BY <1>7 DEF ScrapeStart, Shape
  <2>3. QED BY <2>1, <2>2
<1>8. ASSUME NEW i \in Influencers, ScrapeReturns(r, i) \/ ScrapeRaises(r, i) PROVE Goal
  <2>1. Started /\ runs' = runs
    BY <1>8 DEF ScrapeReturns, ScrapeRaises
  <2>2. QED BY <1>1, <2>1
<1>9. ASSUME NEW i \in Influencers, CountScrape(r, i) PROVE Goal
  <2>1. Started
    BY <1>9 DEF CountScrape
  <2>2. Cardinality(new_items[r] \cap PostsOf(i)) \in Nat
    BY SizesAreNatural DEF PostsOf
  <2>3. runs'[r].status = runs[r].status
    BY <1>9, <2>2, AddScrapeFacts DEF CountScrape
  <2>4. QED BY <1>1, <2>1, <2>3
<1>10. ASSUME NEW i \in Influencers, EnqueueRatings(r, i) \/ PublishProgress(r, i) PROVE Goal
  <2>1. Started /\ runs' = runs
    BY <1>10 DEF EnqueueRatings, PublishProgress
  <2>2. QED BY <1>1, <2>1
<1>11. ASSUME NEW x \in Signals, AnnounceRating(r, x) PROVE Goal
  <2>1. scrape' = scrape
    BY <1>11 DEF AnnounceRating
  <2>2. runs'[r].status \in {runs[r].status, "completed"}
    BY <1>11, AddRatingFacts DEF AnnounceRating
  <2>3. QED BY <1>1, <2>1, <2>2
<1>12. ASSUME NEW x \in Signals, RateStep(r, x) \/ PublishRating(r, x), ~AnnounceRating(r, x)
       PROVE  Goal
  <2>1. scrape' = scrape /\ runs' = runs
    BY <1>12 DEF RateStep, AlreadyRated, CallModel, StoreRating, RetryRating, GiveUpRating,
                 PublishRating
  <2>2. QED BY <1>1, <2>1
<1>13. QED
  BY <1>2, <1>3, <1>4, <1>5, <1>6, <1>7, <1>8, <1>9, <1>10, <1>11, <1>12
  DEF RunStep, DispatchStep, ScrapeStep

LEMMA OthersOwe ==
  ASSUME NEW q \in Runs, SameRun(q)
  PROVE  OwesDone(q)' = OwesDone(q) /\ (EndInv(q) => EndInv(q)')
  BY DEF SameRun, OwesDone, EndInv

LEMMA UntouchedIsSame ==
  ASSUME Untouched \/ UNCHANGED pipelineVars, NEW q \in Runs
  PROVE  SameRun(q) /\ rating_model' = rating_model
  BY DEF Untouched, pipelineVars, SameRun

LEMMA InitFullInv == Init => FullInv
<1>1. Init => \A r \in Runs : EndInv(r)
  BY DEF Init, EndInv, OwesDone
<1>2. QED BY <1>1, InitIInv DEF FullInv

LEMMA FullInvStep == FullInv /\ [Next]_pipelineVars => FullInv'
<1> SUFFICES ASSUME FullInv, [Next]_pipelineVars PROVE FullInv'
  OBVIOUS
<1>1. IInv /\ IInv'
  BY IInvStep DEF FullInv
<1>2. ASSUME NEW q \in Runs PROVE EndInv(q)'
  <2>1. EndInv(q) /\ TypeOK /\ Shape(q)
    BY <1>1 DEF FullInv, IInv
  <2>2. CASE Untouched \/ UNCHANGED pipelineVars
    BY <2>1, <2>2, UntouchedIsSame, OthersOwe
  <2>3. ASSUME NEW r \in Runs, RunStep(r) PROVE EndInv(q)'
    <3>1. CASE q # r
      BY <2>1, <2>3, <3>1, OtherRunsStay, OthersOwe
    <3>2. CASE q = r
      <4>1. OwesDone(r)' \ OwesDone(r) # {} => runs'[r].status \in Terminal
        BY <2>3, EndStep
      <4>2. OwesDone(r) # {} => runs'[r].status \in Terminal
        BY <2>1, <2>3, <3>2, TerminalStep DEF EndInv
      <4>3. (\E i \in Influencers : scrape'[r][i] \notin {"idle", "queued"}) =>
               runs'[r].status \notin {"absent", "queued"}
        BY <2>1, <2>3, <3>2, StartedStep
      <4>4. QED BY <3>2, <4>1, <4>2, <4>3 DEF EndInv
    <3>3. QED BY <3>1, <3>2
  <2>4. QED BY <2>2, <2>3, StepsAreOfOneRun
<1>3. QED BY <1>1, <1>2 DEF FullInv

LEMMA FullInvariance == Spec => []FullInv
  BY InitFullInv, FullInvStep, PTL DEF Spec

\* A `done` comes to be owed in the step that ends the run and in no other, whichever of
\* finalize_run and the rating tasks takes it: watchers are told once, and not too soon.
THEOREM DoneTheorem == Spec => DoneMarksTheEnd
<1>1. ASSUME FullInv, [Next]_pipelineVars, NEW r \in Runs
      PROVE  (OwesDone(r)' \ OwesDone(r) # {})
                <=> (runs[r].status \notin Terminal /\ runs'[r].status \in Terminal)
  <2>1. CASE Untouched \/ UNCHANGED pipelineVars
    BY <2>1, UntouchedIsSame, OthersOwe DEF SameRun
  <2>2. ASSUME NEW q \in Runs, RunStep(q)
        PROVE  (OwesDone(r)' \ OwesDone(r) # {})
                  <=> (runs[r].status \notin Terminal /\ runs'[r].status \in Terminal)
    <3>1. CASE q = r
      BY <1>1, <2>2, <3>1, EndStep
    <3>2. CASE q # r
      BY <1>1, <2>2, <3>2, OtherRunsStay, OthersOwe DEF FullInv, IInv, SameRun
    <3>3. QED BY <3>1, <3>2
  <2>3. QED BY <1>1, <2>1, <2>2, StepsAreOfOneRun
<1>2. FullInv /\ [Next]_pipelineVars =>
         [\A r \in Runs :
            (OwesDone(r)' \ OwesDone(r) # {})
               <=> (runs[r].status \notin Terminal /\ runs'[r].status \in Terminal)]_pipelineVars
  BY <1>1
<1>3. QED BY <1>2, FullInvariance, PTL DEF Spec, DoneMarksTheEnd

-----------------------------------------------------------------------------
(* The refinement of RunLifecycle *)

\* The abstract state of a run: its status and what it has found and not yet handled.
Unhandled(r) == IF RatingOn(r) THEN Accounted(r) \ Announced(r) ELSE {}

\* What the lifecycle lets a run do, or nothing at all.
Moves(r) ==
    \/ /\ runs[r].status = "absent" /\ runs'[r].status = "queued"
       /\ Unhandled(r)' = Unhandled(r)
    \/ /\ runs[r].status = "queued" /\ runs'[r].status = "running"
       /\ Unhandled(r)' = Unhandled(r)
    \/ /\ runs[r].status = "running" /\ runs'[r].status = runs[r].status
       /\ \E found \in SUBSET Signals : Unhandled(r)' = Unhandled(r) \cup found
    \/ \E x \in Unhandled(r) :
          /\ Unhandled(r)' = Unhandled(r) \ {x}
          /\ runs'[r].status = IF runs[r].status = "rating" /\ Unhandled(r) = {x}
                               THEN "completed" ELSE runs[r].status
    \/ /\ runs[r].status \in {"queued", "running"}
       /\ \/ runs'[r].status = "failed"
          \/ runs'[r].status = IF Unhandled(r) = {} THEN "completed" ELSE "rating"
       /\ Unhandled(r)' = Unhandled(r)
    \/ runs'[r].status = runs[r].status /\ Unhandled(r)' = Unhandled(r)

\* Before the first scrape is counted there is nothing to handle.
LEMMA NothingCounted ==
  ASSUME NEW r \in Runs, dispatch[r] # "fanned", Shape(r)
  PROVE  Accounted(r) = {} /\ Unhandled(r) = {}
  BY OwnerAssumption DEF Shape, Accounted, Counted, Unhandled

\* The row's counters say whether anything is unhandled, and whether it is the last.
LEMMA CountersTell ==
  ASSUME IInv, NEW r \in Runs
  PROVE  /\ IsFiniteSet(Accounted(r) \ Announced(r))
         /\ Cardinality(Accounted(r) \ Announced(r)) \in Nat
         /\ Cardinality(Accounted(r) \ Announced(r))
               = runs[r].inserted - runs[r].rated_count
         /\ runs[r].inserted \in Nat /\ runs[r].rated_count \in Nat
<1>1. /\ Announced(r) \subseteq Accounted(r) /\ Accounted(r) \subseteq Signals
      /\ runs[r].inserted = Cardinality(Accounted(r))
      /\ runs[r].rated_count = Cardinality(Announced(r))
  BY DEF IInv, LedgerBalances, TypeOK, Accounted
<1>2. IsFiniteSet(Accounted(r)) /\ IsFiniteSet(Announced(r))
  BY <1>1, RunsAssumption, FS_Subset
<1>3. IsFiniteSet(Accounted(r) \ Announced(r))
  BY <1>2, FS_Subset
<1>4. Accounted(r) \cap Announced(r) = Announced(r)
  BY <1>1
<1>5. Cardinality(Accounted(r) \ Announced(r))
         = Cardinality(Accounted(r)) - Cardinality(Accounted(r) \cap Announced(r))
  BY <1>2, FS_Difference
<1>6. QED BY <1>1, <1>2, <1>3, <1>4, <1>5, FS_CardinalityType

LEMMA CreateMoves ==
  ASSUME FullInv, NEW r \in Runs, CreateRun(r)
  PROVE  Moves(r)
<1>1. TypeOK /\ Shape(r)
  BY DEF FullInv, IInv
<1>2. PICK model \in BOOLEAN :
        runs' = [runs EXCEPT ![r] = InsertedRow(model, Cardinality(watchlist))]
  BY DEF CreateRun
<1>3. runs[r].status = "absent" /\ runs'[r].status = "queued"
  <2>1. Cardinality(watchlist) \in Nat
    BY <1>1, SizesAreNatural DEF TypeOK
  <2>2. QED BY <1>1, <1>2, <2>1, InsertedRowFacts DEF TypeOK, CreateRun
<1>4. Accounted(r) = {} /\ Unhandled(r) = {}
  BY <1>1, <1>3, NothingCounted DEF Shape
<1>5. Accounted(r)' = Accounted(r)
  BY DEF Accounted, Counted, CreateRun, scrapeTasks
<1>6. Unhandled(r)' = {}
  BY <1>4, <1>5 DEF Unhandled
<1>7. QED BY <1>3, <1>4, <1>6 DEF Moves

LEMMA StartMoves ==
  ASSUME FullInv, NEW r \in Runs, NEW i \in Influencers, ScrapeStart(r, i)
  PROVE  Moves(r)
<1>1. TypeOK /\ Shape(r)
  BY DEF FullInv, IInv
<1>2. /\ runs'[r].status = IF runs[r].status = "queued" THEN "running" ELSE runs[r].status
      /\ runs'[r].model = runs[r].model
  BY <1>1, MarkRunningFacts DEF TypeOK, ScrapeStart
<1>3. Accounted(r)' = Accounted(r) /\ Announced(r)' = Announced(r) /\ (RatingOn(r)' <=> RatingOn(r))
  <2>1. Counted(r)' = Counted(r)
    BY <1>1 DEF TypeOK, Counted, ScrapeStart
  <2>2. QED BY <1>2, <2>1 DEF Accounted, Announced, RatingOn, ScrapeStart, ratingTasks
<1>4. Unhandled(r)' = Unhandled(r)
  BY <1>3 DEF Unhandled
<1>5. QED BY <1>2, <1>4 DEF Moves

\* A scrape is counted: what it found is to be handled from now on.
LEMMA CountMoves ==
  ASSUME FullInv, NEW r \in Runs, NEW i \in Influencers, CountScrape(r, i)
  PROVE  Moves(r)
<1>1. TypeOK /\ Shape(r) /\ EndInv(r)
  BY DEF FullInv, IInv
<1>2. Cardinality(new_items[r] \cap PostsOf(i)) \in Nat
  BY <1>1, SizesAreNatural DEF PostsOf
<1>3. runs'[r].status = runs[r].status /\ runs'[r].model = runs[r].model
  BY <1>1, <1>2, AddScrapeFacts DEF TypeOK, CountScrape
<1>4. runs[r].status = "running"
  <2>1. i \in cohort[r] /\ scrape[r][i] = "scraped" /\ ~AllReturned(r)
    BY <1>1 DEF Shape, CountScrape, AllReturned
  <2>2. runs[r].status \notin Terminal \cup {"rating"}
    BY <1>1, <2>1 DEF Shape
  <2>3. QED BY <1>1, <2>1, <2>2 DEF EndInv, TypeOK, RunRow, Statuses, Terminal
<1> DEFINE found == IF RatingOn(r) THEN new_items[r] \cap PostsOf(i) ELSE {}
<1>5. Counted(r)' = Counted(r) \cup {i}
  BY <1>1 DEF TypeOK, Counted, CountScrape
<1>6. Accounted(r)' = Accounted(r) \cup (new_items[r] \cap PostsOf(i))
  BY <1>1, <1>5 DEF TypeOK, Accounted, PostsOf, CountScrape
<1>7. Announced(r)' = Announced(r) /\ (RatingOn(r)' <=> RatingOn(r))
  BY <1>3 DEF Announced, RatingOn, CountScrape, ratingTasks
<1>8. PostsOf(i) \cap Announced(r) = {}
  BY <1>1 DEF Shape, PostsOf, Announced, CountScrape
<1>9. Unhandled(r)' = Unhandled(r) \cup found
  BY <1>6, <1>7, <1>8 DEF Unhandled
<1>10. found \in SUBSET Signals
  BY <1>1 DEF TypeOK
<1> HIDE DEF found
<1>11. QED BY <1>3, <1>4, <1>9, <1>10 DEF Moves

\* finalize_run's UPDATE: it asks the counters whether anything is left.
LEMMA DecideMoves ==
  ASSUME FullInv, NEW r \in Runs, DecideRun(r)
  PROVE  Moves(r)
<1>1. TypeOK /\ Shape(r) /\ IInv
  BY DEF FullInv, IInv
<1> DEFINE status == PostScrapeStatus(runs[r], RunFailed(r), RatingOn(r))
<1>2. status \in {"failed", "rating", "completed"}
  BY DEF PostScrapeStatus
<1>3. runs'[r].status = status /\ runs'[r].model = runs[r].model
  BY <1>1, <1>2, DecideFacts DEF TypeOK, DecideRun
<1>4. Unhandled(r)' = Unhandled(r)
  BY <1>3 DEF Unhandled, Accounted, Announced, Counted, RatingOn, DecideRun, scrapeTasks, ratingTasks
<1>5. runs[r].status \in {"queued", "running"}
  <2>1. runs[r].status \notin Terminal \cup {"rating"} /\ dispatch[r] = "fanned"
    BY <1>1 DEF Shape, DecideRun, AllReturned
  <2>2. QED BY <1>1, <2>1 DEF Shape, TypeOK, RunRow, Statuses, Terminal
<1>6. status \in {"failed", IF Unhandled(r) = {} THEN "completed" ELSE "rating"}
  <2>1. CASE ~RatingOn(r)
    BY <2>1 DEF PostScrapeStatus, Unhandled
  <2>2. CASE RatingOn(r)
    <3>1. Unhandled(r) = {} <=> runs[r].inserted - runs[r].rated_count = 0
      BY <1>1, <2>2, CountersTell, FS_EmptySet DEF Unhandled
    <3>2. runs[r].inserted - runs[r].rated_count \in Nat
          /\ runs[r].inserted \in Nat /\ runs[r].rated_count \in Nat
      BY <1>1, CountersTell
    <3>3. QED BY <2>2, <3>1, <3>2 DEF PostScrapeStatus
  <2>3. QED BY <2>1, <2>2
<1> HIDE DEF status
<1>7. QED BY <1>3, <1>4, <1>5, <1>6 DEF Moves

\* _announce_rating's UPDATE: it asks the counters whether this was the last.
LEMMA AnnounceMoves ==
  ASSUME FullInv, NEW r \in Runs, NEW x \in Signals, AnnounceRating(r, x)
  PROVE  Moves(r)
<1>1. TypeOK /\ Shape(r) /\ IInv /\ rate[r][x] = "ended"
  BY DEF FullInv, IInv, AnnounceRating
<1>2. RatingOn(r) /\ x \in Unhandled(r)
  BY <1>1, OwnerAssumption DEF Shape, Unhandled, Accounted, Announced, Counted
<1>3. /\ runs'[r].status = IF LastRating(runs[r]) THEN "completed" ELSE runs[r].status
      /\ runs'[r].model = runs[r].model
  BY <1>1, AddRatingFacts DEF TypeOK, AnnounceRating
<1>4. Announced(r)' = Announced(r) \cup {x}
  BY <1>1, <1>3 DEF TypeOK, Announced, AnnounceRating
<1>5. Accounted(r)' = Accounted(r) /\ (RatingOn(r)' <=> RatingOn(r))
  BY <1>3 DEF Accounted, Counted, RatingOn, AnnounceRating, scrapeTasks
<1>6. Unhandled(r)' = Unhandled(r) \ {x}
  BY <1>4, <1>5 DEF Unhandled
<1>7. runs[r].rated_count + 1 >= runs[r].inserted <=> Unhandled(r) = {x}
  <2>1. Unhandled(r) = Accounted(r) \ Announced(r)
    BY <1>2 DEF Unhandled
  <2>2. /\ IsFiniteSet(Unhandled(r))
        /\ Cardinality(Unhandled(r)) = runs[r].inserted - runs[r].rated_count
        /\ Cardinality(Unhandled(r)) \in Nat
        /\ runs[r].inserted \in Nat /\ runs[r].rated_count \in Nat
    BY <1>1, <2>1, CountersTell
  <2>3. Cardinality(Unhandled(r)) # 0
    BY <1>2, <2>2, FS_EmptySet
  <2>4. Cardinality(Unhandled(r)) = 1 <=> \E y : Unhandled(r) = {y}
    BY <2>2, FS_Singleton
  <2>5. (\E y : Unhandled(r) = {y}) <=> Unhandled(r) = {x}
    BY <1>2
  <2>6. runs[r].rated_count + 1 >= runs[r].inserted <=> Cardinality(Unhandled(r)) = 1
    BY <2>2, <2>3
  <2>7. QED BY <2>4, <2>5, <2>6
<1>8. LastRating(runs[r]) <=> runs[r].status = "rating" /\ Unhandled(r) = {x}
  BY <1>7 DEF LastRating
<1>9. QED BY <1>2, <1>3, <1>6, <1>8 DEF Moves

\* The steps that the lifecycle does not see.
LEMMA QuietMoves ==
  ASSUME FullInv, NEW r \in Runs, RunStep(r),
         ~CreateRun(r), ~DecideRun(r),
         \A i \in Influencers : ~ScrapeStart(r, i) /\ ~CountScrape(r, i),
         \A x \in Signals : ~AnnounceRating(r, x)
  PROVE  runs'[r].status = runs[r].status /\ Unhandled(r)' = Unhandled(r)
<1>1. TypeOK /\ Shape(r)
  BY DEF FullInv, IInv
<1>2. ASSUME runs'[r].status = runs[r].status, runs'[r].model = runs[r].model,
             rating_model' = rating_model,
             Counted(r)' = Counted(r), Accounted(r)' = Accounted(r), Announced(r)' = Announced(r)
      PROVE  runs'[r].status = runs[r].status /\ Unhandled(r)' = Unhandled(r)
  <2>1. RatingOn(r)' <=> RatingOn(r)
    BY <1>2 DEF RatingOn
  <2>2. QED BY <1>2, <2>1 DEF Unhandled
<1> DEFINE Quiet == runs'[r].status = runs[r].status /\ Unhandled(r)' = Unhandled(r)
<1> USE DEF scrapeTasks, ratingTasks
<1>3. CASE DispatchStep(r)
  <2> Cardinality(watchlist) \in Nat
    BY <1>1, SizesAreNatural DEF TypeOK
  <2>1. runs'[r].status = runs[r].status /\ runs'[r].model = runs[r].model
    <3>1. CASE DispatchRun(r)
      BY <1>1, <3>1, TrueUpTotalFacts DEF TypeOK, DispatchRun
    <3>2. CASE SendDispatch(r) \/ StartChord(r)
      BY <3>2 DEF SendDispatch, StartChord
    <3>3. QED BY <1>3, <3>1, <3>2 DEF DispatchStep
  <2>2. Counted(r)' = Counted(r)
    BY <1>1, <1>3 DEF TypeOK, Shape, DispatchStep, SendDispatch, DispatchRun, StartChord, Counted
  <2>3. rating_model' = rating_model /\ new_items' = new_items /\ rate' = rate
    BY <1>3 DEF DispatchStep, SendDispatch, DispatchRun, StartChord
  <2>4. QED BY <1>2, <2>1, <2>2, <2>3 DEF Accounted, Announced
<1>4. ASSUME NEW i \in Influencers, ScrapeReturns(r, i) \/ ScrapeRaises(r, i) PROVE Quiet
  <2>1. runs' = runs /\ rating_model' = rating_model /\ rate' = rate
    BY <1>4 DEF ScrapeReturns, ScrapeRaises
  <2>2. Counted(r)' = Counted(r) /\ i \notin Counted(r)
    BY <1>1, <1>4 DEF TypeOK, ScrapeReturns, ScrapeRaises, Counted
  <2>3. \E fresh \in SUBSET PostsOf(i) : new_items'[r] = new_items[r] \cup fresh
    <3>1. CASE ScrapeReturns(r, i)
      <4>1. PICK fresh \in SUBSET (PostsOf(i) \ signals) :
              new_items' = [new_items EXCEPT ![r] = @ \cup fresh]
        BY <3>1 DEF ScrapeReturns
      <4>2. new_items'[r] = new_items[r] \cup fresh
        BY <1>1, <4>1 DEF TypeOK
      <4>3. fresh \in SUBSET PostsOf(i)
        BY <4>1
      <4>4. QED BY <4>2, <4>3
    <3>2. CASE ScrapeRaises(r, i)
      <4>1. {} \in SUBSET PostsOf(i) /\ new_items'[r] = new_items[r] \cup {}
        BY <3>2 DEF ScrapeRaises
      <4>2. QED BY <4>1
    <3>3. QED BY <1>4, <3>1, <3>2
  <2>4. Accounted(r)' = Accounted(r)
    BY <2>2, <2>3 DEF Accounted, PostsOf
  <2>5. QED BY <1>2, <2>1, <2>2, <2>4 DEF Announced
<1>5. ASSUME NEW i \in Influencers, EnqueueRatings(r, i) PROVE Quiet
  <2>1. runs' = runs /\ rating_model' = rating_model /\ new_items' = new_items
    BY <1>5 DEF EnqueueRatings
  <2>2. Counted(r)' = Counted(r)
    BY <1>1, <1>5 DEF TypeOK, EnqueueRatings, Counted
  <2>3. \A x \in PostsOf(i) : rate[r][x] = "idle"
    BY <1>1, <1>5 DEF Shape, EnqueueRatings, PostsOf
  <2>4. Announced(r)' = Announced(r)
    BY <1>1, <1>5, <2>3 DEF TypeOK, EnqueueRatings, Announced
  <2>5. QED BY <1>2, <2>1, <2>2, <2>4 DEF Accounted
<1>6. ASSUME NEW i \in Influencers, PublishProgress(r, i) PROVE Quiet
  <2>1. runs' = runs /\ rating_model' = rating_model /\ new_items' = new_items /\ rate' = rate
    BY <1>6 DEF PublishProgress
  <2>2. Counted(r)' = Counted(r)
    BY <1>1, <1>6 DEF TypeOK, PublishProgress, Counted
  <2>3. QED BY <1>2, <2>1, <2>2 DEF Accounted, Announced
<1>7. CASE RefreshForRun(r) \/ PublishFanIn(r)
  BY <1>2, <1>7 DEF RefreshForRun, PublishFanIn, Counted, Accounted, Announced
<1>8. ASSUME NEW x \in Signals, RateStep(r, x) \/ PublishRating(r, x), ~AnnounceRating(r, x)
      PROVE  Quiet
  <2>1. runs' = runs /\ rating_model' = rating_model /\ new_items' = new_items /\ scrape' = scrape
    BY <1>8 DEF RateStep, AlreadyRated, CallModel, StoreRating, RetryRating, GiveUpRating,
                PublishRating
  <2>2. Announced(r)' = Announced(r)
    BY <1>1, <1>8 DEF TypeOK, RateStep, AlreadyRated, CallModel, StoreRating, RetryRating,
                      GiveUpRating, PublishRating, Announced
  <2>3. QED BY <1>2, <2>1, <2>2 DEF Counted, Accounted
<1>9. QED
  BY <1>3, <1>4, <1>5, <1>6, <1>7, <1>8 DEF RunStep, ScrapeStep

LEMMA RunStepMoves ==
  ASSUME FullInv, NEW r \in Runs, RunStep(r)
  PROVE  Moves(r)
<1>1. CASE \/ CreateRun(r) \/ DecideRun(r)
           \/ \E i \in Influencers : ScrapeStart(r, i) \/ CountScrape(r, i)
           \/ \E x \in Signals : AnnounceRating(r, x)
  BY <1>1, CreateMoves, DecideMoves, StartMoves, CountMoves, AnnounceMoves
<1>2. CASE ~(\/ CreateRun(r) \/ DecideRun(r)
             \/ \E i \in Influencers : ScrapeStart(r, i) \/ CountScrape(r, i)
             \/ \E x \in Signals : AnnounceRating(r, x))
  BY <1>2, QuietMoves DEF Moves
<1>3. QED BY <1>1, <1>2

\* A move of one run, with the others where they are, is a step of the lifecycle.
AbstractStatus == [r \in Runs |-> runs[r].status]
AbstractTodo == [r \in Runs |-> Unhandled(r)]

LEMMA MovesAreSteps ==
  ASSUME TypeOK, NEW r \in Runs, Moves(r),
         \A q \in Runs : q # r => /\ runs'[q].status = runs[q].status
                                  /\ Unhandled(q)' = Unhandled(q)
  PROVE  [Lifecycle!LifecycleNext]_(Lifecycle!lifecycleVars)
<1>1. /\ AbstractStatus' = [AbstractStatus EXCEPT ![r] = runs'[r].status]
      /\ AbstractTodo' = [AbstractTodo EXCEPT ![r] = Unhandled(r)']
  BY DEF AbstractStatus, AbstractTodo
<1>2. AbstractStatus[r] = runs[r].status /\ AbstractTodo[r] = Unhandled(r)
  BY DEF AbstractStatus, AbstractTodo
<1>3. Unhandled(r)' = Unhandled(r) => AbstractTodo' = AbstractTodo
  BY <1>1, <1>2 DEF AbstractTodo
<1>4. runs'[r].status = runs[r].status => AbstractStatus' = AbstractStatus
  BY <1>1, <1>2 DEF AbstractStatus
<1> USE DEF Lifecycle!LifecycleNext, Lifecycle!lifecycleVars
<1>5. CASE /\ runs[r].status = "absent" /\ runs'[r].status = "queued"
           /\ Unhandled(r)' = Unhandled(r)
  <2>1. Lifecycle!Create(r)
    BY <1>1, <1>2, <1>3, <1>5 DEF Lifecycle!Create, AbstractStatus, AbstractTodo, Unhandled
  <2>2. QED BY <2>1
<1>6. CASE /\ runs[r].status = "queued" /\ runs'[r].status = "running"
           /\ Unhandled(r)' = Unhandled(r)
  <2>1. Lifecycle!Start(r)
    BY <1>1, <1>2, <1>3, <1>6 DEF Lifecycle!Start, AbstractStatus, AbstractTodo, Unhandled
  <2>2. QED BY <2>1
<1>7. ASSUME NEW found \in SUBSET Signals,
             runs[r].status = "running", runs'[r].status = runs[r].status,
             Unhandled(r)' = Unhandled(r) \cup found
      PROVE  [Lifecycle!LifecycleNext]_(Lifecycle!lifecycleVars)
  <2>1. AbstractTodo' = [AbstractTodo EXCEPT ![r] = @ \cup found]
    BY <1>1, <1>2, <1>7
  <2>2. Lifecycle!Find(r, found)
    BY <1>2, <1>4, <1>7, <2>1 DEF Lifecycle!Find, AbstractStatus, AbstractTodo, Unhandled
  <2>3. QED BY <2>2
<1>8. ASSUME NEW x \in Unhandled(r), Unhandled(r)' = Unhandled(r) \ {x},
             runs'[r].status = IF runs[r].status = "rating" /\ Unhandled(r) = {x}
                               THEN "completed" ELSE runs[r].status
      PROVE  [Lifecycle!LifecycleNext]_(Lifecycle!lifecycleVars)
  <2>1. /\ AbstractTodo' = [AbstractTodo EXCEPT ![r] = @ \ {x}]
        /\ AbstractStatus' = [AbstractStatus EXCEPT ![r] =
              IF @ = "rating" /\ AbstractTodo[r] = {x} THEN "completed" ELSE @]
    BY <1>1, <1>2, <1>8
  <2>2. x \in AbstractTodo[r]
    BY <1>2
  <2>3. Lifecycle!Handle(r, x)
    BY <2>1, <2>2 DEF Lifecycle!Handle, AbstractStatus, AbstractTodo, Unhandled
  <2>4. x \in Signals
    BY DEF TypeOK, Unhandled, Accounted
  <2>5. QED BY <2>3, <2>4
<1>9. CASE /\ runs[r].status \in {"queued", "running"}
           /\ \/ runs'[r].status = "failed"
              \/ runs'[r].status = IF Unhandled(r) = {} THEN "completed" ELSE "rating"
           /\ Unhandled(r)' = Unhandled(r)
  <2>1. \/ AbstractStatus' = [AbstractStatus EXCEPT ![r] = "failed"]
        \/ AbstractStatus' = [AbstractStatus EXCEPT ![r] =
              IF AbstractTodo[r] = {} THEN "completed" ELSE "rating"]
    BY <1>1, <1>2, <1>9
  <2>2. Lifecycle!FanIn(r)
    BY <1>2, <1>3, <1>9, <2>1 DEF Lifecycle!FanIn, AbstractStatus, AbstractTodo, Unhandled
  <2>3. QED BY <2>2
<1>10. CASE runs'[r].status = runs[r].status /\ Unhandled(r)' = Unhandled(r)
  BY <1>3, <1>4, <1>10 DEF AbstractStatus, AbstractTodo, Unhandled
<1>11. QED BY <1>5, <1>6, <1>7, <1>8, <1>9, <1>10 DEF Moves

LEMMA InitLifecycle == Init => Lifecycle!LifecycleInit
<1> SUFFICES ASSUME Init PROVE Lifecycle!LifecycleInit
  OBVIOUS
<1>1. \A r \in Runs : runs[r].status = "absent" /\ new_items[r] = {}
  BY DEF Init, NoRun
<1>2. \A r \in Runs : (IF RatingOn(r) THEN Accounted(r) \ Announced(r) ELSE {}) = {}
  BY <1>1 DEF Accounted
<1>3. QED BY <1>1, <1>2 DEF Lifecycle!LifecycleInit

\* A run that a step is not about keeps its place in the lifecycle.
LEMMA OthersStand ==
  ASSUME NEW q \in Runs, SameRun(q), rating_model' = rating_model
  PROVE  runs'[q].status = runs[q].status /\ Unhandled(q)' = Unhandled(q)
<1>1. /\ Counted(q)' = Counted(q) /\ Accounted(q)' = Accounted(q)
      /\ Announced(q)' = Announced(q)
  BY DEF SameRun, Counted, Accounted, Announced
<1>2. runs'[q] = runs[q] /\ (RatingOn(q)' <=> RatingOn(q))
  BY DEF SameRun, RatingOn
<1>3. QED BY <1>1, <1>2 DEF Unhandled

LEMMA StepsAreMoves ==
  FullInv /\ [Next]_pipelineVars => [Lifecycle!LifecycleNext]_(Lifecycle!lifecycleVars)
<1> SUFFICES ASSUME FullInv, [Next]_pipelineVars
             PROVE  [Lifecycle!LifecycleNext]_(Lifecycle!lifecycleVars)
  OBVIOUS
<1>1. CASE Untouched \/ UNCHANGED pipelineVars
  <2>1. \A q \in Runs : runs'[q].status = runs[q].status /\ Unhandled(q)' = Unhandled(q)
    BY <1>1, UntouchedIsSame, OthersStand
  <2>2. AbstractStatus' = AbstractStatus /\ AbstractTodo' = AbstractTodo
    BY <2>1 DEF AbstractStatus, AbstractTodo
  <2>3. QED BY <2>2 DEF AbstractStatus, AbstractTodo, Unhandled, Lifecycle!lifecycleVars
<1>2. ASSUME NEW r \in Runs, RunStep(r)
      PROVE  [Lifecycle!LifecycleNext]_(Lifecycle!lifecycleVars)
  <2>1. TypeOK /\ Moves(r)
    BY <1>2, RunStepMoves DEF FullInv, IInv
  <2>2. rating_model' = rating_model /\ \A q \in Runs : q # r => SameRun(q)
    BY <1>2, OtherRunsStay, StoresGrow DEF FullInv, IInv, SameRun
  <2>3. \A q \in Runs : q # r => /\ runs'[q].status = runs[q].status
                                 /\ Unhandled(q)' = Unhandled(q)
    BY <2>2, OthersStand
  <2>4. QED BY <2>1, <2>3, MovesAreSteps
<1>3. QED BY <1>1, <1>2, StepsAreOfOneRun

\* The pipeline, with its broker, its four kinds of task and its three counters, does to
\* a run only what the lifecycle of the runs table allows: queued, running, perhaps
\* rating, then one end, and that end is `completed` only with nothing left to handle.
THEOREM RefinementTheorem == Spec => LifecycleSpec
<1>1. QED BY InitLifecycle, StepsAreMoves, FullInvariance, PTL
          DEF Spec, LifecycleSpec, Lifecycle!Spec

-----------------------------------------------------------------------------
(* A rating task that is lost before its announcement, by a crash or by an exception *)

UncaughtNext == Next \/ \E r \in Runs, x \in Signals : RateRaises(r, x)

LEMMA RaisesTouchNothing ==
  ASSUME NEW r \in Runs, NEW x \in Signals, RateRaises(r, x)
  PROVE  /\ Untouched
         /\ UNCHANGED <<signals, rollup, watchlist, ratings, error, retries, swept>>
         /\ crashed \subseteq crashed'
  BY DEF RateRaises, Untouched, database, scrapeTasks, ratingTasks

LEMMA RaisesKeepTypes ==
  ASSUME TypeOK, NEW r \in Runs, NEW x \in Signals, RateRaises(r, x)
  PROVE  TypeOK'
<1>1. RateTask(r, x) \in Tasks
  BY DEF RateTask, Tasks
<1>2. crashed' \subseteq Tasks
  BY <1>1 DEF TypeOK, RateRaises
<1>3. QED BY <1>2, RaisesTouchNothing DEF Untouched, TypeOK

\* The exception changes no row and leaves every task where it stands.
LEMMA RaisesKeepFullInv ==
  ASSUME FullInv, NEW r \in Runs, NEW x \in Signals, RateRaises(r, x)
  PROVE  FullInv'
<1>1. IInv /\ TypeOK'
  BY RaisesKeepTypes DEF FullInv, IInv
<1>2. ASSUME NEW q \in Runs PROVE RunInv(q)' /\ EndInv(q)'
  <2>1. SameRun(q) /\ rating_model' = rating_model
    BY RaisesTouchNothing, UntouchedIsSame
  <2>2. signals \subseteq signals' /\ rollup' \in {rollup, signals}
    BY RaisesTouchNothing
  <2>3. RunInv(q) /\ EndInv(q)
    BY <1>1, IInvByRun DEF FullInv
  <2>4. QED BY <2>1, <2>2, <2>3, OthersKeep, OthersOwe
<1>3. IInv'
  BY <1>1, <1>2, IInvByRunNext
<1>4. QED BY <1>2, <1>3 DEF FullInv

LEMMA UncaughtStep == FullInv /\ [UncaughtNext]_pipelineVars => FullInv'
  BY FullInvStep, RaisesKeepFullInv DEF UncaughtNext

LEMMA UncaughtInvariance == UncaughtSpec => []FullInv
<1>1. UncaughtSpec => Init /\ [][UncaughtNext]_pipelineVars
  BY PTL DEF UncaughtSpec, UncaughtNext
<1>2. QED BY <1>1, InitFullInv, UncaughtStep, PTL

\* Whatever a model call raises, the rows stay consistent: the ledger balances, no run
\* waits in `rating` for nothing, a completed run has handled every signal, and the
\* rollup and the scrape barrier are as they were.  Only convergence is at stake.
THEOREM UncaughtKeepsTheRows ==
  UncaughtSpec => [](/\ LedgerBalances /\ NoStrandedRun /\ CompletedMeansHandled
                     /\ FanInIsABarrier /\ RollupCoversRun)
<1>1. IInv => FanInIsABarrier
  BY BarrierStates
<1>2. FullInv => /\ LedgerBalances /\ NoStrandedRun /\ CompletedMeansHandled
                 /\ FanInIsABarrier /\ RollupCoversRun
  BY <1>1, CompletedStates
  DEF FullInv, IInv, StatusFits, RollupFits, NoStrandedRun, RollupCoversRun
<1>3. QED BY <1>2, UncaughtInvariance, PTL

\* An exception that leaves rate_signal is a stutter of the run's lifecycle.
LEMMA RaisesMoveNothing ==
  ASSUME NEW r \in Runs, NEW x \in Signals, RateRaises(r, x)
  PROVE  UNCHANGED Lifecycle!lifecycleVars
<1>1. \A q \in Runs : runs'[q].status = runs[q].status /\ Unhandled(q)' = Unhandled(q)
  BY RaisesTouchNothing, UntouchedIsSame, OthersStand
<1>2. AbstractStatus' = AbstractStatus /\ AbstractTodo' = AbstractTodo
  BY <1>1 DEF AbstractStatus, AbstractTodo
<1>3. QED BY <1>2 DEF AbstractStatus, AbstractTodo, Unhandled, Lifecycle!lifecycleVars

\* With the exceptions of the model call, too, a run goes through its lifecycle only
\* (what the lifecycle does not promise is that the run ever leaves `rating`).
THEOREM UncaughtKeepsTheLifecycle == UncaughtSpec => LifecycleSpec
<1>1. FullInv /\ [UncaughtNext]_pipelineVars
         => [Lifecycle!LifecycleNext]_(Lifecycle!lifecycleVars)
  BY StepsAreMoves, RaisesMoveNothing DEF UncaughtNext
<1>2. UncaughtSpec => Init /\ [][UncaughtNext]_pipelineVars
  BY PTL DEF UncaughtSpec, UncaughtNext
<1>3. QED BY <1>1, <1>2, InitLifecycle, UncaughtInvariance, PTL
          DEF LifecycleSpec, Lifecycle!Spec

\* The rating task of x is gone, and had not announced x to run r.
Lost(r, x) == rate[r][x] \in {"called", "ended"} /\ RateTask(r, x) \in crashed

NotCompleted(r) == runs[r].status # "completed"

LEMMA CrashedOnlyGrows == [UncaughtNext]_pipelineVars => crashed \subseteq crashed'
<1> SUFFICES ASSUME [UncaughtNext]_pipelineVars PROVE crashed \subseteq crashed'
  OBVIOUS
<1> USE DEF scrapeTasks, ratingTasks
<1>1. CASE Crash
  BY <1>1 DEF Crash
<1>2. ASSUME NEW r \in Runs, RunStep(r) PROVE crashed' = crashed
  BY <1>2 DEF RunStep, CreateRun, DispatchStep, SendDispatch, DispatchRun, StartChord,
              ScrapeStep, ScrapeStart, ScrapeReturns, ScrapeRaises, CountScrape,
              EnqueueRatings, PublishProgress, RefreshForRun, DecideRun, PublishFanIn,
              RateStep, AlreadyRated, CallModel, StoreRating, RetryRating, GiveUpRating,
              AnnounceRating, PublishRating
<1>3. CASE \/ \E i \in Influencers : CreateInfluencer(i)
           \/ \E x \in Signals : CreateSignal(x) \/ RateSwept(x)
           \/ SweepUnrated \/ RefreshRollup
  BY <1>3 DEF CreateInfluencer, CreateSignal, RateSwept, SweepUnrated, RefreshRollup
<1>4. CASE UNCHANGED pipelineVars
  BY <1>4 DEF pipelineVars
<1>5. QED
  BY <1>1, <1>2, <1>3, <1>4, RaisesTouchNothing
  DEF UncaughtNext, Next, WorkStep, PublishStep, RunStep

\* Nothing moves the task on: its own steps need its process, and the scrape task that
\* enqueued it has passed the statement that would.
LEMMA LostStep ==
  ASSUME FullInv, NEW r \in Runs, NEW x \in Signals, Lost(r, x),
         [UncaughtNext]_pipelineVars
  PROVE  Lost(r, x)'
<1> USE DEF scrapeTasks, ratingTasks
<1>1. TypeOK /\ Shape(r)
  BY DEF FullInv, IInv
<1>2. rate'[r][x] = rate[r][x]
  <2>1. CASE Untouched \/ UNCHANGED pipelineVars
    BY <2>1 DEF Untouched, pipelineVars
  <2>2. ASSUME NEW q \in Runs, RunStep(q), q # r PROVE rate'[r][x] = rate[r][x]
    BY <1>1, <2>2, OtherRunsStay DEF SameRun
  <2>3. ASSUME NEW i \in Influencers, EnqueueRatings(r, i) PROVE rate'[r][x] = rate[r][x]
    <3>1. scrape[r][Owner[x]] \in {"enqueued", "returned"} /\ scrape[r][i] = "counted"
      BY <1>1, <2>3 DEF Shape, Lost, EnqueueRatings
    <3>2. x \notin PostsOf(i)
      BY <3>1 DEF PostsOf
    <3>3. QED BY <1>1, <2>3, <3>2 DEF TypeOK, EnqueueRatings
  <2>4. ASSUME NEW y \in Signals, RateStep(r, y) \/ PublishRating(r, y)
        PROVE  rate'[r][x] = rate[r][x]
    <3>1. CASE y = x
      BY <2>4, <3>1 DEF Lost, RateStep, AlreadyRated, CallModel, StoreRating, RetryRating,
                        GiveUpRating, AnnounceRating, PublishRating
    <3>2. CASE y # x
      BY <1>1, <2>4, <3>2 DEF TypeOK, RateStep, AlreadyRated, CallModel, StoreRating,
                              RetryRating, GiveUpRating, AnnounceRating, PublishRating
    <3>3. QED BY <3>1, <3>2
  <2>5. CASE \/ CreateRun(r) \/ DispatchStep(r) \/ RefreshForRun(r) \/ DecideRun(r)
             \/ PublishFanIn(r)
             \/ \E i \in Influencers : \/ ScrapeStart(r, i) \/ ScrapeReturns(r, i)
                                       \/ ScrapeRaises(r, i) \/ CountScrape(r, i)
                                       \/ PublishProgress(r, i)
    BY <2>5 DEF CreateRun, DispatchStep, SendDispatch, DispatchRun, StartChord,
                RefreshForRun, DecideRun, PublishFanIn, ScrapeStart, ScrapeReturns,
                ScrapeRaises, CountScrape, PublishProgress
  <2>6. ASSUME RunStep(r) PROVE rate'[r][x] = rate[r][x]
    BY <2>3, <2>4, <2>5, <2>6 DEF RunStep, ScrapeStep
  <2>7. QED
    BY <2>1, <2>2, <2>6, StepsAreOfOneRun, RaisesTouchNothing DEF UncaughtNext
<1>3. QED BY <1>2, CrashedOnlyGrows DEF Lost, RateTask

\* The run has accounted for x and not announced it.
LEMMA LostIsUnhandled ==
  ASSUME FullInv, NEW r \in Runs, NEW x \in Signals, Lost(r, x)
  PROVE  NotCompleted(r)
<1>1. RatingOn(r) /\ x \in Accounted(r) /\ x \notin Announced(r)
  BY OwnerAssumption DEF FullInv, IInv, Shape, Lost, Accounted, Announced, Counted
<1>2. QED BY <1>1, CompletedStates DEF FullInv, CompletedMeansHandled, NotCompleted

\* One rating task that dies before its announcement strands its run for good: no other
\* task, retry, sweep or process announces the signal in its place, so the run never
\* completes.  RatingConverges fails in every behaviour in which this happens to a run that
\* is in `rating` then or later, not only in the one TLC shows.
THEOREM ALostRatingStrandsItsRun ==
  ASSUME NEW r \in Runs, NEW x \in Signals
  PROVE  UncaughtSpec => [](Lost(r, x) => []NotCompleted(r))
<1>1. UncaughtSpec => Init /\ [][UncaughtNext]_pipelineVars
  BY PTL DEF UncaughtSpec, UncaughtNext
<1>2. FullInv /\ Lost(r, x) /\ [UncaughtNext]_pipelineVars => Lost(r, x)'
  BY LostStep
<1>3. FullInv /\ Lost(r, x) => NotCompleted(r)
  BY LostIsUnhandled
<1>4. QED BY <1>1, <1>2, <1>3, UncaughtInvariance, PTL
=============================================================================
