------------------------- MODULE ScrapeWriteProofs -------------------------
(***************************************************************************)
(* Proofs about ScrapeWrite, for any number of runs and posts, any limit   *)
(* and any months without a partition.                                     *)
(***************************************************************************)
EXTENDS ScrapeWrite, FiniteSetTheorems, TLAPS

-----------------------------------------------------------------------------
(* The inductive invariant *)

TypeInv ==
    /\ now \in 1 .. MaxTime
    /\ feed \subseteq {"instagram"} \X (1 .. now)
    /\ watermark \in 0 .. now
    /\ raw_signals \subseteq Rows
    /\ pc \in [Runs -> Stages]
    /\ mode \in [Runs -> {"live", "demo"}]
    /\ run_ts \in [Runs -> 0 .. now]
    /\ last_scraped_at \in [Runs -> 0 .. now]
    /\ posts \in [Runs -> SUBSET Posts]
    /\ todo \in [Runs -> SUBSET Posts]
    /\ pending \in [Runs -> SUBSET Posts]
    /\ new_items \in [Runs -> SUBSET Posts]
    /\ omitted \in [Runs -> SUBSET Real]

\* What each task holds.
TaskInv ==
    \A r \in Runs :
       /\ Cardinality(posts[r]) <= Limit
       /\ todo[r] \subseteq posts[r]
       /\ mode[r] = "live" => posts[r] \subseteq feed
       /\ pending[r] \subseteq posts[r]
       /\ pending[r] # {} => pc[r] = "inserting" /\ mode[r] = "live"
       /\ pc[r] = "committed" => mode[r] = "live"

\* What may be said of a post that is behind a watermark.
Settled == Stored \cup Uncovered \cup LeftOut \cup Lost

\* Every post up to an instant is settled.
Covered(t) == \A p \in feed : p[2] <= t => p \in Settled

\* The rows that run r reports and its rollback may have taken.
MayLose(r) == IF posts[r] \cap Uncovered # {} THEN new_items[r] ELSE {}

\* Where each task that will move the watermark is with what it is to cover.
MarkOf(r) ==
    /\ pc[r] = "dispatched" => Covered(last_scraped_at[r])
    /\ pc[r] = "inserting" /\ mode[r] = "live" =>
          \A p \in feed : p[2] <= run_ts[r] =>
             p \in Settled \cup omitted[r] \cup MayLose(r) \cup pending[r] \cup todo[r]
    /\ pc[r] = "committed" =>
          \A p \in feed : p[2] <= run_ts[r] => p \in Settled \cup omitted[r] \cup MayLose(r)

WatermarkInv == Covered(watermark) /\ \A r \in Runs : MarkOf(r)

\* A call's rows against what it will report: before its commit a live one has none.
AccountOf(r) ==
    /\ pc[r] \in {"idle", "dispatched"} => RowsOf(r) = {} /\ new_items[r] = {}
    /\ pc[r] = "inserting" /\ mode[r] = "live" =>
          /\ RowsOf(r) = {}
          /\ pending[r] \subseteq new_items[r]
          /\ posts[r] \cap Uncovered = {} => new_items[r] \subseteq pending[r]
    /\ pc[r] = "inserting" /\ mode[r] = "demo" => new_items[r] = RowsOf(r)
    /\ pc[r] \in {"committed", "returned"} =>
          /\ RowsOf(r) \subseteq new_items[r]
          /\ posts[r] \cap Uncovered = {} => new_items[r] \subseteq RowsOf(r)
    /\ pc[r] = "failed" /\ mode[r] = "live" => RowsOf(r) = {}

IInv == TypeInv /\ TaskInv /\ WatermarkInv /\ \A r \in Runs : AccountOf(r)

-----------------------------------------------------------------------------
(* Sets of posts *)

\* The posts of one source up to place n are n at most.
LEMMA FewPosts ==
    ASSUME NEW x, NEW n \in Nat, NEW S, S \subseteq {x} \X (1 .. n)
    PROVE  IsFiniteSet(S) /\ Cardinality(S) <= n
<1> DEFINE f == [p \in S |-> p[2]]
<1>1. f \in Injection(S, 1 .. n)
    BY DEF Injection, IsInjective
<1>2. IsFiniteSet(1 .. n) /\ Cardinality(1 .. n) = n
    BY FS_Interval
<1> QED
    BY <1>1, <1>2, FS_Injection

\* Rows that a caller adds to the table.
LEMMA RowsAdded ==
    ASSUME NEW b, NEW X, raw_signals' = raw_signals \cup {[post |-> p, by |-> b] : p \in X}
    PROVE  /\ Stored' = Stored \cup X
           /\ \A r : RowsOf(r)' = RowsOf(r) \cup (IF r = b THEN X ELSE {})
<1> DEFINE added == {[post |-> p, by |-> b] : p \in X}
<1>1. \A row \in added : row.post \in X /\ row.by = b
    OBVIOUS
<1>2. \A p \in X : [post |-> p, by |-> b] \in added
    OBVIOUS
<1>3. raw_signals' = raw_signals \cup added
    OBVIOUS
<1>4. \A p \in X : [post |-> p, by |-> b].post = p /\ [post |-> p, by |-> b].by = b
    OBVIOUS
<1> HIDE DEF added
<1>5. \A p : p \in Stored' <=> p \in Stored \/ p \in X
    BY <1>1, <1>2, <1>3, <1>4 DEF Stored
<1>6. \A r, p : p \in RowsOf(r)' <=> p \in RowsOf(r) \/ (r = b /\ p \in X)
    BY <1>1, <1>2, <1>3, <1>4 DEF RowsOf
<1> QED
    BY <1>5, <1>6

-----------------------------------------------------------------------------
(* What a step keeps *)

USE DEF scrapeVars, world, request

\* A step does nothing to what run q's task holds.
Unmoved(q) ==
    /\ pc'[q] = pc[q] /\ mode'[q] = mode[q] /\ run_ts'[q] = run_ts[q]
    /\ last_scraped_at'[q] = last_scraped_at[q] /\ posts'[q] = posts[q] /\ todo'[q] = todo[q]
    /\ pending'[q] = pending[q] /\ new_items'[q] = new_items[q] /\ omitted'[q] = omitted[q]

\* A call that has returned stays as it is and no row leaves the table, so that what is
\* settled stays so.
LEMMA SettledStays ==
    ASSUME Stored \subseteq Stored', \A q \in Runs : pc[q] = "returned" => Unmoved(q)
    PROVE  Settled \subseteq Settled'
<1>1. LeftOut \subseteq LeftOut'
    <2> SUFFICES ASSUME NEW p \in LeftOut PROVE p \in LeftOut'
        OBVIOUS
    <2>1. PICK q \in Runs : pc[q] = "returned" /\ p \in omitted[q]
        BY DEF LeftOut
    <2>2. pc'[q] = "returned" /\ p \in omitted'[q]
        BY <2>1 DEF Unmoved
    <2> QED
        BY <2>2 DEF LeftOut
<1>2. Lost \subseteq Lost'
    <2> SUFFICES ASSUME NEW p \in Lost PROVE p \in Lost'
        OBVIOUS
    <2>1. PICK q \in Runs : /\ pc[q] = "returned" /\ mode[q] = "live"
                            /\ posts[q] \cap Uncovered # {} /\ p \in new_items[q]
        BY DEF Lost
    <2>2. /\ pc'[q] = "returned" /\ mode'[q] = "live"
          /\ posts'[q] \cap Uncovered # {} /\ p \in new_items'[q]
        BY <2>1 DEF Unmoved
    <2> QED
        BY <2>2 DEF Lost
<1> QED
    BY <1>1, <1>2 DEF Settled

\* What a step of run r's task leaves as it was.
LEMMA OthersKeepTheirMark ==
    ASSUME WatermarkInv, NEW r \in Runs, pc[r] # "returned",
           \A q \in Runs \ {r} : Unmoved(q), feed' = feed, Stored \subseteq Stored'
    PROVE  /\ Settled \subseteq Settled'
           /\ \A t : Covered(t) => Covered(t)'
           /\ \A q \in Runs \ {r} : MarkOf(q)'
<1>1. Settled \subseteq Settled'
    BY SettledStays
<1>2. \A t : Covered(t) => Covered(t)'
    BY <1>1 DEF Covered
<1>3. ASSUME NEW q \in Runs \ {r} PROVE MarkOf(q)'
    <2>1. MarkOf(q) /\ Unmoved(q)
        BY DEF WatermarkInv
    <2>2. MayLose(q)' = MayLose(q)
        BY <2>1 DEF MayLose, Unmoved
    <2> QED
        BY <1>1, <2>1, <2>2 DEF MarkOf, Covered, Unmoved
<1> QED
    BY <1>1, <1>2, <1>3

\* Run q's account, when a step adds rows of another caller only.
LEMMA OthersKeepTheirAccount ==
    ASSUME NEW q \in Runs, AccountOf(q), RowsOf(q)' = RowsOf(q), Unmoved(q)
    PROVE  AccountOf(q)'
BY DEF AccountOf, Unmoved

LEMMA NoNewRows ==
    ASSUME UNCHANGED raw_signals
    PROVE  Stored' = Stored /\ \A r : RowsOf(r)' = RowsOf(r)
BY DEF Stored, RowsOf

LEMMA InitIInv == ScrapeInit => IInv
<1> SUFFICES ASSUME ScrapeInit PROVE IInv
    OBVIOUS
<1>1. TypeInv
    BY ScrapeAssumption DEF ScrapeInit, TypeInv, Stages
<1>2. TaskInv
    BY ScrapeAssumption, FS_EmptySet DEF ScrapeInit, TaskInv
<1>3. WatermarkInv
    BY <1>1 DEF ScrapeInit, TypeInv, WatermarkInv, MarkOf, Covered
<1>4. \A r \in Runs : RowsOf(r) = {}
    BY DEF ScrapeInit, RowsOf
<1>5. \A r \in Runs : AccountOf(r)
    BY <1>4 DEF ScrapeInit, AccountOf
<1> QED
    BY <1>1, <1>2, <1>3, <1>5 DEF IInv

-----------------------------------------------------------------------------
(* Steps of the world *)

\* What is posted now is ahead of every watermark and of every run.
LEMMA TickStep ==
    ASSUME IInv, Tick
    PROVE  IInv'
<1>1. /\ now \in Nat /\ now' = now + 1 /\ feed \subseteq feed'
      /\ \A p \in feed' : p \in feed \/ p[2] = now + 1
    BY ScrapeAssumption DEF IInv, TypeInv, Tick
<1>2. TypeInv'
    <2>1. 0 .. now \subseteq 0 .. now' /\ 1 .. now \subseteq 1 .. now' /\ now + 1 \in 1 .. now'
        BY <1>1
    <2>2. feed' \subseteq {"instagram"} \X (1 .. now')
        BY <2>1 DEF IInv, TypeInv, Tick
    <2>3. now' \in 0 .. MaxTime
        BY <1>1, ScrapeAssumption DEF IInv, TypeInv, Tick
    <2>4. run_ts' \in [Runs -> 0 .. now'] /\ last_scraped_at' \in [Runs -> 0 .. now']
        BY <2>1 DEF IInv, TypeInv, Tick
    <2> QED
        BY <1>1, <2>1, <2>2, <2>3, <2>4 DEF IInv, TypeInv, Tick
<1>3. TaskInv'
    BY <1>1 DEF IInv, TaskInv, Tick
<1>4. \A r \in Runs : Unmoved(r)
    BY DEF Tick, Unmoved
<1>5. Settled \subseteq Settled'
    BY <1>4, NoNewRows, SettledStays DEF Tick
<1>6. ASSUME NEW t \in 0 .. now, NEW p \in feed', p[2] <= t PROVE p \in feed
    BY <1>1, <1>6
<1>7. WatermarkInv'
    <2>1. /\ watermark \in 0 .. now
          /\ \A r \in Runs : run_ts[r] \in 0 .. now /\ last_scraped_at[r] \in 0 .. now
        BY DEF IInv, TypeInv
    <2>2. ASSUME NEW t \in 0 .. now, Covered(t) PROVE Covered(t)'
        BY <1>5, <1>6, <2>2 DEF Covered
    <2>3. Covered(watermark)'
        BY <2>1, <2>2 DEF IInv, WatermarkInv, Tick
    <2>4. ASSUME NEW r \in Runs PROVE MarkOf(r)'
        <3>1. MarkOf(r) /\ MayLose(r)' = MayLose(r)
            BY DEF IInv, WatermarkInv, MayLose, Tick
        <3>2. pc[r] = "dispatched" => Covered(last_scraped_at[r])'
            BY <2>1, <2>2, <3>1 DEF MarkOf, Tick
        <3> QED
            BY <1>5, <1>6, <2>1, <3>1, <3>2 DEF MarkOf, Tick
    <2> QED
        BY <2>3, <2>4 DEF WatermarkInv
<1>8. \A r \in Runs : AccountOf(r)'
    BY <1>4, NoNewRows, OthersKeepTheirAccount DEF IInv, Tick
<1> QED
    BY <1>2, <1>3, <1>7, <1>8 DEF IInv

LEMMA CreateSignalStep ==
    ASSUME IInv, NEW p \in Real, CreateSignal(p)
    PROVE  IInv'
<1>1. raw_signals' = raw_signals \cup {[post |-> x, by |-> "api"] : x \in {p}}
    BY DEF CreateSignal
<1>2. /\ Stored' = Stored \cup {p}
      /\ \A r \in Runs : RowsOf(r)' = RowsOf(r)
    <2> DEFINE one == {p}
    <2>1. raw_signals' = raw_signals \cup {[post |-> x, by |-> "api"] : x \in one}
        BY <1>1
    <2> HIDE DEF one
    <2>2. /\ Stored' = Stored \cup one
          /\ \A r : RowsOf(r)' = RowsOf(r) \cup (IF r = "api" THEN one ELSE {})
        BY <2>1, RowsAdded
    <2>3. \A r \in Runs : r # "api"
        BY ScrapeAssumption
    <2> QED
        BY <2>2, <2>3 DEF one
<1>3. TypeInv' /\ TaskInv'
    BY DEF IInv, TypeInv, TaskInv, CreateSignal, Rows, Posts
<1>4. WatermarkInv'
    <2>1. \A r \in Runs : Unmoved(r)
        BY DEF CreateSignal, Unmoved
    <2>2. Settled \subseteq Settled'
        BY <1>2, <2>1, SettledStays
    <2>3. \A r \in Runs : MayLose(r)' = MayLose(r)
        BY DEF MayLose, CreateSignal
    <2> QED
        BY <2>2, <2>3 DEF IInv, WatermarkInv, MarkOf, Covered, CreateSignal
<1>5. \A r \in Runs : AccountOf(r)'
    BY <1>2, OthersKeepTheirAccount DEF IInv, CreateSignal, Unmoved
<1> QED
    BY <1>3, <1>4, <1>5 DEF IInv

-----------------------------------------------------------------------------
(* Steps of a task *)

LEMMA DispatchStep ==
    ASSUME IInv, NEW r \in Runs, Dispatch(r)
    PROVE  IInv'
<1>1. TypeInv'
    BY DEF IInv, TypeInv, Dispatch, Stages
<1>2. TaskInv'
    BY DEF IInv, TypeInv, TaskInv, Dispatch
<1>3. Stored' = Stored /\ \A q : RowsOf(q)' = RowsOf(q)
    BY NoNewRows DEF Dispatch
<1>4. /\ pc[r] = "idle" /\ pc'[r] = "dispatched" /\ last_scraped_at'[r] = watermark
      /\ \A q \in Runs \ {r} : Unmoved(q)
    BY DEF IInv, TypeInv, Dispatch, Unmoved
<1>5. WatermarkInv'
    <2>1. /\ \A t : Covered(t) => Covered(t)'
          /\ \A q \in Runs \ {r} : MarkOf(q)'
        BY <1>3, <1>4, OthersKeepTheirMark DEF IInv, Dispatch
    <2>2. Covered(watermark)'
        BY <2>1 DEF IInv, WatermarkInv, Covered, Dispatch
    <2>3. MarkOf(r)'
        BY <1>4, <2>2 DEF MarkOf, Covered, Dispatch
    <2> QED
        BY <2>1, <2>2, <2>3 DEF WatermarkInv
<1>6. \A q \in Runs : AccountOf(q)'
    <2>1. AccountOf(r)'
        BY <1>3, <1>4 DEF IInv, AccountOf, Dispatch
    <2> QED
        BY <1>3, <1>4, <2>1, OthersKeepTheirAccount DEF IInv
<1> QED
    BY <1>1, <1>2, <1>5, <1>6 DEF IInv

\* What was posted since the watermark that the request carries is returned or left out.
LEMMA FetchStep ==
    ASSUME IInv, NEW r \in Runs, Fetch(r)
    PROVE  IInv'
<1> DEFINE wm == last_scraped_at[r]
<1>1. wm \in 0 .. now /\ now \in Nat /\ Limit \in Nat \ {0}
    BY ScrapeAssumption DEF IInv, TypeInv
<1>2. PICK found \in Asked(wm) :
         /\ posts' = [posts EXCEPT ![r] = found] /\ todo' = [todo EXCEPT ![r] = found]
         /\ omitted' = [omitted EXCEPT ![r] = Since(wm) \ found]
    BY DEF Fetch
<1>3. found \subseteq feed /\ Cardinality(found) <= Limit
    <2>1. found \subseteq feed /\ (Cardinality(found) <= 1 \/ Cardinality(found) <= Limit)
        BY DEF Asked, UpTo, Since
    <2>2. IsFiniteSet(found) /\ Cardinality(found) \in Nat
        BY <1>1, <2>1, FewPosts, FS_CardinalityType DEF IInv, TypeInv
    <2> QED
        BY <1>1, <2>1, <2>2
<1>4. found \subseteq Posts /\ Since(wm) \subseteq Real
    BY <1>1, <1>3, ScrapeAssumption DEF IInv, TypeInv, Posts, Real, Since
<1>5. /\ pc' = [pc EXCEPT ![r] = "inserting"]
      /\ UNCHANGED <<world, watermark, raw_signals, request, pending, new_items>>
      /\ mode[r] = "live" /\ pc[r] = "dispatched"
    BY DEF Fetch
<1>6. TypeInv'
    <2>1. omitted' \in [Runs -> SUBSET Real]
        BY <1>2, <1>4 DEF IInv, TypeInv
    <2> QED
        BY <1>2, <1>4, <1>5, <2>1 DEF IInv, TypeInv, Stages
<1>7. /\ pc'[r] = "inserting" /\ posts'[r] = found /\ todo'[r] = found
      /\ omitted'[r] = Since(wm) \ found /\ pending[r] = {}
      /\ \A q \in Runs \ {r} : Unmoved(q)
    BY <1>2, <1>5 DEF IInv, TypeInv, TaskInv, Unmoved
<1>8. TaskInv'
    BY <1>3, <1>5, <1>7 DEF IInv, TaskInv, Unmoved
<1>9. Stored' = Stored /\ \A q : RowsOf(q)' = RowsOf(q)
    BY <1>5, NoNewRows
<1>10. WatermarkInv'
    <2>1. /\ \A t : Covered(t) => Covered(t)'
          /\ \A q \in Runs \ {r} : MarkOf(q)'
        BY <1>5, <1>7, <1>9, OthersKeepTheirMark DEF IInv
    <2>2. Covered(watermark)'
        BY <1>5, <2>1 DEF IInv, WatermarkInv, Covered
    <2>3. ASSUME NEW p \in feed
          PROVE  p \in Settled' \cup omitted'[r] \cup todo'[r]
        <3>1. CASE p[2] <= wm
            BY <1>5, <2>1, <3>1 DEF IInv, WatermarkInv, MarkOf, Covered
        <3>2. CASE ~(p[2] <= wm)
            <4>1. p[2] > wm
                BY <1>1, <3>2 DEF IInv, TypeInv
            <4> QED
                BY <1>7, <4>1 DEF Since
        <3> QED
            BY <3>1, <3>2
    <2>4. MarkOf(r)'
        BY <1>5, <1>7, <2>3 DEF MarkOf
    <2> QED
        BY <2>1, <2>2, <2>4 DEF WatermarkInv
<1>11. \A q \in Runs : AccountOf(q)'
    <2>1. AccountOf(r)'
        BY <1>5, <1>7, <1>9 DEF IInv, AccountOf
    <2> QED
        BY <1>7, <1>9, <2>1, OthersKeepTheirAccount DEF IInv
<1> QED
    BY <1>6, <1>8, <1>10, <1>11 DEF IInv

LEMMA MakeUpStep ==
    ASSUME IInv, NEW r \in Runs, MakeUp(r)
    PROVE  IInv'
<1> DEFINE made == {r} \X (1 .. Limit)
<1>1. made \subseteq Posts /\ Cardinality(made) <= Limit
    BY FewPosts, ScrapeAssumption DEF Posts, Synthetic
<1> HIDE DEF made
<1>2. /\ posts' = [posts EXCEPT ![r] = made] /\ todo' = [todo EXCEPT ![r] = made]
      /\ pc' = [pc EXCEPT ![r] = "inserting"]
      /\ UNCHANGED <<world, watermark, raw_signals, request, pending, new_items, omitted>>
      /\ mode[r] = "demo" /\ pc[r] = "dispatched"
    BY DEF MakeUp, made
<1>3. TypeInv'
    BY <1>1, <1>2 DEF IInv, TypeInv, Stages
<1>4. /\ pc'[r] = "inserting" /\ posts'[r] = made /\ todo'[r] = made
      /\ pending[r] = {}
      /\ \A q \in Runs \ {r} : Unmoved(q)
    BY <1>2 DEF IInv, TypeInv, TaskInv, Unmoved
<1>5. TaskInv'
    BY <1>1, <1>2, <1>4 DEF IInv, TaskInv, Unmoved
<1>6. Stored' = Stored /\ \A q : RowsOf(q)' = RowsOf(q)
    BY <1>2, NoNewRows
<1>7. WatermarkInv'
    <2>1. /\ Settled \subseteq Settled'
          /\ \A t : Covered(t) => Covered(t)'
          /\ \A q \in Runs \ {r} : MarkOf(q)'
        BY <1>2, <1>4, <1>6, OthersKeepTheirMark DEF IInv
    <2>2. Covered(watermark)'
        BY <1>2, <1>4, <1>6, <2>1 DEF IInv, WatermarkInv, Covered
    <2>3. MarkOf(r)'
        BY <1>2, <1>4 DEF MarkOf
    <2> QED
        BY <2>1, <2>2, <2>3 DEF WatermarkInv
<1>8. \A q \in Runs : AccountOf(q)'
    <2>1. AccountOf(r)'
        BY <1>2, <1>4, <1>6 DEF IInv, AccountOf
    <2> QED
        BY <1>2, <1>4, <1>6, <2>1, OthersKeepTheirAccount DEF IInv
<1> QED
    BY <1>3, <1>5, <1>7, <1>8 DEF IInv

LEMMA InsertLiveStep ==
    ASSUME IInv, NEW r \in Runs, NEW p \in Real, InsertLive(r, p)
    PROVE  IInv'
<1>1. p \in posts[r] /\ p \in Posts /\ mode[r] = "live" /\ pc[r] = "inserting"
    BY DEF IInv, TypeInv, TaskInv, InsertLive
<1>2. TypeInv'
    BY <1>1 DEF IInv, TypeInv, InsertLive
<1>3. /\ todo'[r] = todo[r] \ {p}
      /\ pending'[r] = IF p \in Stored THEN pending[r] ELSE pending[r] \cup {p}
      /\ new_items'[r] = IF p \in Stored THEN new_items[r] ELSE new_items[r] \cup {p}
      /\ \A q \in Runs \ {r} : Unmoved(q)
    BY DEF IInv, TypeInv, InsertLive, Inserted, Unmoved
<1>4. TaskInv'
    BY <1>1, <1>3 DEF IInv, TaskInv, InsertLive, Unmoved
<1>5. Stored' = Stored /\ \A q : RowsOf(q)' = RowsOf(q)
    BY NoNewRows DEF InsertLive
<1>6. WatermarkInv'
    <2>1. /\ Settled \subseteq Settled'
          /\ \A t : Covered(t) => Covered(t)'
          /\ \A q \in Runs \ {r} : MarkOf(q)'
        BY <1>1, <1>3, <1>5, OthersKeepTheirMark DEF IInv, InsertLive
    <2>2. Covered(watermark)'
        BY <1>1, <1>3, <1>5, <2>1 DEF IInv, WatermarkInv, Covered, InsertLive
    <2>3. MarkOf(r)'
        <3>1. MarkOf(r) /\ MayLose(r) \subseteq MayLose(r)'
            BY <1>3 DEF IInv, WatermarkInv, MayLose, InsertLive
        <3>2. p \in pending'[r] \/ p \in Stored
            BY <1>3
        <3>3. Stored \subseteq Settled
            BY DEF Settled
        <3> QED
            BY <1>1, <1>3, <2>1, <3>1, <3>2, <3>3 DEF MarkOf, InsertLive
    <2> QED
        BY <2>1, <2>2, <2>3 DEF WatermarkInv
<1>7. \A q \in Runs : AccountOf(q)'
    <2>1. AccountOf(r)'
        BY <1>1, <1>3, <1>5 DEF IInv, AccountOf, InsertLive
    <2> QED
        BY <1>3, <1>5, <2>1, OthersKeepTheirAccount DEF IInv, InsertLive
<1> QED
    BY <1>2, <1>4, <1>6, <1>7 DEF IInv

\* The rollback takes the rows inserted so far, which the call goes on to report.
LEMMA SkipLiveStep ==
    ASSUME IInv, NEW r \in Runs, NEW p \in Real, SkipLive(r, p)
    PROVE  IInv'
<1>1. /\ p \in posts[r] \cap Uncovered /\ mode[r] = "live" /\ pc[r] = "inserting"
      /\ pending[r] \subseteq new_items[r]
    BY DEF IInv, TypeInv, TaskInv, AccountOf, SkipLive
<1>2. TypeInv'
    BY <1>1 DEF IInv, TypeInv, SkipLive
<1>3. /\ todo'[r] = todo[r] \ {p} /\ pending'[r] = {}
      /\ \A q \in Runs \ {r} : Unmoved(q)
    BY DEF IInv, TypeInv, SkipLive, Unmoved
<1>4. TaskInv'
    BY <1>1, <1>3 DEF IInv, TaskInv, SkipLive, Unmoved
<1>5. Stored' = Stored /\ \A q : RowsOf(q)' = RowsOf(q)
    BY NoNewRows DEF SkipLive
<1>6. WatermarkInv'
    <2>1. /\ Settled \subseteq Settled'
          /\ \A t : Covered(t) => Covered(t)'
          /\ \A q \in Runs \ {r} : MarkOf(q)'
        BY <1>1, <1>3, <1>5, OthersKeepTheirMark DEF IInv, SkipLive
    <2>2. Covered(watermark)'
        BY <1>1, <1>3, <1>5, <2>1 DEF IInv, WatermarkInv, Covered, SkipLive
    <2>3. MarkOf(r)'
        <3>1. MarkOf(r)
            BY DEF IInv, WatermarkInv
        <3>2. pending[r] \subseteq MayLose(r)' /\ MayLose(r)' = MayLose(r)
            BY <1>1 DEF MayLose, SkipLive
        <3>3. p \in Settled
            BY <1>1 DEF Settled
        <3> QED
            BY <1>1, <1>3, <2>1, <3>1, <3>2, <3>3 DEF MarkOf, SkipLive
    <2> QED
        BY <2>1, <2>2, <2>3 DEF WatermarkInv
<1>7. \A q \in Runs : AccountOf(q)'
    <2>1. AccountOf(r)'
        BY <1>1, <1>3, <1>5 DEF IInv, AccountOf, SkipLive
    <2> QED
        BY <1>3, <1>5, <2>1, OthersKeepTheirAccount DEF IInv, SkipLive
<1> QED
    BY <1>2, <1>4, <1>6, <1>7 DEF IInv

\* Nothing is left to do, so that what the run was to cover is stored now.
LEMMA CommitLiveStep ==
    ASSUME IInv, NEW r \in Runs, CommitLive(r)
    PROVE  IInv'
<1> DEFINE rows == pending[r]
<1>1. raw_signals' = raw_signals \cup {[post |-> x, by |-> r] : x \in rows}
    BY DEF CommitLive
<1>2. rows \subseteq Posts /\ mode[r] = "live" /\ pc[r] = "inserting" /\ todo[r] = {}
    BY DEF IInv, TypeInv, CommitLive
<1>3. /\ pending' = [pending EXCEPT ![r] = {}] /\ pc' = [pc EXCEPT ![r] = "committed"]
      /\ UNCHANGED <<world, watermark, request, posts, todo, new_items, omitted>>
    BY DEF CommitLive
<1>4. /\ pending'[r] = {} /\ pc'[r] = "committed"
      /\ \A q \in Runs \ {r} : Unmoved(q)
    BY <1>3 DEF IInv, TypeInv, Unmoved
<1>5. \A x \in feed : x[2] <= run_ts[r] => x \in Settled \cup omitted[r] \cup MayLose(r) \cup rows
    BY <1>2 DEF IInv, WatermarkInv, MarkOf
<1>6. AccountOf(r)
    BY DEF IInv
<1>7. /\ RowsOf(r) = {} /\ rows \subseteq new_items[r]
      /\ posts[r] \cap Uncovered = {} => new_items[r] \subseteq rows
    BY <1>2, <1>6 DEF AccountOf
<1> HIDE DEF rows
<1>8. /\ Stored' = Stored \cup rows
      /\ \A q : RowsOf(q)' = RowsOf(q) \cup (IF q = r THEN rows ELSE {})
    BY <1>1, RowsAdded
<1>9. TypeInv'
    BY <1>1, <1>2, <1>3 DEF IInv, TypeInv, Stages, Rows
<1>10. TaskInv'
    BY <1>2, <1>3, <1>4 DEF IInv, TaskInv, Unmoved
<1>11. WatermarkInv'
    <2>1. /\ Settled \subseteq Settled'
          /\ \A t : Covered(t) => Covered(t)'
          /\ \A q \in Runs \ {r} : MarkOf(q)'
        BY <1>2, <1>3, <1>4, <1>8, OthersKeepTheirMark DEF IInv
    <2>2. Covered(watermark)'
        BY <1>2, <1>3, <1>4, <1>8, <2>1 DEF IInv, WatermarkInv, Covered
    <2>3. MarkOf(r)'
        <3>1. MayLose(r)' = MayLose(r)
            BY <1>3 DEF MayLose
        <3>2. rows \subseteq Settled'
            BY <1>8 DEF Settled
        <3> QED
            BY <1>3, <1>4, <1>5, <2>1, <3>1, <3>2 DEF MarkOf
    <2> QED
        BY <2>1, <2>2, <2>3 DEF WatermarkInv
<1>12. \A q \in Runs : AccountOf(q)'
    <2>1. RowsOf(r)' = rows
        BY <1>7, <1>8
    <2>2. AccountOf(r)'
        BY <1>3, <1>4, <1>7, <2>1 DEF AccountOf
    <2>3. \A q \in Runs \ {r} : RowsOf(q)' = RowsOf(q)
        BY <1>8
    <2> QED
        BY <1>3, <1>4, <2>2, <2>3, OthersKeepTheirAccount DEF IInv
<1> QED
    BY <1>9, <1>10, <1>11, <1>12 DEF IInv

LEMMA AdvanceWatermarkStep ==
    ASSUME IInv, NEW r \in Runs, AdvanceWatermark(r)
    PROVE  IInv'
<1>1. TypeInv' /\ TaskInv'
    BY DEF IInv, TypeInv, TaskInv, AdvanceWatermark, Stages
<1>2. /\ pc[r] = "committed" /\ pc'[r] = "returned" /\ mode[r] = "live"
      /\ \A q \in Runs \ {r} : Unmoved(q)
    BY DEF IInv, TypeInv, TaskInv, AdvanceWatermark, Unmoved
<1>3. Stored' = Stored /\ \A q : RowsOf(q)' = RowsOf(q)
    BY NoNewRows DEF AdvanceWatermark
<1>4. WatermarkInv'
    <2>1. /\ Settled \subseteq Settled'
          /\ \A t : Covered(t) => Covered(t)'
          /\ \A q \in Runs \ {r} : MarkOf(q)'
        BY <1>2, <1>3, OthersKeepTheirMark DEF IInv, AdvanceWatermark
    <2>2. Covered(watermark)'
        <3>1. omitted[r] \subseteq Settled'
            BY <1>2 DEF Settled, LeftOut, AdvanceWatermark
        <3>2. MayLose(r) \subseteq Settled'
            BY <1>2 DEF MayLose, Settled, Lost, AdvanceWatermark
        <3> QED
            BY <1>2, <2>1, <3>1, <3>2 DEF IInv, WatermarkInv, MarkOf, Covered, AdvanceWatermark
    <2>3. MarkOf(r)'
        BY <1>2 DEF MarkOf
    <2> QED
        BY <2>1, <2>2, <2>3 DEF WatermarkInv
<1>5. \A q \in Runs : AccountOf(q)'
    <2>1. AccountOf(r)'
        BY <1>2, <1>3 DEF IInv, AccountOf, AdvanceWatermark
    <2> QED
        BY <1>2, <1>3, <2>1, OthersKeepTheirAccount DEF IInv, AdvanceWatermark
<1> QED
    BY <1>1, <1>4, <1>5 DEF IInv

LEMMA InsertDemoStep ==
    ASSUME IInv, NEW r \in Runs, InsertDemo(r)
    PROVE  IInv'
<1>1. PICK n \in 1 .. Limit :
         /\ <<r, n>> \in todo[r] \ Uncovered
         /\ todo' = [todo EXCEPT ![r] = @ \ {<<r, n>>}]
         /\ raw_signals' = raw_signals \cup {[post |-> <<r, n>>, by |-> r]}
         /\ new_items' = [new_items EXCEPT ![r] = @ \cup {<<r, n>>}]
    BY DEF InsertDemo
<1> DEFINE one == {<<r, n>>}
<1>2. raw_signals' = raw_signals \cup {[post |-> x, by |-> r] : x \in one}
    BY <1>1
<1>3. one \subseteq Posts /\ mode[r] = "demo" /\ pc[r] = "inserting"
    BY <1>1 DEF IInv, TypeInv, InsertDemo
<1>4. /\ todo' = [todo EXCEPT ![r] = @ \ one] /\ new_items' = [new_items EXCEPT ![r] = @ \cup one]
      /\ UNCHANGED <<world, watermark, pc, request, posts, pending, omitted>>
    BY <1>1 DEF InsertDemo
<1> HIDE DEF one
<1>5. /\ todo'[r] = todo[r] \ one /\ new_items'[r] = new_items[r] \cup one
      /\ \A q \in Runs \ {r} : Unmoved(q)
    BY <1>4 DEF IInv, TypeInv, Unmoved
<1>6. /\ Stored' = Stored \cup one
      /\ \A q : RowsOf(q)' = RowsOf(q) \cup (IF q = r THEN one ELSE {})
    BY <1>2, RowsAdded
<1>7. TypeInv'
    BY <1>2, <1>3, <1>4 DEF IInv, TypeInv, Rows
<1>8. TaskInv'
    BY <1>4, <1>5 DEF IInv, TaskInv, Unmoved
<1>9. WatermarkInv'
    <2>1. /\ Settled \subseteq Settled'
          /\ \A t : Covered(t) => Covered(t)'
          /\ \A q \in Runs \ {r} : MarkOf(q)'
        BY <1>3, <1>4, <1>5, <1>6, OthersKeepTheirMark DEF IInv
    <2>2. Covered(watermark)'
        BY <1>3, <1>4, <1>5, <1>6, <2>1 DEF IInv, WatermarkInv, Covered
    <2>3. MarkOf(r)'
        BY <1>3, <1>4 DEF MarkOf
    <2> QED
        BY <2>1, <2>2, <2>3 DEF WatermarkInv
<1>10. \A q \in Runs : AccountOf(q)'
    <2>1. RowsOf(r)' = RowsOf(r) \cup one /\ \A q \in Runs \ {r} : RowsOf(q)' = RowsOf(q)
        BY <1>6
    <2>2. AccountOf(r)'
        BY <1>3, <1>4, <1>5, <2>1 DEF IInv, AccountOf
    <2> QED
        BY <1>4, <1>5, <2>1, <2>2, OthersKeepTheirAccount DEF IInv
<1> QED
    BY <1>7, <1>8, <1>9, <1>10 DEF IInv

LEMMA ReturnDemoStep ==
    ASSUME IInv, NEW r \in Runs, ReturnDemo(r)
    PROVE  IInv'
<1>1. TypeInv' /\ TaskInv'
    BY DEF IInv, TypeInv, TaskInv, ReturnDemo, Stages
<1>2. /\ pc[r] = "inserting" /\ pc'[r] = "returned" /\ mode[r] = "demo"
      /\ \A q \in Runs \ {r} : Unmoved(q)
    BY DEF IInv, TypeInv, ReturnDemo, Unmoved
<1>3. Stored' = Stored /\ \A q : RowsOf(q)' = RowsOf(q)
    BY NoNewRows DEF ReturnDemo
<1>4. WatermarkInv'
    <2>1. /\ Settled \subseteq Settled'
          /\ \A t : Covered(t) => Covered(t)'
          /\ \A q \in Runs \ {r} : MarkOf(q)'
        BY <1>2, <1>3, OthersKeepTheirMark DEF IInv, ReturnDemo
    <2>2. Covered(watermark)'
        BY <1>2, <1>3, <2>1 DEF IInv, WatermarkInv, Covered, ReturnDemo
    <2>3. MarkOf(r)'
        BY <1>2 DEF MarkOf
    <2> QED
        BY <2>1, <2>2, <2>3 DEF WatermarkInv
<1>5. \A q \in Runs : AccountOf(q)'
    <2>1. AccountOf(r)'
        BY <1>2, <1>3 DEF IInv, AccountOf, ReturnDemo
    <2> QED
        BY <1>2, <1>3, <2>1, OthersKeepTheirAccount DEF IInv, ReturnDemo
<1> QED
    BY <1>1, <1>4, <1>5 DEF IInv

LEMMA ScrapeFailsStep ==
    ASSUME IInv, NEW r \in Runs, ScrapeFails(r)
    PROVE  IInv'
<1>1. TypeInv' /\ TaskInv'
    BY DEF IInv, TypeInv, TaskInv, ScrapeFails, Stages
<1>2. /\ pc[r] \in {"dispatched", "inserting", "committed"}
      /\ pc'[r] = IF pc[r] = "committed" THEN "failed_late" ELSE "failed"
      /\ \A q \in Runs \ {r} : Unmoved(q)
    BY DEF IInv, TypeInv, ScrapeFails, Unmoved
<1>3. Stored' = Stored /\ \A q : RowsOf(q)' = RowsOf(q)
    BY NoNewRows DEF ScrapeFails
<1>4. WatermarkInv'
    <2>1. /\ Settled \subseteq Settled'
          /\ \A t : Covered(t) => Covered(t)'
          /\ \A q \in Runs \ {r} : MarkOf(q)'
        BY <1>2, <1>3, OthersKeepTheirMark DEF IInv, ScrapeFails
    <2>2. Covered(watermark)'
        BY <1>2, <1>3, <2>1 DEF IInv, WatermarkInv, Covered, ScrapeFails
    <2>3. MarkOf(r)'
        BY <1>2 DEF MarkOf
    <2> QED
        BY <2>1, <2>2, <2>3 DEF WatermarkInv
<1>5. \A q \in Runs : AccountOf(q)'
    <2>1. AccountOf(r)'
        BY <1>2, <1>3 DEF IInv, AccountOf, ScrapeFails
    <2> QED
        BY <1>2, <1>3, <2>1, OthersKeepTheirAccount DEF IInv, ScrapeFails
<1> QED
    BY <1>1, <1>4, <1>5 DEF IInv

-----------------------------------------------------------------------------
(* The theorems *)

LEMMA NextStep == IInv /\ [ScrapeNext]_scrapeVars => IInv'
<1> SUFFICES ASSUME IInv, [ScrapeNext]_scrapeVars PROVE IInv'
    OBVIOUS
<1>1. CASE Tick
    BY <1>1, TickStep
<1>2. ASSUME NEW p \in Real, CreateSignal(p) PROVE IInv'
    BY <1>2, CreateSignalStep
<1>3. ASSUME NEW r \in Runs, Dispatch(r) \/ Fetch(r) \/ MakeUp(r) PROVE IInv'
    BY <1>3, DispatchStep, FetchStep, MakeUpStep
<1>4. ASSUME NEW r \in Runs, NEW p \in Real, InsertLive(r, p) \/ SkipLive(r, p) PROVE IInv'
    BY <1>4, InsertLiveStep, SkipLiveStep
<1>5. ASSUME NEW r \in Runs,
             \/ CommitLive(r) \/ AdvanceWatermark(r)
             \/ InsertDemo(r) \/ ReturnDemo(r) \/ ScrapeFails(r)
      PROVE  IInv'
    BY <1>5, CommitLiveStep, AdvanceWatermarkStep, InsertDemoStep, ReturnDemoStep, ScrapeFailsStep
<1>6. CASE UNCHANGED scrapeVars
    <2>1. TypeInv' /\ TaskInv'
        BY <1>6 DEF IInv, TypeInv, TaskInv
    <2>2. Stored' = Stored /\ (\A r : RowsOf(r)' = RowsOf(r)) /\ \A r \in Runs : Unmoved(r)
        BY <1>6, NoNewRows DEF Unmoved
    <2>3. Settled \subseteq Settled'
        BY <2>2, SettledStays
    <2>4. WatermarkInv'
        <3>1. \A r \in Runs : MayLose(r)' = MayLose(r)
            BY <1>6 DEF MayLose
        <3> QED
            BY <1>6, <2>3, <3>1 DEF IInv, WatermarkInv, MarkOf, Covered
    <2>5. \A r \in Runs : AccountOf(r)'
        BY <2>2, OthersKeepTheirAccount DEF IInv
    <2> QED
        BY <2>1, <2>4, <2>5 DEF IInv
<1> QED
    BY <1>1, <1>2, <1>3, <1>4, <1>5, <1>6 DEF ScrapeNext

LEMMA InvariantHolds == ScrapeSpec => []IInv
BY InitIInv, NextStep, PTL DEF ScrapeSpec

\* The types of the state, and that a request to Apify never brings back more than it asked for.
THEOREM ScrapeTypeCorrect == ScrapeSpec => []ScrapeTypeOK
<1>1. IInv => ScrapeTypeOK
    BY DEF IInv, TypeInv, TaskInv, ScrapeTypeOK
<1> QED
    BY <1>1, InvariantHolds, PTL

\* However many scrapes of one creator overlap, and whichever of them moves the watermark last,
\* a post behind it that is not stored has no partition, was left out by the request of a
\* scrape that moved the watermark, or was lost in the rollback of such a scrape.
THEOREM NothingBehindTheWatermark == ScrapeSpec => []WatermarkCoversFeed
<1>1. IInv => WatermarkCoversFeed
    BY DEF IInv, WatermarkInv, Covered, Settled, WatermarkCoversFeed
<1> QED
    BY <1>1, InvariantHolds, PTL

\* Where every month has its partition there is no such rollback, and then a post behind the
\* watermark is stored or was left out by resultsLimit: no overlap of scrapes loses one.
THEOREM WithPartitionsNothingIsLost ==
    ASSUME Real \cap Uncovered = {}
    PROVE  ScrapeSpec => [](\A p \in feed : p[2] <= watermark => p \in Stored \cup LeftOut)
<1>1. IInv => \A p \in feed : p[2] <= watermark => p \in Stored \cup LeftOut
    <2> SUFFICES ASSUME IInv PROVE \A p \in feed : p[2] <= watermark => p \in Stored \cup LeftOut
        OBVIOUS
    <2>1. feed \subseteq Real
        BY ScrapeAssumption DEF IInv, TypeInv, Real
    <2>2. \A r \in Runs : mode[r] = "live" => posts[r] \cap Uncovered = {}
        BY <2>1 DEF IInv, TaskInv
    <2>3. Lost = {}
        BY <2>2 DEF Lost
    <2> QED
        BY <2>1, <2>3 DEF IInv, WatermarkInv, Covered, Settled
<1> QED
    BY <1>1, InvariantHolds, PTL

\* new_items of a scrape that returns holds each row that it committed, and when it met no post
\* without a partition, nothing else, however many others insert the same posts.
THEOREM EveryCallReportsItsRows == ScrapeSpec => []CallReportsItsRows
<1>1. IInv => CallReportsItsRows
    BY DEF IInv, AccountOf, CallReportsItsRows
<1> QED
    BY <1>1, InvariantHolds, PTL

\* The rollback of a live scrape that raises before its commit leaves no row of it behind.
THEOREM AFailureStoresNothing == ScrapeSpec => []FailureStoresNothing
<1>1. IInv => FailureStoresNothing
    BY DEF IInv, AccountOf, FailureStoresNothing
<1> QED
    BY <1>1, InvariantHolds, PTL
=============================================================================
