----------------------------- MODULE RunStream -----------------------------
(***************************************************************************)
(* GET /runs/{run_id}/stream, composed with the run pipeline it watches.   *)
(*                                                                         *)
(* A watcher subscribes to the run's channel, reads the row, and relays    *)
(* what is published from then on until a `done`.  Redis pub/sub keeps no  *)
(* history: a delta reaches those who are subscribed when it is published, *)
(* in that order, and nobody else.  The tasks commit first and publish     *)
(* afterwards, so a delta may be published long after the statement it     *)
(* tells of, and in another order.                                         *)
(*                                                                         *)
(* A delta is its type and the task that sent it; a snapshot is the        *)
(* status of the row and the tasks whose bumps its counters include.       *)
(***************************************************************************)
EXTENDS RunPipeline, Sequences

CONSTANTS
    Watchers,       \* the connections that may be open at once
    MaxConnects     \* how many times a stream is opened

ASSUME ConnectsAssumption == MaxConnects \in Nat

VARIABLES
    stream,         \* where each watcher's generator has come to
    watched,        \* the run it is about
    snapshot,       \* the tasks whose bumps its snapshot includes
    seen,           \* the status in its snapshot
    relayed,        \* the tasks whose deltas it has relayed
    inbox,          \* what Redis has delivered to its subscription
    connects        \* how many streams have been opened

streamVars == <<stream, watched, snapshot, seen, relayed, inbox, connects>>
allVars == <<pipelineVars, streamVars>>

StreamStates == {"off", "subscribed", "read", "relaying", "closed", "not_found"}
Open == {"subscribed", "read", "relaying"}
Deltas == [type: {"progress", "scrape_done", "rating", "done"}, task: Tasks]

StreamTypeOK ==
    /\ stream \in [Watchers -> StreamStates]
    /\ watched \in [Watchers -> Runs]
    /\ snapshot \in [Watchers -> SUBSET Tasks]
    /\ seen \in [Watchers -> Statuses]
    /\ relayed \in [Watchers -> SUBSET Tasks]
    /\ inbox \in [Watchers -> Seq(Deltas)]
    /\ connects \in 0 .. MaxConnects
    /\ \A c \in Watchers : inbox[c] # <<>> => stream[c] \in Open

StreamInit ==
    /\ Init
    /\ stream = [c \in Watchers |-> "off"]
    /\ watched \in [Watchers -> Runs]
    /\ snapshot = [c \in Watchers |-> {}]
    /\ seen = [c \in Watchers |-> "absent"]
    /\ relayed = [c \in Watchers |-> {}]
    /\ inbox = [c \in Watchers |-> <<>>]
    /\ connects = 0

-----------------------------------------------------------------------------
(* Publishing *)

\* Mutated Listening: the subscription is opened after the snapshot was read.
ListeningAfterSnapshot(c) == stream[c] = "relaying"

\* The watchers Redis delivers to: subscribed before the snapshot, and until the end.
Listening(c) == stream[c] \in Open

\* _publish(run_id, message)
Publish(r, type, task) ==
    /\ inbox' = [c \in Watchers |->
                    IF Listening(c) /\ watched[c] = r
                    THEN Append(inbox[c], [type |-> type, task |-> task])
                    ELSE inbox[c]]
    /\ UNCHANGED <<stream, watched, snapshot, seen, relayed, connects>>

PublishedStep ==
    \E r \in Runs :
       \/ \E i \in Influencers :
             PublishProgress(r, i) /\ Publish(r, "progress", ScrapeTask(r, i))
       \/ /\ PublishFanIn(r)
          /\ Publish(r, IF finalize[r] = "say_done" THEN "done" ELSE "scrape_done",
                     FinalizeTask(r))
       \/ \E x \in Signals :
             /\ PublishRating(r, x)
             /\ Publish(r, IF rate[r][x] = "say_done" THEN "done" ELSE "rating",
                        RateTask(r, x))

-----------------------------------------------------------------------------
(* The generator behind one connection *)

\* The bumps that the row of run r includes.
Bumps(r) == {ScrapeTask(r, i) : i \in Counted(r)} \cup {RateTask(r, x) : x \in Announced(r)}

\* (1) Subscribe.  Nothing asks yet whether there is such a run.
Connect(c, r) ==
    /\ stream[c] \in {"off", "closed", "not_found"}
    /\ connects < MaxConnects
    /\ connects' = connects + 1
    /\ stream' = [stream EXCEPT ![c] = "subscribed"]
    /\ watched' = [watched EXCEPT ![c] = r]
    /\ snapshot' = [snapshot EXCEPT ![c] = {}]
    /\ seen' = [seen EXCEPT ![c] = "absent"]
    /\ relayed' = [relayed EXCEPT ![c] = {}]
    /\ inbox' = [inbox EXCEPT ![c] = <<>>]
    /\ UNCHANGED pipelineVars

\* Mutated AfterSnapshot: a terminal snapshot does not end the stream.
AfterSnapshotRelays(status) == IF status = "absent" THEN "not_found" ELSE "relaying"

\* Where a snapshot with that status takes the stream.
AfterSnapshot(status) ==
    IF status = "absent" THEN "not_found"
    ELSE IF status \in Terminal THEN "closed" ELSE "relaying"

\* (2) Read the row, in a thread: the run moves on behind it.
ReadSnapshot(c) ==
    LET r == watched[c] IN
    /\ stream[c] = "subscribed"
    /\ stream' = [stream EXCEPT ![c] = "read"]
    /\ snapshot' = [snapshot EXCEPT ![c] = Bumps(r)]
    /\ seen' = [seen EXCEPT ![c] = runs[r].status]
    /\ UNCHANGED <<pipelineVars, watched, relayed, inbox, connects>>

\* ... and send it; (3) a snapshot that is terminal is followed by `done` at once.
SendSnapshot(c) ==
    /\ stream[c] = "read"
    /\ stream' = [stream EXCEPT ![c] = AfterSnapshot(seen[c])]
    /\ inbox' = [inbox EXCEPT ![c] = IF stream'[c] = "relaying" THEN @ ELSE <<>>]
    /\ UNCHANGED <<pipelineVars, watched, snapshot, seen, relayed, connects>>

ClosesOn(type) == type = "done"

\* (4) Relay the next delta; `done` closes the stream, whatever comes behind it, and a
\* closed stream has unsubscribed.
Relay(c) ==
    /\ stream[c] = "relaying"
    /\ inbox[c] # <<>>
    /\ LET delta == Head(inbox[c]) IN
          /\ stream' = [stream EXCEPT ![c] = IF ClosesOn(delta.type) THEN "closed" ELSE @]
          /\ relayed' = [relayed EXCEPT ![c] = @ \cup {delta.task}]
    /\ inbox' = [inbox EXCEPT ![c] = IF stream'[c] = "relaying" THEN Tail(@) ELSE <<>>]
    /\ UNCHANGED <<pipelineVars, watched, snapshot, seen, connects>>

\* Mutated Disconnect: the generator ends without the unsubscribe of its `finally`.
DisconnectSubscribed(c) ==
    /\ stream[c] \in Open
    /\ stream' = [stream EXCEPT ![c] = "off"]
    /\ UNCHANGED <<pipelineVars, watched, snapshot, seen, relayed, inbox, connects>>

\* The browser goes away, or refreshes: the generator unsubscribes.
Disconnect(c) ==
    /\ stream[c] \in Open
    /\ stream' = [stream EXCEPT ![c] = "off"]
    /\ inbox' = [inbox EXCEPT ![c] = <<>>]
    /\ UNCHANGED <<pipelineVars, watched, snapshot, seen, relayed, connects>>

-----------------------------------------------------------------------------

StreamNext ==
    \/ WorkStep /\ UNCHANGED streamVars
    \/ PublishedStep
    \/ \E c \in Watchers :
          \/ \E r \in Runs : Connect(c, r)
          \/ ReadSnapshot(c) \/ SendSnapshot(c) \/ Relay(c) \/ Disconnect(c)

StreamSpec == StreamInit /\ [][StreamNext]_allVars

\* The generator goes on as long as the browser is there.
StreamFairness ==
    /\ \A r \in Runs :
          /\ WF_allVars(DispatchStep(r) /\ UNCHANGED streamVars)
          /\ WF_allVars((RefreshForRun(r) \/ DecideRun(r)) /\ UNCHANGED streamVars)
          /\ \A i \in Influencers : WF_allVars(ScrapeStep(r, i) /\ UNCHANGED streamVars)
          /\ \A x \in Signals : WF_allVars(RateStep(r, x) /\ UNCHANGED streamVars)
    /\ WF_allVars(PublishedStep)
    /\ \A c \in Watchers :
          WF_allVars(ReadSnapshot(c)) /\ WF_allVars(SendSnapshot(c)) /\ WF_allVars(Relay(c))

FairStreamSpec == StreamSpec /\ StreamFairness

-----------------------------------------------------------------------------
(* Properties *)

\* The deltas on their way to watcher c.
Coming(c) == {inbox[c][n] : n \in DOMAIN inbox[c]}

\* The bumps of run r whose delta is still to be published.
Unpublished(r) ==
    {ScrapeTask(r, i) : i \in {j \in Influencers : scrape[r][j] \in {"counted", "enqueued"}}}
    \cup {RateTask(r, x) : x \in {y \in Signals : rate[r][y] \in {"say_rating", "say_done"}}}

\* A watcher that was there in time misses no progress: each bump of its run is in its
\* snapshot, has been relayed, is on its way or is yet to be published (subscribe FIRST,
\* "so no delta published during step 2 is lost").
NoGap ==
    \A c \in Watchers :
       stream[c] = "relaying" =>
          Bumps(watched[c]) \subseteq
             snapshot[c] \cup relayed[c] \cup {delta.task : delta \in Coming(c)}
             \cup Unpublished(watched[c])

\* Reconnecting is safe at any moment: a watcher that still waits after the run has ended
\* has a `done` coming, from the channel or from a task that has yet to publish it (and
\* does, unless it is one of those that stop half way: _publish is best-effort).  And a stream
\* that was closed on one is about a run that has ended.
DoneIsComing ==
    \A c \in Watchers :
       /\ stream[c] = "relaying" /\ runs[watched[c]].status \in Terminal =>
            \/ \E delta \in Coming(c) : delta.type = "done"
            \/ OwesDone(watched[c]) # {}
       /\ stream[c] = "closed" => runs[watched[c]].status \in Terminal

\* With every process up, a watcher does not wait for ever.
EveryWatcherIsTold ==
    \A c \in Watchers :
       (stream[c] = "relaying" /\ runs[watched[c]].status # "absent") ~> stream[c] # "relaying"
=============================================================================
