------------------------------ MODULE Release ------------------------------
(***************************************************************************)
(* From a push to served code: each service deploys the newest image, and  *)
(* those that are configured so bring the shared database's schema up to   *)
(* their image first, with migrate.py or with upgrade.py (migrate.py, then *)
(* Alembic).  Nothing locks two of them apart.                             *)
(*                                                                         *)
(* migrate.py reads which versions are recorded, once, and applies the     *)
(* files that are not in order: a file and its record in one transaction,  *)
(* or, marked transaction:false, in two statements.  A record that is      *)
(* there undoes the transaction which comes second, and its deploy fails.  *)
(* A marked file may be one that can be repeated (IF NOT EXISTS) or one    *)
(* that fails when it took effect before, as CREATE INDEX CONCURRENTLY     *)
(* does: cut in two, that one stays without its record for good.           *)
(***************************************************************************)
EXTENDS Integers

CONSTANTS
    Services,
    Script,         \* each one's preDeploy: "upgrade", "migrate" or "none"
    LastImage,
    Files,          \* of each image: the versions of its files,
    HeadOf,         \* and its last Alembic revision
    NoTxn,          \* the versions marked transaction:false,
    Repeatable,     \* and those of them that may be executed again
    MaxStops        \* bound on the deploys that stop half way or go back

Images == 1 .. LastImage
Versions == UNION {Files[k] : k \in Images}

ASSUME ReleaseAssumption ==
    /\ Script \in [Services -> {"upgrade", "migrate", "none"}]
    /\ LastImage \in Nat \ {0}
    /\ Files \in [Images -> SUBSET Nat]
    /\ HeadOf \in [Images -> Nat]
    /\ \A j, k \in Images : j <= k => Files[j] \subseteq Files[k] /\ HeadOf[j] <= HeadOf[k]
    /\ Repeatable \subseteq NoTxn
    \* Only the API's preDeploy is upgrade.py: no second upgrader reads Alembic's revision
    \* while one is at work.
    /\ \A s, t \in Services : Script[s] = "upgrade" /\ Script[t] = "upgrade" => s = t
    /\ MaxStops \in Nat

VARIABLES
    recorded,       \* schema_migrations
    effects,        \* how often each version has taken effect
    revision,       \* alembic_version
    newest,         \* the newest image
    serving,        \* each service's image, or 0
    deploy,         \* each service's deploy: where it stands, its image, what is pending
    stops

releaseVars == <<recorded, effects, revision, newest, serving, deploy, stops>>
schemaVars == <<recorded, effects, revision>>

\* The first of what is pending, in the order of the files' names.
Upcoming(s) == {v \in deploy[s].pending : \A w \in deploy[s].pending : v <= w}

Steps == {"idle", "read", "apply", "record", "alembic", "serve", "failed"}

ReleaseTypeOK ==
    /\ recorded \subseteq Versions
    /\ effects \in [Versions -> Nat]
    /\ revision \in {0} \cup {HeadOf[k] : k \in Images}
    /\ newest \in Images
    /\ serving \in [Services -> 0 .. newest]
    /\ deploy \in [Services -> [at : Steps, image : 0 .. newest, pending : SUBSET Versions]]
    /\ \A s \in Services : deploy[s].at = "record" => Upcoming(s) \subseteq NoTxn
    /\ stops \in 0 .. MaxStops

\* A database from empty.
ReleaseInit ==
    /\ recorded = {}
    /\ effects = [v \in Versions |-> 0]
    /\ revision = 0
    /\ newest = 1
    /\ serving = [s \in Services |-> 0]
    /\ deploy = [s \in Services |-> [at |-> "idle", image |-> 0, pending |-> {}]]
    /\ stops = 0

-----------------------------------------------------------------------------
(* Helpers *)

Goto(s, step) == deploy' = [deploy EXCEPT ![s].at = step]

\* Mutated Fails: a preDeploy that failed is taken for done.
FailsQuietly(s) == Goto(s, "serve")

Fails(s) == Goto(s, "failed")

\* Mutated InTxn: every file and its record are two statements.
InNoTxn(v) == FALSE

InTxn(v) == v \notin NoTxn

\* Mutated Pending: all of the image's files.
AllPending(k) == Files[k]

Pending(k) == Files[k] \ recorded

TakesEffect(v) == effects' = [effects EXCEPT ![v] = @ + 1]

-----------------------------------------------------------------------------
(* The host *)

Push ==
    /\ newest + 1 \in Images
    /\ newest' = newest + 1
    /\ UNCHANGED <<schemaVars, serving, deploy, stops>>

StartDeploy(s, k) ==
    deploy' = [deploy EXCEPT ![s] =
                  [at |-> IF Script[s] = "none" THEN "serve" ELSE "read", image |-> k, pending |-> {}]]

\* The newest image, for the first time or again after a failure.
Deploys(s) ==
    /\ deploy[s].at \in {"idle", "failed"}
    /\ serving[s] < newest
    /\ StartDeploy(s, newest)
    /\ UNCHANGED <<schemaVars, newest, serving, stops>>

\* An operator goes back to an older one.
GoesBack(s) ==
    /\ deploy[s].at = "idle"
    /\ stops < MaxStops /\ stops' = stops + 1
    /\ \E k \in 1 .. serving[s] - 1 : StartDeploy(s, k)
    /\ UNCHANGED <<schemaVars, newest, serving>>

\* The connection breaks, the container is gone or never healthy: an open transaction is undone.
Stops(s) ==
    /\ deploy[s].at \notin {"idle", "failed"}
    /\ stops < MaxStops /\ stops' = stops + 1
    /\ Fails(s)
    /\ UNCHANGED <<schemaVars, newest, serving>>

\* The new container takes the place of the old one.
Serves(s) ==
    /\ deploy[s].at = "serve"
    /\ serving' = [serving EXCEPT ![s] = deploy[s].image]
    /\ Goto(s, "idle")
    /\ UNCHANGED <<schemaVars, newest, stops>>

-----------------------------------------------------------------------------
(* migrate.py *)

Reads(s) ==
    /\ deploy[s].at = "read"
    /\ deploy' = [deploy EXCEPT ![s].at = "apply", ![s].pending = Pending(deploy[s].image)]
    /\ UNCHANGED <<schemaVars, newest, serving, stops>>

\* The file and its record; a record that is there undoes both.
Applies(s) ==
    /\ deploy[s].at = "apply"
    /\ \E v \in Upcoming(s) :
        /\ InTxn(v)
        /\ \/ /\ v \notin recorded
              /\ TakesEffect(v)
              /\ recorded' = recorded \cup {v}
              /\ deploy' = [deploy EXCEPT ![s].pending = @ \ {v}]
           \/ /\ v \in recorded
              /\ Fails(s)
              /\ UNCHANGED <<effects, recorded>>
    /\ UNCHANGED <<revision, newest, serving, stops>>

Executes(s) ==
    /\ deploy[s].at = "apply"
    /\ \E v \in Upcoming(s) :
        /\ ~InTxn(v)
        /\ \/ /\ v \in Repeatable \/ effects[v] = 0
              /\ TakesEffect(v)
              /\ Goto(s, "record")
           \/ /\ v \notin Repeatable /\ effects[v] > 0
              /\ Fails(s)
              /\ UNCHANGED effects
    /\ UNCHANGED <<recorded, revision, newest, serving, stops>>

Records(s) ==
    /\ deploy[s].at = "record"
    /\ \E v \in Upcoming(s) :
        \/ /\ v \notin recorded
           /\ recorded' = recorded \cup {v}
           /\ deploy' = [deploy EXCEPT ![s].at = "apply", ![s].pending = @ \ {v}]
        \/ /\ v \in recorded
           /\ Fails(s)
           /\ UNCHANGED recorded
    /\ UNCHANGED <<effects, revision, newest, serving, stops>>

Migrated(s) ==
    /\ deploy[s].at = "apply" /\ deploy[s].pending = {}
    /\ Goto(s, IF Script[s] = "upgrade" THEN "alembic" ELSE "serve")
    /\ UNCHANGED <<schemaVars, newest, serving, stops>>

-----------------------------------------------------------------------------
(* upgrade.py goes on *)

\* All revisions up to the image's, in one transaction.  One it does not know stops it.
UpgradesAlembic(s) ==
    /\ deploy[s].at = "alembic"
    /\ \/ /\ revision <= HeadOf[deploy[s].image]
          /\ revision' = HeadOf[deploy[s].image]
          /\ Goto(s, "serve")
       \/ /\ revision > HeadOf[deploy[s].image]
          /\ Fails(s)
          /\ UNCHANGED revision
    /\ UNCHANGED <<recorded, effects, newest, serving, stops>>

-----------------------------------------------------------------------------
(* The specification *)

DeployStep(s) ==
    \/ Deploys(s) \/ Serves(s)
    \/ Reads(s) \/ Applies(s) \/ Executes(s) \/ Records(s) \/ Migrated(s) \/ UpgradesAlembic(s)

ReleaseNext == Push \/ \E s \in Services : DeployStep(s) \/ Stops(s) \/ GoesBack(s)

\* The host goes on, and what failed is deployed again.
ReleaseSpec ==
    /\ ReleaseInit /\ [][ReleaseNext]_releaseVars
    /\ \A s \in Services : WF_releaseVars(DeployStep(s))

-----------------------------------------------------------------------------
(* Properties *)

\* Whichever appliers meet or stop where, a version takes effect once and then is recorded, or
\* neither: "idempotent, already-applied versions are skipped".  One that is marked
\* transaction:false may have taken effect without a record, and again if it can be repeated.
TakesEffectOnce ==
    \A v \in Versions :
        /\ v \in recorded => effects[v] >= 1
        /\ v \notin NoTxn => effects[v] = IF v \in recorded THEN 1 ELSE 0

\* "A deploy never ships code ahead of its schema": true of the services that have a preDeploy, as
\* far as it goes (migrate.py leaves Alembic's revisions out).  The worker has none.
CodeHasItsSchema ==
    \A s \in Services : serving[s] # 0 =>
        /\ Script[s] # "none" => Files[serving[s]] \subseteq recorded
        /\ Script[s] = "upgrade" => revision >= HeadOf[serving[s]]

\* A marked file took effect, its applier stopped before the record, and it cannot be repeated.
CutInTwo == \E v \in NoTxn \ Repeatable : effects[v] > 0 /\ v \notin recorded

\* "Re-running this is always safe", and enough: an applier that lost against another or stopped
\* half way is made good by a later deploy, until the newest image is served on its schema.  Only
\* a file that was cut in two, and cannot be repeated, holds every deploy up until somebody
\* writes its record by hand.
RetriesConverge == <>[](\A s \in Services : serving[s] = newest) \/ <>[]CutInTwo
=============================================================================
