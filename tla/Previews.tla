------------------------------ MODULE Previews ------------------------------
(***************************************************************************)
(* A pull request's preview, from its labels to the environment at the     *)
(* host: the workflow preview-env.yml, railway-preview.py, and agentctl    *)
(* for the preview's digest agent.                                         *)
(*                                                                         *)
(* The runs of a pull request share a concurrency group: one runs, one     *)
(* waits, and one more that arrives takes the place of the one that waits, *)
(* whether or not it has a job to do.  A failed step ends its run.         *)
(***************************************************************************)
EXTENDS AgentControl, Sequences

CONSTANT
    MaxEvents       \* bound on the pull request's events

ASSUME PreviewAssumption == MaxEvents \in Nat

VARIABLES
    label,          \* the PR carries the preview label
    open,           \* and is open
    pending,        \* the kind of the run that waits: up, down, skip (no job), or none
    intent,         \* the kind of the last event with a job,
    fate,           \* and what has become of its run: queued, ok, failed, superseded
    halfDown,       \* a down run has deleted the environment and failed, and none has succeeded since
    env,            \* the environment pr-<n>
    eventCount

prVars == <<label, open, pending, intent, fate, halfDown, eventCount>>
previewVars == <<prVars, controlVars, fresh, job, faults, env>>

SERVICE_SOURCE == <<"api", "worker">>
Repo == {"api", "worker"}               \* these services, which have the cloned triggers, too
DEPLOY_ORDER == <<"redis", "worker", "api">>
Services == {"redis", "worker", "api"}

\* As environmentCreate clones it: on main, with production's sources and no domain.
NoEnv == [exists |-> FALSE, branch |-> {}, pinned |-> {}, domains |-> {}, deployed |-> {}]
ClonedEnv == [NoEnv EXCEPT !.exists = TRUE]

Run(kind) == IF kind \in {"up", "down"} THEN [NoJob EXCEPT !.kind = kind, !.at = "find"] ELSE NoJob
Idle == job = NoJob

PreviewTypeOK ==
    /\ label \in BOOLEAN /\ open \in BOOLEAN
    /\ pending \in {"none", "up", "down", "skip"}
    /\ Idle => pending = "none"
    /\ intent \in {"none", "up", "down"}
    /\ fate \in {"none", "queued", "ok", "failed", "superseded"}
    /\ halfDown \in BOOLEAN
    /\ env.branch \subseteq Repo /\ env.pinned \subseteq Repo /\ env.deployed \subseteq Services
    /\ ~env.exists => env = NoEnv
    /\ job.kind \in {"none", "up", "down"}
    /\ Cardinality(DOMAIN agents) <= 1 /\ Cardinality(DOMAIN deployments) <= 1
    /\ faults \in 0 .. MaxFaults /\ eventCount \in 0 .. MaxEvents

PreviewInit ==
    /\ label = FALSE /\ open = TRUE
    /\ pending = "none" /\ intent = "none" /\ fate = "none" /\ halfDown = FALSE
    /\ env = NoEnv
    /\ agents = <<>> /\ deployments = <<>> /\ credentials = {}
    /\ fresh = 1
    /\ job = NoJob
    /\ faults = 0 /\ eventCount = 0

-----------------------------------------------------------------------------
(* The pull request and its concurrency group *)

\* A run of a kind is queued; job is its if condition.
Queue(kind) ==
    /\ eventCount < MaxEvents /\ eventCount' = eventCount + 1
    /\ IF Idle THEN job' = Run(kind) /\ UNCHANGED pending ELSE pending' = kind /\ UNCHANGED job
    /\ intent' = IF kind = "skip" THEN intent ELSE kind
    /\ fate' = IF kind # "skip" THEN "queued" ELSE
               IF pending \in {"up", "down"} THEN "superseded" ELSE fate
    /\ UNCHANGED <<controlVars, fresh, faults, halfDown, env>>

AddLabel == ~label /\ label' = TRUE /\ UNCHANGED open /\ Queue("up")
RemoveLabel == label /\ label' = FALSE /\ UNCHANGED open /\ Queue("down")
OtherLabel == UNCHANGED <<label, open>> /\ Queue("skip")
Close == open /\ open' = FALSE /\ UNCHANGED label /\ Queue(IF label THEN "down" ELSE "skip")
Reopen == ~open /\ open' = TRUE /\ UNCHANGED label /\ Queue(IF label THEN "up" ELSE "skip")

\* The run is over, and the one that waits begins.
RunEnds ==
    /\ job.at \in {"finished", "failed"}
    /\ halfDown' = IF job.kind = "down" THEN job.at = "failed" /\ (halfDown \/ ~env.exists)
                                        ELSE halfDown
    /\ fate' = IF fate = "queued" /\ pending \notin {"up", "down"}
               THEN IF job.at = "finished" THEN "ok" ELSE "failed"
               ELSE fate
    /\ job' = Run(pending)
    /\ pending' = "none"
    /\ UNCHANGED <<label, open, intent, eventCount, controlVars, fresh, faults, env>>

\* A call fails without an effect (for the host, four times).
CallFails ==
    /\ ~Idle /\ job.at \notin {"finished", "failed"}
    /\ faults < MaxFaults /\ faults' = faults + 1
    /\ Goto("failed")
    /\ UNCHANGED <<prVars, controlVars, fresh, env>>

-----------------------------------------------------------------------------
(* railway-preview.py up: what is there is found, or done again *)

\* Mutated Find: the triggers and the sources of one that exists are taken for done.
FindDone ==
    /\ At("up", "find")
    /\ Goto(IF env.exists THEN "domain" ELSE "create")
    /\ UNCHANGED <<env, fresh, faults>>

Find ==
    /\ At("up", "find")
    /\ Goto(IF env.exists THEN "detail" ELSE "create")
    /\ UNCHANGED <<env, fresh, faults>>

\* Created, and answered with an error, it is created again, which the host refuses.
CreateEnvironment ==
    /\ At("up", "create")
    /\ env' = ClonedEnv
    /\ GoesOn("detail")
    /\ UNCHANGED fresh

Detail ==
    /\ At("up", "detail")
    /\ \/ env.domains = {} /\ Goto("retarget")
       \/ \E d \in env.domains : job' = [job EXCEPT !.at = "retarget", !.url = d]
    /\ UNCHANGED <<env, fresh, faults>>

Retarget ==
    /\ At("up", "retarget")
    /\ \/ env.branch = Repo /\ Goto("pin") /\ UNCHANGED <<env, faults>>
       \/ \E s \in Repo \ env.branch :
            env' = [env EXCEPT !.branch = @ \cup {s}] /\ GoesOn("retarget")
    /\ UNCHANGED fresh

\* The loop's call goes to the next of n, and the last one leads on.
LoopsOn(n, call) ==
    \/ /\ job' = IF job.next < n THEN [job EXCEPT !.next = @ + 1]
                                 ELSE [job EXCEPT !.next = 1, !.at = call]
       /\ UNCHANGED faults
    \/ Goto("failed") /\ faults < MaxFaults /\ faults' = faults + 1

\* On every up, again or not.
Pin ==
    /\ At("up", "pin")
    /\ env' = [env EXCEPT !.pinned = @ \cup {SERVICE_SOURCE[job.next]}]
    /\ LoopsOn(Len(SERVICE_SOURCE), "domain")
    /\ UNCHANGED fresh

\* Unless there is one.  A call that is repeated after an error may have created one before.
EnsureDomain ==
    /\ At("up", "domain")
    /\ \/ /\ job.url # 0
          /\ Goto("deploy")
          /\ UNCHANGED <<env, fresh, faults>>
       \/ /\ job.url = 0
          /\ env' = [env EXCEPT !.domains = @ \cup {fresh}]
          /\ fresh' = fresh + 1
          /\ \/ job' = [job EXCEPT !.at = "deploy", !.url = fresh] /\ UNCHANGED faults
             \/ Goto("domain") /\ faults < MaxFaults /\ faults' = faults + 1
             \/ Goto("failed") /\ faults < MaxFaults /\ faults' = faults + 1

\* Likewise; the last one leads on to the agent.
Deploy ==
    /\ At("up", "deploy")
    /\ env' = [env EXCEPT !.deployed = @ \cup {DEPLOY_ORDER[job.next]}]
    /\ LoopsOn(Len(DEPLOY_ORDER), "credential")
    /\ UNCHANGED fresh

-----------------------------------------------------------------------------
(* railway-preview.py down *)

FindToDelete ==
    /\ At("down", "find")
    /\ Goto(IF env.exists THEN "delete" ELSE "archive deployment")
    /\ UNCHANGED <<env, fresh, faults>>

\* Deleted, and answered with an error, it is deleted again, which the host refuses.
DeleteEnvironment ==
    /\ At("down", "delete")
    /\ env' = NoEnv
    /\ GoesOn("archive deployment")
    /\ UNCHANGED fresh

-----------------------------------------------------------------------------
(* The specification *)

PrEvent == AddLabel \/ RemoveLabel \/ OtherLabel \/ Close \/ Reopen

HostStep ==
    /\ \/ Find \/ CreateEnvironment \/ Detail \/ Retarget \/ Pin \/ EnsureDomain \/ Deploy
       \/ FindToDelete \/ DeleteEnvironment
    /\ UNCHANGED <<prVars, controlVars>>

AgentStep == ControlStep /\ UNCHANGED <<prVars, env>>

PreviewNext ==
    \/ PrEvent \/ RunEnds \/ CallFails
    \/ HostStep \/ AgentStep
    \/ OtherUpdate /\ UNCHANGED <<prVars, env>>

PreviewSpec == PreviewInit /\ [][PreviewNext]_previewVars

-----------------------------------------------------------------------------
(* Properties *)

\* Whatever runs have failed half way before, one down that succeeds leaves nothing behind: no
\* environment, agent or deployment, and no credential of any URL the preview ever had.
TornDown ==
    Idle /\ intent = "down" /\ fate = "ok" =>
        env = NoEnv /\ agents = <<>> /\ deployments = <<>> /\ credentials = {}

\* And one up that succeeds leaves a whole preview, whatever it had to resume: on the branch, with
\* its sources pinned and deployed, and its agent pinned by its deployment and dialling a domain of
\* the preview's with a credential for it.  Updates may leave the URL out only as long as agent and
\* environment go together: a down that deletes the environment and fails before the agent parts
\* them, and an up after it keeps the old URL, until a down succeeds.
UpIsWhole ==
    Idle /\ intent = "up" /\ fate = "ok" =>
        /\ env.exists /\ env.branch = Repo /\ env.pinned = Repo /\ env.deployed = Services
        /\ env.domains \cap credentials # {}
        /\ \E a \in DOMAIN agents, d \in DOMAIN deployments :
            /\ deployments[d] = a
            /\ agents[a].url \in env.domains \cap credentials \/ halfDown
=============================================================================
