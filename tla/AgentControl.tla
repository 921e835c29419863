---------------------------- MODULE AgentControl ----------------------------
(***************************************************************************)
(* agentctl.py deploy and teardown of one preview's digest agent: find by  *)
(* name, then create or update, call by call against the vendor's API.     *)
(*                                                                         *)
(* An agent dials the /mcp URL that it was created with; its updates leave *)
(* the URL out and carry the version they were read at.  A deployment pins *)
(* an agent, and a credential is good for one URL.                         *)
(*                                                                         *)
(* The job stands at a call; the workflow that runs it is Previews.        *)
(***************************************************************************)
EXTENDS Integers, FiniteSets, FiniteSetsExt

CONSTANTS
    MaxFaults       \* bound on the calls that fail, here and at the host of the previews

ASSUME ControlAssumption == MaxFaults \in Nat

VARIABLES
    agents,         \* live agents of this name: id -> url and version
    deployments,    \* live deployments of this name: the agents they pin
    credentials,    \* the vault's: the URLs that this PR has one for
    fresh,          \* the next id, of whatever the vendors create
    job,            \* the run of the workflow: its kind, the call it stands at, what it has read,
                    \* and which call of a loop is next
    faults

controlVars == <<agents, deployments, credentials>>

NoJob == [kind |-> "none", at |-> "none", url |-> 0, agent |-> 0, version |-> 0, next |-> 1]
Live(a) == a \in DOMAIN agents

-----------------------------------------------------------------------------
(* Helpers *)

Goto(call) == job' = [job EXCEPT !.at = call]

At(kind, call) == job.kind = kind /\ job.at = call

\* The job goes on, or its call is answered with an error although it has taken effect.
GoesOn(call) ==
    \/ Goto(call) /\ UNCHANGED faults
    \/ Goto("failed") /\ faults < MaxFaults /\ faults' = faults + 1

With(f, k, v) == [x \in DOMAIN f \cup {k} |-> IF x = k THEN v ELSE f[x]]
Without(f, k) == [x \in DOMAIN f \ {k} |-> f[x]]

-----------------------------------------------------------------------------
(* deploy *)

EnsureCredential ==
    /\ At("up", "credential")
    /\ credentials' = credentials \cup {job.url}
    /\ GoesOn("agent")
    /\ UNCHANGED <<agents, deployments, fresh>>

\* Mutated FindAgent: what it has found is not remembered.
FindAgentAnew ==
    /\ At("up", "agent")
    /\ Goto("create agent")
    /\ UNCHANGED <<controlVars, fresh, faults>>

\* Listed by name, then retrieved for its version.
FindAgent ==
    /\ At("up", "agent")
    /\ \/ /\ DOMAIN agents = {}
          /\ Goto("create agent")
       \/ \E a \in DOMAIN agents :
            job' = [job EXCEPT !.at = "update agent", !.agent = a, !.version = agents[a].version]
    /\ UNCHANGED <<controlVars, fresh, faults>>

CreateAgent ==
    /\ At("up", "create agent")
    /\ agents' = With(agents, fresh, [url |-> job.url, version |-> 1])
    /\ fresh' = fresh + 1
    /\ \/ job' = [job EXCEPT !.at = "deployment", !.agent = fresh] /\ UNCHANGED faults
       \/ Goto("failed") /\ faults < MaxFaults /\ faults' = faults + 1
    /\ UNCHANGED <<deployments, credentials>>

\* On the version that was read; another writer's makes it fail.
UpdateAgent ==
    /\ At("up", "update agent")
    /\ IF Live(job.agent) /\ agents[job.agent].version = job.version
       THEN /\ agents' = [agents EXCEPT ![job.agent].version = @ + 1]
            /\ GoesOn("deployment")
       ELSE Goto("failed") /\ UNCHANGED <<agents, faults>>
    /\ UNCHANGED <<deployments, credentials, fresh>>

\* Listed by name, then updated to the agent or created for it.
UpsertDeployment ==
    /\ At("up", "deployment")
    /\ \/ DOMAIN deployments = {} /\ deployments' = With(deployments, fresh, job.agent)
       \/ \E d \in DOMAIN deployments : deployments' = With(deployments, d, job.agent)
    /\ fresh' = fresh + 1
    /\ GoesOn("finished")
    /\ UNCHANGED <<agents, credentials>>

-----------------------------------------------------------------------------
(* teardown *)

ArchiveDeployment ==
    /\ At("down", "archive deployment")
    /\ \/ DOMAIN deployments = {} /\ UNCHANGED deployments
       \/ \E d \in DOMAIN deployments : deployments' = Without(deployments, d)
    /\ GoesOn("archive agent")
    /\ UNCHANGED <<agents, credentials, fresh>>

ArchiveAgent ==
    /\ At("down", "archive agent")
    /\ \/ DOMAIN agents = {} /\ UNCHANGED agents
       \/ \E a \in DOMAIN agents : agents' = Without(agents, a)
    /\ GoesOn("delete credentials")
    /\ UNCHANGED <<deployments, credentials, fresh>>

\* Mutated DeleteCredentials: the one of the current URL.
DeleteCredential ==
    /\ At("down", "delete credentials")
    /\ credentials' = {url \in credentials : url # Max(credentials)}
    /\ GoesOn("finished")
    /\ UNCHANGED <<agents, deployments, fresh>>

\* Found by the PR in their metadata, one by one.
DeleteCredentials ==
    /\ At("down", "delete credentials")
    /\ \/ credentials = {} /\ Goto("finished") /\ UNCHANGED <<credentials, faults>>
       \/ \E url \in credentials :
            credentials' = credentials \ {url} /\ GoesOn("delete credentials")
    /\ UNCHANGED <<agents, deployments, fresh>>

-----------------------------------------------------------------------------
ControlStep ==
    \/ EnsureCredential \/ FindAgent \/ CreateAgent \/ UpdateAgent \/ UpsertDeployment
    \/ ArchiveDeployment \/ ArchiveAgent \/ DeleteCredentials

\* Somebody else updates the agent, from a command line.
OtherUpdate ==
    /\ faults < MaxFaults /\ faults' = faults + 1
    /\ \E a \in DOMAIN agents : agents' = [agents EXCEPT ![a].version = @ + 1]
    /\ UNCHANGED <<deployments, credentials, fresh, job>>
=============================================================================
