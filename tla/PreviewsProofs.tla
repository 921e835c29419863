--------------------------- MODULE PreviewsProofs ---------------------------
(***************************************************************************)
(* Proofs about Previews and AgentControl, for any number of events of a   *)
(* pull request and any number of calls that fail on the way.              *)
(***************************************************************************)
EXTENDS Previews, FiniteSetTheorems, TLAPS

-----------------------------------------------------------------------------
(* The inductive invariant *)

UpCalls == {"find", "create", "detail", "retarget", "pin", "domain", "deploy", "credential",
            "agent", "create agent", "update agent", "deployment", "finished", "failed"}
DownCalls == {"find", "delete", "archive deployment", "archive agent", "delete credentials",
              "finished", "failed"}

Jobs == [kind: {"none", "up", "down"}, at: {"none"} \cup UpCalls \cup DownCalls,
         url: Nat, agent: Nat, version: Nat, next: Nat]

\* The values PreviewTypeOK leaves open.
Shapes ==
    /\ fresh \in Nat \ {0}
    /\ env \in [exists: BOOLEAN, branch: SUBSET Repo, pinned: SUBSET Repo,
                domains: SUBSET (Nat \ {0}), deployed: SUBSET Services]
    /\ agents \in [DOMAIN agents -> [url: Nat, version: Nat]] /\ DOMAIN agents \subseteq Nat
    /\ deployments \in [DOMAIN deployments -> Nat]
    /\ job \in Jobs
    /\ \/ Idle
       \/ job.kind = "up" /\ job.at \in UpCalls
       \/ job.kind = "down" /\ job.at \in DownCalls
    /\ DOMAIN agents = {} \/ \E a \in DOMAIN agents : DOMAIN agents = {a}
    /\ DOMAIN deployments = {} \/ \E d \in DOMAIN deployments : DOMAIN deployments = {d}

\* Whose fate it is: the run of the last event with a job waits, or it runs, or it is over.
FateFits ==
    /\ fate = "queued" =>
          IF pending \in {"up", "down"} THEN intent = pending
          ELSE job.kind = intent /\ intent # "none"
    /\ fate = "ok" => Idle

\* What an up has made sure of by the time it makes a call.
UpHas ==
    job.kind = "up" =>
       LET Past(calls) == job.at \notin calls \cup {"failed"} IN
       /\ job.at = "create" => ~env.exists
       /\ Past({"find", "create"}) => env.exists
       /\ Past({"find", "create", "detail", "retarget"}) => env.branch = Repo
       /\ Past({"find", "create", "detail", "retarget", "pin"}) => env.pinned = Repo
       /\ job.url # 0 => job.url \in env.domains
       /\ Past({"find", "create", "detail", "retarget", "pin", "domain"}) =>
             job.url \in env.domains
       /\ job.at \in {"credential", "agent", "create agent", "update agent", "deployment",
                      "finished"} => env.deployed = Services
       /\ job.at \in {"agent", "create agent", "update agent", "deployment", "finished"} =>
             job.url \in credentials
       /\ job.at = "create agent" => DOMAIN agents = {}
       /\ job.at \in {"update agent", "deployment", "finished"} => job.agent \in DOMAIN agents
       /\ job.at = "finished" => \E d \in DOMAIN deployments : deployments[d] = job.agent

\* Where it stands in a loop.
LoopHas ==
    job.kind = "up" =>
       /\ job.at \notin {"pin", "deploy", "failed"} => job.next = 1
       /\ job.at = "pin" =>
             job.next \in 1 .. 2 /\ (job.next = 2 => "api" \in env.pinned)
       /\ job.at = "deploy" =>
             /\ job.next \in 1 .. 3
             /\ job.next > 1 => "redis" \in env.deployed
             /\ job.next > 2 => "worker" \in env.deployed

\* What a down has removed by then.
DownHas ==
    job.kind = "down" =>
       /\ job.at \in {"archive deployment", "archive agent", "delete credentials", "finished"} =>
             env = NoEnv
       /\ job.at \in {"archive agent", "delete credentials", "finished"} => deployments = <<>>
       /\ job.at \in {"delete credentials", "finished"} => agents = <<>>
       /\ job.at = "finished" => credentials = {}

\* Agent and environment belong together, but while a down parts them and once one has
\* failed between the two.
DialsHome ==
    halfDown \/ (job.kind = "down" /\ ~env.exists)
    \/ \A a \in DOMAIN agents : agents[a].url \in env.domains \cap credentials

\* The part that is about the job and the two vendors, whatever the pull request does.
Core ==
    /\ faults \in 0 .. MaxFaults
    /\ ~env.exists => env = NoEnv
    /\ Shapes /\ UpHas /\ LoopHas /\ DownHas /\ DialsHome

PreviewInv ==
    /\ PreviewTypeOK /\ Core /\ FateFits
    /\ TornDown /\ UpIsWhole

-----------------------------------------------------------------------------
(* Helpers *)

\* A call is answered, and the job stands at the next.
Moved(call) ==
    /\ job' \in Jobs
    /\ job'.kind = job.kind /\ job'.at = call
    /\ job'.url = job.url /\ job'.agent = job.agent /\ job'.version = job.version
    /\ job'.next = job.next

LEMMA GotoFacts ==
  ASSUME job \in Jobs, NEW call \in UpCalls \cup DownCalls, Goto(call)
  PROVE  Moved(call)
  BY DEF Goto, Moved, Jobs

LEMMA GoesOnFacts ==
  ASSUME job \in Jobs, faults \in 0 .. MaxFaults, NEW call \in UpCalls \cup DownCalls,
         GoesOn(call)
  PROVE  (Moved(call) \/ Moved("failed")) /\ faults' \in 0 .. MaxFaults
<1>1. "failed" \in UpCalls
  BY DEF UpCalls
<1>2. CASE Goto(call) /\ UNCHANGED faults
  BY <1>2, GotoFacts
<1>3. CASE Goto("failed") /\ faults < MaxFaults /\ faults' = faults + 1
  <2>1. Moved("failed")
    BY <1>1, <1>3, GotoFacts
  <2>2. faults' \in 0 .. MaxFaults
    BY <1>3, ControlAssumption
  <2>3. QED BY <2>1, <2>2
<1>4. QED BY <1>2, <1>3 DEF GoesOn

\* What there is one of is gone once it is left out.
LEMMA WithoutFacts ==
  ASSUME NEW f, NEW k, DOMAIN f = {k}
  PROVE  Without(f, k) = <<>>
  BY DEF Without

LEMMA EmptyIsNone ==
  ASSUME NEW S, NEW f, f \in [DOMAIN f -> S], DOMAIN f = {}
  PROVE  f = <<>>
  OBVIOUS

LEMMA InitCore == PreviewInit => Core
<1> SUFFICES ASSUME PreviewInit PROVE Core
  OBVIOUS
<1>1. DOMAIN agents = {} /\ DOMAIN deployments = {}
  BY DEF PreviewInit
<1>2. job \in Jobs /\ Idle /\ job.kind = "none"
  BY DEF PreviewInit, NoJob, Jobs, Idle
<1>3. env \in [exists: BOOLEAN, branch: SUBSET Repo, pinned: SUBSET Repo,
               domains: SUBSET (Nat \ {0}), deployed: SUBSET Services]
  BY DEF PreviewInit, NoEnv
<1>4. agents \in [DOMAIN agents -> [url: Nat, version: Nat]]
      /\ deployments \in [DOMAIN deployments -> Nat]
  BY DEF PreviewInit
<1>5. Shapes
  BY <1>1, <1>2, <1>3, <1>4 DEF PreviewInit, Shapes
<1>6. UpHas /\ LoopHas /\ DownHas /\ DialsHome
  BY <1>1, <1>2 DEF UpHas, LoopHas, DownHas, DialsHome
<1>7. QED BY <1>5, <1>6, ControlAssumption DEF Core, PreviewInit

-----------------------------------------------------------------------------
(* railway-preview.py *)

LEMMA FindCore ==
  ASSUME Core, Find, UNCHANGED <<prVars, controlVars>>
  PROVE  Core'
<1> USE DEF Core, Shapes, controlVars, prVars
<1>1. /\ job.kind = "up" /\ job.at = "find"
      /\ env' = env /\ fresh' = fresh /\ faults' = faults
  BY DEF Find, At
<1>2. Moved(IF env.exists THEN "detail" ELSE "create")
  BY GotoFacts DEF Find, UpCalls
<1>3. Shapes'
  BY <1>1, <1>2 DEF Moved, UpCalls
<1>4. UpHas' /\ LoopHas' /\ DownHas' /\ DialsHome'
  BY <1>1, <1>2 DEF Moved, UpHas, LoopHas, DownHas, DialsHome
<1>5. QED BY <1>1, <1>3, <1>4

LEMMA CreateEnvironmentCore ==
  ASSUME Core, CreateEnvironment, UNCHANGED <<prVars, controlVars>>
  PROVE  Core'
<1> USE DEF Core, Shapes, controlVars, prVars
<1>1. /\ job.kind = "up" /\ job.at = "create" /\ env' = ClonedEnv /\ fresh' = fresh
      /\ env = NoEnv
  BY DEF CreateEnvironment, At, UpHas
<1>2. (Moved("detail") \/ Moved("failed")) /\ faults' \in 0 .. MaxFaults
  BY GoesOnFacts DEF CreateEnvironment, UpCalls
<1>3. /\ ClonedEnv.exists
      /\ ClonedEnv \in [exists: BOOLEAN, branch: SUBSET Repo, pinned: SUBSET Repo,
                        domains: SUBSET (Nat \ {0}), deployed: SUBSET Services]
      /\ NoEnv.domains = {}
  BY DEF ClonedEnv, NoEnv
<1>4. Shapes'
  BY <1>1, <1>2, <1>3 DEF Moved, UpCalls
<1>5. UpHas'
  BY <1>1, <1>2, <1>3 DEF Moved, UpHas
<1>6. LoopHas' /\ DownHas' /\ DialsHome'
  BY <1>1, <1>2, <1>3 DEF Moved, DownHas, DialsHome, LoopHas
<1>7. QED BY <1>1, <1>2, <1>3, <1>4, <1>5, <1>6

\* A step of an up that only adds to the environment keeps what was there before.
Adds ==
    /\ env'.exists = env.exists
    /\ env.branch \subseteq env'.branch /\ env.pinned \subseteq env'.pinned
    /\ env.domains \subseteq env'.domains /\ env.deployed \subseteq env'.deployed
    /\ env' \in [exists: BOOLEAN, branch: SUBSET Repo, pinned: SUBSET Repo,
                 domains: SUBSET (Nat \ {0}), deployed: SUBSET Services]

LEMMA AddingCore ==
  ASSUME Core, job.kind = "up", Adds, env.exists, fresh' \in Nat \ {0},
         faults' \in 0 .. MaxFaults, job' \in Jobs, job'.kind = "up", job'.at \in UpCalls,
         UNCHANGED <<prVars, controlVars>>, UpHas', LoopHas'
  PROVE  Core'
<1> USE DEF Core, Shapes, controlVars, prVars
<1>1. Shapes'
  BY DEF Adds
<1>2. DownHas'
  BY DEF DownHas
<1>3. DialsHome'
  BY DEF DialsHome, Adds
<1>4. QED BY <1>1, <1>2, <1>3 DEF Adds

LEMMA DetailCore ==
  ASSUME Core, Detail, UNCHANGED <<prVars, controlVars>>
  PROVE  Core'
<1> USE DEF Core, Shapes, controlVars, prVars
<1>1. /\ job.kind = "up" /\ job.at = "detail" /\ env.exists
      /\ env' = env /\ fresh' = fresh /\ faults' = faults
  BY DEF Detail, At, UpHas
<1>2. /\ job' \in Jobs /\ job'.kind = "up" /\ job'.at = "retarget" /\ job'.agent = job.agent
      /\ job'.next = 1
      /\ job'.url = job.url \/ job'.url \in env.domains
  <2>1. CASE Goto("retarget")
    BY <1>1, <2>1, GotoFacts DEF UpCalls, Moved, LoopHas
  <2>2. ASSUME NEW d \in env.domains, job' = [job EXCEPT !.at = "retarget", !.url = d]
        PROVE  /\ job' \in Jobs /\ job'.kind = "up" /\ job'.at = "retarget"
               /\ job'.agent = job.agent /\ job'.url \in env.domains /\ job'.next = 1
    BY <1>1, <2>2 DEF Jobs, UpCalls, LoopHas
  <2>3. QED BY <2>1, <2>2 DEF Detail
<1>3. UpHas'
  BY <1>1, <1>2 DEF UpHas
<1>4. Adds
  BY <1>1 DEF Adds
<1>5. LoopHas' /\ job'.at \in UpCalls
  BY <1>2 DEF LoopHas, UpCalls
<1>6. QED BY <1>1, <1>2, <1>3, <1>4, <1>5, AddingCore

LEMMA RetargetCore ==
  ASSUME Core, Retarget, UNCHANGED <<prVars, controlVars>>
  PROVE  Core'
<1> USE DEF Core, Shapes, controlVars, prVars
<1>1. /\ job.kind = "up" /\ job.at = "retarget" /\ env.exists /\ fresh' = fresh
      /\ job.next = 1
  BY DEF Retarget, At, UpHas, LoopHas
<1>2. CASE env.branch = Repo /\ Goto("pin") /\ UNCHANGED <<env, faults>>
  <2>1. Moved("pin")
    BY <1>2, GotoFacts DEF UpCalls
  <2>2. UpHas' /\ LoopHas' /\ job'.at \in UpCalls
    BY <1>1, <1>2, <2>1 DEF UpHas, LoopHas, Moved, UpCalls
  <2>3. Adds
    BY <1>2 DEF Adds
  <2>4. QED BY <1>1, <1>2, <2>1, <2>2, <2>3, AddingCore DEF Moved
<1>3. ASSUME NEW s \in Repo, env' = [env EXCEPT !.branch = @ \cup {s}], GoesOn("retarget")
      PROVE  Core'
  <2>1. (Moved("retarget") \/ Moved("failed")) /\ faults' \in 0 .. MaxFaults
    BY <1>3, GoesOnFacts DEF UpCalls
  <2>2. Adds
    BY <1>3 DEF Adds
  <2>3. UpHas' /\ LoopHas' /\ job'.at \in UpCalls
    BY <1>1, <2>1, <2>2 DEF UpHas, LoopHas, Moved, Adds, UpCalls
  <2>4. QED BY <1>1, <2>1, <2>2, <2>3, AddingCore DEF Moved
<1>4. QED BY <1>2, <1>3 DEF Retarget

\* A loop's call, and the one that the job stands at next.
LEMMA LoopsOnFacts ==
  ASSUME job \in Jobs, job.kind = "up", faults \in 0 .. MaxFaults,
         NEW n \in Nat, NEW call \in UpCalls, LoopsOn(n, call)
  PROVE  /\ job' \in Jobs /\ job'.kind = "up" /\ job'.url = job.url /\ job'.agent = job.agent
         /\ \/ job.next < n /\ job'.at = job.at /\ job'.next = job.next + 1
            \/ ~(job.next < n) /\ job'.at = call /\ job'.next = 1
            \/ job'.at = "failed"
         /\ faults' \in 0 .. MaxFaults
<1>1. CASE job' = [job EXCEPT !.next = @ + 1] /\ job.next < n /\ UNCHANGED faults
  BY <1>1 DEF Jobs
<1>2. CASE job' = [job EXCEPT !.next = 1, !.at = call] /\ ~(job.next < n) /\ UNCHANGED faults
  BY <1>2 DEF Jobs
<1>3. CASE Goto("failed") /\ faults < MaxFaults /\ faults' = faults + 1
  <2>1. Moved("failed")
    BY <1>3, GotoFacts DEF UpCalls
  <2>2. faults' \in 0 .. MaxFaults
    BY <1>3, ControlAssumption
  <2>3. QED BY <2>1, <2>2 DEF Moved
<1>4. QED BY <1>1, <1>2, <1>3 DEF LoopsOn

LEMMA PinCore ==
  ASSUME Core, Pin, UNCHANGED <<prVars, controlVars>>
  PROVE  Core'
<1> USE DEF Core, Shapes, controlVars, prVars
<1>1. /\ job.kind = "up" /\ job.at = "pin" /\ env.exists /\ fresh' = fresh /\ env.branch = Repo
      /\ job.next \in 1 .. 2 /\ (job.next = 2 => "api" \in env.pinned)
      /\ job.url # 0 => job.url \in env.domains
  BY DEF Pin, At, UpHas, LoopHas
<1>2. /\ SERVICE_SOURCE[1] = "api" /\ SERVICE_SOURCE[2] = "worker" /\ Len(SERVICE_SOURCE) = 2
      /\ "domain" \in UpCalls
  BY DEF SERVICE_SOURCE, UpCalls
<1>3. env' = [env EXCEPT !.pinned = @ \cup {SERVICE_SOURCE[job.next]}]
  BY DEF Pin
<1>4. /\ job' \in Jobs /\ job'.kind = "up" /\ job'.url = job.url
      /\ \/ job.next < 2 /\ job'.at = "pin" /\ job'.next = job.next + 1
         \/ ~(job.next < 2) /\ job'.at = "domain" /\ job'.next = 1
         \/ job'.at = "failed"
      /\ faults' \in 0 .. MaxFaults
  <2>1. LoopsOn(2, "domain")
    BY <1>2 DEF Pin
  <2>2. QED BY <1>1, <1>2, <2>1, LoopsOnFacts
<1>5. /\ Adds /\ env'.branch = Repo /\ env'.domains = env.domains
      /\ SERVICE_SOURCE[job.next] \in env'.pinned
  <2>1. SERVICE_SOURCE[job.next] \in Repo
    BY <1>1, <1>2 DEF Repo
  <2> DEFINE x == SERVICE_SOURCE[job.next]
  <2>2. env' = [env EXCEPT !.pinned = @ \cup {x}]
    BY <1>3
  <2> HIDE DEF x
  <2>3. Adds /\ env'.branch = Repo /\ env'.domains = env.domains /\ x \in env'.pinned
    BY <1>1, <2>1, <2>2 DEF Adds, x
  <2>4. QED BY <2>3 DEF x
<1>6. \/ job'.at = "pin" /\ job'.next = 2 /\ "api" \in env'.pinned
      \/ job'.at = "domain" /\ job'.next = 1 /\ env'.pinned = Repo
      \/ job'.at = "failed"
  BY <1>1, <1>2, <1>4, <1>5 DEF Adds, Repo
<1>7. UpHas' /\ job'.at \in UpCalls
  <2>1. CASE job'.at = "failed"
    BY <1>1, <1>4, <1>5, <2>1 DEF UpHas, UpCalls
  <2>2. CASE job'.at # "failed"
    BY <1>1, <1>4, <1>5, <1>6, <2>2 DEF UpHas, Adds, UpCalls
  <2>3. QED BY <2>1, <2>2
<1>8. LoopHas'
  BY <1>4, <1>6 DEF LoopHas
<1>9. QED BY <1>1, <1>4, <1>5, <1>7, <1>8, AddingCore

LEMMA EnsureDomainCore ==
  ASSUME Core, EnsureDomain, UNCHANGED <<prVars, controlVars>>
  PROVE  Core'
<1> USE DEF Core, Shapes, controlVars, prVars
<1>1. /\ job.kind = "up" /\ job.at = "domain" /\ env.exists
      /\ env.branch = Repo /\ env.pinned = Repo /\ job.next = 1
  BY DEF EnsureDomain, At, UpHas, LoopHas
<1>2. CASE job.url # 0 /\ Goto("deploy") /\ UNCHANGED <<env, fresh, faults>>
  <2>1. Moved("deploy") /\ Adds
    BY <1>2, GotoFacts DEF UpCalls, Adds
  <2>2. UpHas' /\ LoopHas' /\ job'.at \in UpCalls
    BY <1>1, <1>2, <2>1 DEF UpHas, LoopHas, Moved, UpCalls
  <2>3. QED BY <1>1, <1>2, <2>1, <2>2, AddingCore DEF Moved
<1>3. ASSUME job.url = 0, env' = [env EXCEPT !.domains = @ \cup {fresh}], fresh' = fresh + 1,
             \/ job' = [job EXCEPT !.at = "deploy", !.url = fresh] /\ UNCHANGED faults
             \/ Goto("domain") /\ faults < MaxFaults /\ faults' = faults + 1
             \/ Goto("failed") /\ faults < MaxFaults /\ faults' = faults + 1
      PROVE  Core'
  <2>1. /\ Adds /\ fresh \in env'.domains /\ fresh' \in Nat \ {0}
        /\ env'.branch = Repo /\ env'.pinned = Repo
    <3>1. fresh \in Nat \ {0} /\ fresh' \in Nat \ {0}
      BY <1>3
    <3>2. /\ env'.domains = env.domains \cup {fresh}
          /\ env'.exists = env.exists /\ env'.branch = env.branch
          /\ env'.pinned = env.pinned /\ env'.deployed = env.deployed
      BY <1>3
    <3>3. env' \in [exists: BOOLEAN, branch: SUBSET Repo, pinned: SUBSET Repo,
                   domains: SUBSET (Nat \ {0}), deployed: SUBSET Services]
      BY <1>3, <3>1
    <3>4. QED BY <1>1, <3>1, <3>2, <3>3 DEF Adds
  <2>2. faults' \in 0 .. MaxFaults
    BY <1>3, ControlAssumption
  <2>3. /\ job' \in Jobs /\ job'.kind = "up" /\ job'.at \in {"deploy", "domain", "failed"}
        /\ job'.next = 1
        /\ IF job'.at = "deploy" THEN job'.url = fresh ELSE job'.url = 0
    <3>1. CASE Goto("domain")
      BY <1>1, <1>3, <3>1, GotoFacts DEF UpCalls, Moved
    <3>2. CASE Goto("failed")
      BY <1>1, <1>3, <3>2, GotoFacts DEF UpCalls, Moved
    <3>3. CASE job' = [job EXCEPT !.at = "deploy", !.url = fresh]
      BY <1>1, <3>3 DEF Jobs, UpCalls
    <3>4. QED BY <1>3, <3>1, <3>2, <3>3
  <2>4. UpHas' /\ job'.at \in UpCalls
    BY <1>1, <2>1, <2>3 DEF UpHas, UpCalls, Adds
  <2>5. LoopHas'
    BY <2>3 DEF LoopHas
  <2>6. QED BY <1>1, <2>1, <2>2, <2>3, <2>4, <2>5, AddingCore
<1>4. QED BY <1>2, <1>3 DEF EnsureDomain

LEMMA DeployCore ==
  ASSUME Core, Deploy, UNCHANGED <<prVars, controlVars>>
  PROVE  Core'
<1> USE DEF Core, Shapes, controlVars, prVars
<1>1. /\ job.kind = "up" /\ job.at = "deploy" /\ env.exists /\ fresh' = fresh
      /\ env.branch = Repo /\ env.pinned = Repo /\ job.url \in env.domains
      /\ job.next \in 1 .. 3
      /\ job.next > 1 => "redis" \in env.deployed
      /\ job.next > 2 => "worker" \in env.deployed
  BY DEF Deploy, At, UpHas, LoopHas
<1>2. /\ DEPLOY_ORDER[1] = "redis" /\ DEPLOY_ORDER[2] = "worker" /\ DEPLOY_ORDER[3] = "api"
      /\ Len(DEPLOY_ORDER) = 3 /\ "credential" \in UpCalls
  BY DEF DEPLOY_ORDER, UpCalls
<1>3. env' = [env EXCEPT !.deployed = @ \cup {DEPLOY_ORDER[job.next]}]
  BY DEF Deploy
<1>4. /\ job' \in Jobs /\ job'.kind = "up" /\ job'.url = job.url
      /\ \/ job.next < 3 /\ job'.at = "deploy" /\ job'.next = job.next + 1
         \/ ~(job.next < 3) /\ job'.at = "credential" /\ job'.next = 1
         \/ job'.at = "failed"
      /\ faults' \in 0 .. MaxFaults
  <2>1. LoopsOn(3, "credential")
    BY <1>2 DEF Deploy
  <2>2. QED BY <1>1, <1>2, <2>1, LoopsOnFacts
<1>5. /\ Adds /\ env'.branch = Repo /\ env'.pinned = Repo /\ env'.domains = env.domains
      /\ DEPLOY_ORDER[job.next] \in env'.deployed
  <2>1. DEPLOY_ORDER[job.next] \in Services
    BY <1>1, <1>2 DEF Services
  <2> DEFINE x == DEPLOY_ORDER[job.next]
  <2>2. env' = [env EXCEPT !.deployed = @ \cup {x}]
    BY <1>3
  <2> HIDE DEF x
  <2>3. /\ Adds /\ env'.branch = Repo /\ env'.pinned = Repo /\ env'.domains = env.domains
        /\ x \in env'.deployed
    BY <1>1, <2>1, <2>2 DEF Adds, x
  <2>4. QED BY <2>3 DEF x
<1>6. \/ /\ job'.at = "deploy" /\ job'.next \in 2 .. 3 /\ "redis" \in env'.deployed
         /\ job'.next > 2 => "worker" \in env'.deployed
      \/ job'.at = "credential" /\ job'.next = 1 /\ env'.deployed = Services
      \/ job'.at = "failed"
  BY <1>1, <1>2, <1>4, <1>5 DEF Adds, Services
<1>7. UpHas' /\ job'.at \in UpCalls
  <2>1. CASE job'.at = "failed"
    BY <1>1, <1>4, <1>5, <2>1 DEF UpHas, UpCalls
  <2>2. CASE job'.at # "failed"
    BY <1>1, <1>4, <1>5, <1>6, <2>2 DEF UpHas, Adds, UpCalls
  <2>3. QED BY <2>1, <2>2
<1>8. LoopHas'
  BY <1>4, <1>6 DEF LoopHas
<1>9. QED BY <1>1, <1>4, <1>5, <1>7, <1>8, AddingCore

LEMMA FindToDeleteCore ==
  ASSUME Core, FindToDelete, UNCHANGED <<prVars, controlVars>>
  PROVE  Core'
<1> USE DEF Core, Shapes, controlVars, prVars
<1>1. job.kind = "down" /\ env' = env /\ fresh' = fresh /\ faults' = faults
  BY DEF FindToDelete, At
<1>2. Moved(IF env.exists THEN "delete" ELSE "archive deployment")
  BY GotoFacts DEF FindToDelete, DownCalls
<1>3. Shapes'
  BY <1>1, <1>2 DEF Moved, DownCalls
<1>4. UpHas' /\ LoopHas' /\ DownHas' /\ DialsHome'
  BY <1>1, <1>2 DEF Moved, UpHas, LoopHas, DownHas, DialsHome
<1>5. QED BY <1>1, <1>3, <1>4

LEMMA DeleteEnvironmentCore ==
  ASSUME Core, DeleteEnvironment, UNCHANGED <<prVars, controlVars>>
  PROVE  Core'
<1> USE DEF Core, Shapes, controlVars, prVars
<1>1. job.kind = "down" /\ job.at = "delete" /\ env' = NoEnv /\ fresh' = fresh
  BY DEF DeleteEnvironment, At
<1>2. (Moved("archive deployment") \/ Moved("failed")) /\ faults' \in 0 .. MaxFaults
  BY GoesOnFacts DEF DeleteEnvironment, DownCalls
<1>3. NoEnv \in [exists: BOOLEAN, branch: SUBSET Repo, pinned: SUBSET Repo,
                 domains: SUBSET (Nat \ {0}), deployed: SUBSET Services]
  BY DEF NoEnv
<1>4. Shapes'
  BY <1>1, <1>2, <1>3 DEF Moved, DownCalls
<1>5. UpHas' /\ LoopHas' /\ DownHas' /\ DialsHome'
  BY <1>1, <1>2 DEF Moved, UpHas, LoopHas, DownHas, DialsHome, NoEnv
<1>6. QED BY <1>1, <1>2, <1>4, <1>5

-----------------------------------------------------------------------------
(* agentctl.py *)

LEMMA EnsureCredentialCore ==
  ASSUME Core, EnsureCredential, UNCHANGED <<prVars, env>>
  PROVE  Core'
<1> USE DEF Core, Shapes, prVars
<1>1. /\ job.kind = "up" /\ job.at = "credential" /\ env' = env /\ fresh' = fresh
      /\ agents' = agents /\ deployments' = deployments
      /\ credentials' = credentials \cup {job.url}
  BY DEF EnsureCredential, At
<1>2. (Moved("agent") \/ Moved("failed")) /\ faults' \in 0 .. MaxFaults
  BY GoesOnFacts DEF EnsureCredential, UpCalls
<1>3. Shapes'
  BY <1>1, <1>2 DEF Moved, UpCalls
<1>4. UpHas'
  BY <1>1, <1>2 DEF Moved, UpHas
<1>5. LoopHas' /\ DownHas' /\ DialsHome'
  BY <1>1, <1>2 DEF Moved, DownHas, DialsHome, LoopHas
<1>6. QED BY <1>1, <1>2, <1>3, <1>4, <1>5

LEMMA FindAgentCore ==
  ASSUME Core, FindAgent, UNCHANGED <<prVars, env>>
  PROVE  Core'
<1> USE DEF Core, Shapes, prVars, controlVars
<1>1. /\ job.kind = "up" /\ job.at = "agent" /\ env' = env /\ fresh' = fresh
      /\ agents' = agents /\ deployments' = deployments /\ credentials' = credentials
      /\ faults' = faults /\ job.next = 1
  BY DEF FindAgent, At, LoopHas
<1>2. /\ job' \in Jobs /\ job'.kind = "up" /\ job'.url = job.url /\ job'.next = 1
      /\ \/ job'.at = "create agent" /\ DOMAIN agents = {}
         \/ job'.at = "update agent" /\ job'.agent \in DOMAIN agents
  <2>1. CASE DOMAIN agents = {} /\ Goto("create agent")
    BY <1>1, <2>1, GotoFacts DEF UpCalls, Moved
  <2>2. ASSUME NEW a \in DOMAIN agents,
               job' = [job EXCEPT !.at = "update agent", !.agent = a,
                                  !.version = agents[a].version]
        PROVE  /\ job' \in Jobs /\ job'.kind = "up" /\ job'.url = job.url /\ job'.next = 1
               /\ job'.at = "update agent" /\ job'.agent = a
    <3>1. a \in Nat /\ agents[a].version \in Nat
      OBVIOUS
    <3>2. QED BY <1>1, <2>2, <3>1 DEF Jobs, UpCalls
  <2>3. QED BY <2>1, <2>2 DEF FindAgent
<1>3. Shapes'
  BY <1>1, <1>2 DEF UpCalls
<1>4. UpHas'
  BY <1>1, <1>2 DEF UpHas
<1>5. LoopHas' /\ DownHas' /\ DialsHome'
  BY <1>1, <1>2 DEF DownHas, DialsHome, LoopHas
<1>6. QED BY <1>1, <1>3, <1>4, <1>5

LEMMA CreateAgentCore ==
  ASSUME Core, CreateAgent, UNCHANGED <<prVars, env>>
  PROVE  Core'
<1> USE DEF Core, Shapes, prVars
<1>1. /\ job.kind = "up" /\ job.at = "create agent" /\ env' = env /\ fresh' = fresh + 1
      /\ deployments' = deployments /\ credentials' = credentials
      /\ DOMAIN agents = {} /\ job.url \in env.domains \cap credentials /\ job.next = 1
  BY DEF CreateAgent, At, UpHas, LoopHas
<1> DEFINE new == [url |-> job.url, version |-> 1]
<1>2. new \in [url: Nat, version: Nat] /\ new.url = job.url
  BY DEF Jobs
<1> HIDE DEF new
<1>3. /\ DOMAIN agents' = {fresh}
      /\ agents' \in [DOMAIN agents' -> [url: Nat, version: Nat]]
      /\ agents'[fresh] = new
  <2>1. agents' = With(agents, fresh, new)
    BY DEF CreateAgent, new
  <2>2. /\ DOMAIN With(agents, fresh, new) = DOMAIN agents \cup {fresh}
        /\ With(agents, fresh, new) \in [DOMAIN With(agents, fresh, new) -> [url: Nat, version: Nat]]
        /\ With(agents, fresh, new)[fresh] = new
    <3>1. agents \in [DOMAIN agents -> [url: Nat, version: Nat]]
      BY DEF Core, Shapes
    <3>2. QED BY ONLY <1>2, <3>1 DEF With
  <2>3. DOMAIN agents \cup {fresh} = {fresh}
    BY <1>1
  <2>4. QED BY <2>1, <2>2, <2>3
<1>4. /\ job' \in Jobs /\ job'.kind = "up" /\ job'.url = job.url /\ job'.next = 1
      /\ \/ job'.at = "deployment" /\ job'.agent = fresh
         \/ job'.at = "failed"
  <2>1. CASE job' = [job EXCEPT !.at = "deployment", !.agent = fresh]
    BY <1>1, <2>1 DEF Jobs, UpCalls
  <2>2. CASE Goto("failed")
    BY <1>1, <2>2, GotoFacts DEF UpCalls, Moved
  <2>3. QED BY <2>1, <2>2 DEF CreateAgent
<1>5. faults' \in 0 .. MaxFaults /\ fresh' \in Nat \ {0}
  <2>1. faults' = faults \/ (faults' = faults + 1 /\ faults < MaxFaults)
    BY ONLY CreateAgent DEF CreateAgent
  <2>2. faults' \in 0 .. MaxFaults
    BY <2>1, ControlAssumption
  <2>3. fresh' \in Nat \ {0}
    <3>1. fresh \in Nat \ {0}
      BY DEF Core, Shapes
    <3>2. fresh' = fresh + 1
      BY <1>1
    <3>3. QED BY ONLY <3>1, <3>2
  <2>4. QED BY <2>2, <2>3
<1>6. Shapes'
  BY <1>1, <1>3, <1>4, <1>5 DEF UpCalls
<1>7. UpHas'
  BY <1>1, <1>3, <1>4 DEF UpHas
<1>8. LoopHas' /\ DownHas' /\ DialsHome'
  BY <1>1, <1>2, <1>3, <1>4 DEF DownHas, DialsHome, LoopHas
<1>9. QED BY <1>1, <1>5, <1>6, <1>7, <1>8

\* Whoever writes a new version of an agent leaves its URL and the other agents alone.
LEMMA VersionFacts ==
  ASSUME agents \in [DOMAIN agents -> [url: Nat, version: Nat]], NEW a \in DOMAIN agents,
         agents' = [agents EXCEPT ![a].version = @ + 1]
  PROVE  /\ DOMAIN agents' = DOMAIN agents
         /\ agents' \in [DOMAIN agents' -> [url: Nat, version: Nat]]
         /\ \A b \in DOMAIN agents : agents'[b].url = agents[b].url
<1>1. agents[a] \in [url: Nat, version: Nat]
  OBVIOUS
<1>2. [agents[a] EXCEPT !.version = @ + 1] \in [url: Nat, version: Nat]
      /\ [agents[a] EXCEPT !.version = @ + 1].url = agents[a].url
  BY <1>1
<1>3. agents' = [agents EXCEPT ![a] = [agents[a] EXCEPT !.version = @ + 1]]
  OBVIOUS
<1>4. QED BY <1>2, <1>3

LEMMA UpdateAgentCore ==
  ASSUME Core, UpdateAgent, UNCHANGED <<prVars, env>>
  PROVE  Core'
<1> USE DEF Core, Shapes, prVars
<1>1. /\ job.kind = "up" /\ job.at = "update agent" /\ env' = env /\ fresh' = fresh
      /\ deployments' = deployments /\ credentials' = credentials
      /\ job.agent \in DOMAIN agents
  BY DEF UpdateAgent, At, UpHas
<1>2. /\ DOMAIN agents' = DOMAIN agents
      /\ agents' \in [DOMAIN agents' -> [url: Nat, version: Nat]]
      /\ \A b \in DOMAIN agents : agents'[b].url = agents[b].url
  <2>1. CASE agents' = agents
    BY <2>1
  <2>2. CASE agents' = [agents EXCEPT ![job.agent].version = @ + 1]
    BY <1>1, <2>2, VersionFacts
  <2>3. QED BY <2>1, <2>2 DEF UpdateAgent
<1>3. (Moved("deployment") \/ Moved("failed")) /\ faults' \in 0 .. MaxFaults
  <2>1. CASE GoesOn("deployment")
    BY <2>1, GoesOnFacts DEF UpCalls
  <2>2. CASE Goto("failed") /\ UNCHANGED faults
    BY <2>2, GotoFacts DEF UpCalls
  <2>3. QED BY <2>1, <2>2 DEF UpdateAgent
<1>4. Shapes'
  BY <1>1, <1>2, <1>3 DEF Moved, UpCalls
<1>5. UpHas'
  BY <1>1, <1>2, <1>3 DEF Moved, UpHas
<1>6. LoopHas' /\ DownHas' /\ DialsHome'
  BY <1>1, <1>2, <1>3 DEF Moved, DownHas, DialsHome, LoopHas
<1>7. QED BY <1>1, <1>3, <1>4, <1>5, <1>6

LEMMA UpsertDeploymentCore ==
  ASSUME Core, UpsertDeployment, UNCHANGED <<prVars, env>>
  PROVE  Core'
<1> USE DEF Core, Shapes, prVars
<1>1. /\ job.kind = "up" /\ job.at = "deployment" /\ env' = env /\ fresh' = fresh + 1
      /\ agents' = agents /\ credentials' = credentials
      /\ job.agent \in DOMAIN agents /\ job.agent \in Nat
  BY DEF UpsertDeployment, At, UpHas
<1>2. PICK d : /\ deployments' = With(deployments, d, job.agent)
               /\ DOMAIN deployments \subseteq {d}
  <2>1. CASE DOMAIN deployments = {} /\ deployments' = With(deployments, fresh, job.agent)
    BY <2>1
  <2>2. ASSUME NEW d \in DOMAIN deployments, deployments' = With(deployments, d, job.agent)
        PROVE  DOMAIN deployments \subseteq {d}
    OBVIOUS
  <2>3. QED BY <2>1, <2>2 DEF UpsertDeployment
<1>3. /\ DOMAIN deployments' = {d}
      /\ deployments' \in [DOMAIN deployments' -> Nat]
      /\ deployments'[d] = job.agent
  <2>1. /\ DOMAIN With(deployments, d, job.agent) = DOMAIN deployments \cup {d}
        /\ With(deployments, d, job.agent) \in [DOMAIN With(deployments, d, job.agent) -> Nat]
        /\ With(deployments, d, job.agent)[d] = job.agent
    <3>1. deployments \in [DOMAIN deployments -> Nat] /\ job.agent \in Nat
      BY <1>1 DEF Core, Shapes
    <3>2. QED BY ONLY <3>1 DEF With
  <2>2. DOMAIN deployments \cup {d} = {d}
    BY <1>2
  <2>3. QED BY <1>2, <2>1, <2>2
<1>4. (Moved("finished") \/ Moved("failed")) /\ faults' \in 0 .. MaxFaults
  BY GoesOnFacts DEF UpsertDeployment, UpCalls
<1>5. Shapes'
  <2>1. fresh' \in Nat \ {0}
    BY <1>1
  <2>2. job' \in Jobs /\ job'.kind = "up" /\ job'.at \in UpCalls
    BY <1>1, <1>4 DEF Moved, UpCalls
  <2>3. QED BY <1>1, <1>3, <2>1, <2>2
<1>6. UpHas'
  BY <1>1, <1>3, <1>4 DEF Moved, UpHas
<1>7. LoopHas' /\ DownHas' /\ DialsHome'
  BY <1>1, <1>4 DEF Moved, DownHas, DialsHome, LoopHas
<1>8. QED BY <1>1, <1>4, <1>5, <1>6, <1>7

LEMMA ArchiveDeploymentCore ==
  ASSUME Core, ArchiveDeployment, UNCHANGED <<prVars, env>>
  PROVE  Core'
<1> USE DEF Core, Shapes, prVars
<1>1. /\ job.kind = "down" /\ job.at = "archive deployment" /\ env' = env /\ fresh' = fresh
      /\ agents' = agents /\ credentials' = credentials
  BY DEF ArchiveDeployment, At
<1>2. (Moved("archive agent") \/ Moved("failed")) /\ faults' \in 0 .. MaxFaults
  BY GoesOnFacts DEF ArchiveDeployment, DownCalls
<1>3. deployments' = <<>>
  <2>1. CASE DOMAIN deployments = {} /\ deployments' = deployments
    <3>1. deployments = <<>>
      BY <2>1, EmptyIsNone
    <3>2. QED BY <2>1, <3>1
  <2>2. ASSUME NEW d \in DOMAIN deployments, deployments' = Without(deployments, d)
        PROVE  deployments' = <<>>
    <3>1. DOMAIN deployments = {d}
      OBVIOUS
    <3>2. QED BY <2>2, <3>1, WithoutFacts
  <2>3. QED BY <2>1, <2>2 DEF ArchiveDeployment
<1>4. deployments' \in [DOMAIN deployments' -> Nat] /\ DOMAIN deployments' = {}
  BY <1>3
<1>5. Shapes'
  BY <1>1, <1>2, <1>4 DEF Moved, DownCalls
<1>6. UpHas' /\ LoopHas' /\ DownHas' /\ DialsHome'
  BY <1>1, <1>2, <1>3 DEF Moved, UpHas, LoopHas, DownHas, DialsHome
<1>7. QED BY <1>1, <1>2, <1>5, <1>6

LEMMA ArchiveAgentCore ==
  ASSUME Core, ArchiveAgent, UNCHANGED <<prVars, env>>
  PROVE  Core'
<1> USE DEF Core, Shapes, prVars
<1>1. /\ job.kind = "down" /\ job.at = "archive agent" /\ env' = env /\ fresh' = fresh
      /\ deployments' = deployments /\ credentials' = credentials
  BY DEF ArchiveAgent, At
<1>2. (Moved("delete credentials") \/ Moved("failed")) /\ faults' \in 0 .. MaxFaults
  BY GoesOnFacts DEF ArchiveAgent, DownCalls
<1>3. agents' = <<>>
  <2>1. CASE DOMAIN agents = {} /\ agents' = agents
    <3>1. agents = <<>>
      BY <2>1, EmptyIsNone
    <3>2. QED BY <2>1, <3>1
  <2>2. ASSUME NEW a \in DOMAIN agents, agents' = Without(agents, a)
        PROVE  agents' = <<>>
    <3>1. DOMAIN agents = {a}
      OBVIOUS
    <3>2. QED BY <2>2, <3>1, WithoutFacts
  <2>3. QED BY <2>1, <2>2 DEF ArchiveAgent
<1>4. /\ agents' \in [DOMAIN agents' -> [url: Nat, version: Nat]]
      /\ DOMAIN agents' = {}
  BY <1>3
<1>5. Shapes'
  BY <1>1, <1>2, <1>4 DEF Moved, DownCalls
<1>6. UpHas' /\ LoopHas' /\ DownHas' /\ DialsHome'
  BY <1>1, <1>2, <1>3, <1>4 DEF Moved, UpHas, LoopHas, DownHas, DialsHome
<1>7. QED BY <1>1, <1>2, <1>5, <1>6

LEMMA DeleteCredentialsCore ==
  ASSUME Core, DeleteCredentials, UNCHANGED <<prVars, env>>
  PROVE  Core'
<1> USE DEF Core, Shapes, prVars
<1>1. /\ job.kind = "down" /\ job.at = "delete credentials" /\ env' = env /\ fresh' = fresh
      /\ agents' = agents /\ deployments' = deployments
  BY DEF DeleteCredentials, At
<1>2. /\ \/ Moved("finished") /\ credentials' = {}
         \/ Moved("delete credentials")
         \/ Moved("failed")
      /\ faults' \in 0 .. MaxFaults
  <2>1. CASE credentials = {} /\ Goto("finished") /\ UNCHANGED <<credentials, faults>>
    BY <2>1, GotoFacts DEF DownCalls
  <2>2. CASE GoesOn("delete credentials")
    BY <2>2, GoesOnFacts DEF DownCalls
  <2>3. QED BY <2>1, <2>2 DEF DeleteCredentials
<1>3. Shapes'
  BY <1>1, <1>2 DEF Moved, DownCalls
<1>4. env = NoEnv /\ ~env.exists
  <2>1. env = NoEnv
    BY <1>1 DEF DownHas
  <2>2. ~NoEnv.exists
    BY DEF NoEnv
  <2>3. QED BY <2>1, <2>2
<1>5. UpHas' /\ LoopHas' /\ DialsHome'
  BY <1>1, <1>2, <1>4 DEF Moved, UpHas, LoopHas, DialsHome
<1>6. DownHas'
  BY <1>1, <1>2 DEF Moved, DownHas
<1>7. QED BY <1>1, <1>2, <1>3, <1>5, <1>6

LEMMA OtherUpdateCore ==
  ASSUME Core, OtherUpdate, UNCHANGED <<prVars, env>>
  PROVE  /\ Core'
         /\ job' = job /\ deployments' = deployments /\ credentials' = credentials
         /\ DOMAIN agents' = DOMAIN agents
         /\ \A b \in DOMAIN agents : agents'[b].url = agents[b].url
         /\ agents # <<>>
<1> USE DEF Core, Shapes, prVars
<1>1. /\ job' = job /\ deployments' = deployments /\ credentials' = credentials
      /\ env' = env /\ fresh' = fresh
      /\ faults < MaxFaults /\ faults' = faults + 1
  BY DEF OtherUpdate
<1>2. PICK a \in DOMAIN agents : agents' = [agents EXCEPT ![a].version = @ + 1]
  BY DEF OtherUpdate
<1>3. /\ DOMAIN agents' = DOMAIN agents
      /\ agents' \in [DOMAIN agents' -> [url: Nat, version: Nat]]
      /\ \A b \in DOMAIN agents : agents'[b].url = agents[b].url
  BY <1>2, VersionFacts
<1>4. DOMAIN agents # {} /\ agents # <<>>
  BY <1>2
<1>5. faults' \in 0 .. MaxFaults
  BY <1>1, ControlAssumption
<1>6. Shapes'
  BY <1>1, <1>3 DEF Idle
<1>7. UpHas' /\ LoopHas' /\ DialsHome'
  <2>1. UpHas'
    BY <1>1, <1>3 DEF UpHas
  <2>2. LoopHas'
    BY <1>1 DEF LoopHas
  <2>3. DialsHome'
    BY <1>1, <1>3 DEF DialsHome
  <2>4. QED BY <2>1, <2>2, <2>3
<1>8. DownHas'
  BY <1>1, <1>4 DEF DownHas
<1>9. QED BY <1>1, <1>3, <1>4, <1>5, <1>6, <1>7, <1>8

-----------------------------------------------------------------------------
(* The concurrency group *)

LEMMA CallFailsCore ==
  ASSUME Core, CallFails
  PROVE  Core'
<1> USE DEF Core, Shapes, prVars, controlVars
<1>1. /\ env' = env /\ fresh' = fresh /\ agents' = agents /\ deployments' = deployments
      /\ credentials' = credentials /\ halfDown' = halfDown
      /\ faults < MaxFaults /\ faults' = faults + 1
  BY DEF CallFails
<1>2. Moved("failed")
  BY GotoFacts DEF CallFails, UpCalls
<1>3. faults' \in 0 .. MaxFaults
  BY <1>1, ControlAssumption
<1>4. job.kind \in {"up", "down"}
  BY DEF CallFails
<1>5. Shapes'
  BY <1>1, <1>2, <1>4 DEF Moved, UpCalls, DownCalls
<1>6. UpHas' /\ LoopHas' /\ DownHas' /\ DialsHome'
  BY <1>1, <1>2 DEF Moved, UpHas, LoopHas, DownHas, DialsHome
<1>7. QED BY <1>1, <1>3, <1>5, <1>6

\* A run that begins stands at its first call and has read nothing yet.
LEMMA RunFacts ==
  ASSUME NEW kind \in {"none", "up", "down", "skip"}
  PROVE  /\ Run(kind) \in Jobs /\ Run(kind).url = 0 /\ Run(kind).next = 1
         /\ kind \in {"up", "down"} => Run(kind).kind = kind /\ Run(kind).at = "find"
                                         /\ Run(kind) # NoJob
         /\ kind \notin {"up", "down"} => Run(kind) = NoJob /\ Run(kind).kind = "none"
  BY DEF Run, NoJob, Jobs, UpCalls

LEMMA BeginCore ==
  ASSUME Core, NEW kind \in {"none", "up", "down", "skip"}, job' = Run(kind),
         halfDown' \/ \A a \in DOMAIN agents : agents[a].url \in env.domains \cap credentials,
         UNCHANGED <<controlVars, fresh, faults, env>>
  PROVE  Core'
<1> USE DEF Core, Shapes, controlVars
<1>1. /\ env' = env /\ fresh' = fresh /\ agents' = agents /\ deployments' = deployments
      /\ credentials' = credentials /\ faults' = faults
  OBVIOUS
<1>2. Shapes'
  BY <1>1, RunFacts DEF Idle, UpCalls, DownCalls
<1>3. UpHas' /\ LoopHas'
  BY <1>1, RunFacts DEF UpHas, LoopHas, NoJob
<1>4. DownHas'
  BY <1>1, RunFacts DEF DownHas, NoJob
<1>5. DialsHome'
  BY <1>1 DEF DialsHome
<1>6. QED BY <1>1, <1>2, <1>3, <1>4, <1>5

\* What Core says of the types.
CoreTyped ==
    /\ env.branch \subseteq Repo /\ env.pinned \subseteq Repo
    /\ env.deployed \subseteq Services
    /\ job.kind \in {"none", "up", "down"}
    /\ Cardinality(DOMAIN agents) <= 1 /\ Cardinality(DOMAIN deployments) <= 1

LEMMA CoreTypes == Core => CoreTyped
<1> SUFFICES ASSUME Core PROVE CoreTyped
  OBVIOUS
<1>1. ASSUME NEW S, S = {} \/ (\E a \in S : S = {a}) PROVE Cardinality(S) <= 1
  <2>1. CASE S = {}
    <3>1. Cardinality(S) = 0
      BY <2>1, FS_EmptySet
    <3>2. QED BY <3>1
  <2>2. CASE \E a : S = {a}
    <3>1. Cardinality(S) = 1
      BY <2>2, FS_Singleton
    <3>2. QED BY <3>1
  <2>3. QED BY <1>1, <2>1, <2>2
<1>2. Cardinality(DOMAIN agents) <= 1 /\ Cardinality(DOMAIN deployments) <= 1
  BY <1>1 DEF Core, Shapes
<1>3. QED BY <1>2 DEF Core, Shapes, Jobs, CoreTyped

LEMMA CoreTypesNext == Core' => CoreTyped'
  BY CoreTypes, PTL

\* An event queues a run of its kind, at once or in the place of the one that waits.
LEMMA QueueStep ==
  ASSUME PreviewInv, NEW kind \in {"up", "down", "skip"}, Queue(kind),
         label' \in BOOLEAN, open' \in BOOLEAN
  PROVE  PreviewInv'
<1>1. /\ env' = env /\ fresh' = fresh /\ agents' = agents /\ deployments' = deployments
      /\ credentials' = credentials /\ faults' = faults /\ halfDown' = halfDown
      /\ eventCount' \in 0 .. MaxEvents
      /\ intent' = (IF kind = "skip" THEN intent ELSE kind)
      /\ fate' = (IF kind # "skip" THEN "queued" ELSE
                  IF pending \in {"up", "down"} THEN "superseded" ELSE fate)
  BY PreviewAssumption DEF Queue, controlVars, PreviewInv, PreviewTypeOK
<1>2. IF Idle THEN job' = Run(kind) /\ pending' = pending /\ pending = "none"
      ELSE pending' = kind /\ job' = job
  BY DEF Queue, PreviewInv, PreviewTypeOK
<1>3. Core'
  <2>1. CASE Idle
    <3>1. job.kind = "none"
      BY <2>1 DEF Idle, NoJob
    <3>2. QED BY <1>1, <1>2, <2>1, <3>1, BeginCore DEF PreviewInv, Core, DialsHome, controlVars
  <2>2. CASE ~Idle
    <3>1. job' = job
      BY <1>2, <2>2
    <3>2. Shapes'
      BY <1>1, <3>1 DEF PreviewInv, Core, Shapes, Idle
    <3>3. UpHas'
      BY <1>1, <3>1 DEF PreviewInv, Core, UpHas
    <3>4. LoopHas' /\ DownHas' /\ DialsHome'
      BY <1>1, <3>1 DEF PreviewInv, Core, LoopHas, DownHas, DialsHome
    <3>5. QED BY <1>1, <3>2, <3>3, <3>4 DEF PreviewInv, Core
  <2>3. QED BY <2>1, <2>2
<1>4. PreviewTypeOK'
  BY <1>1, <1>2, <1>3, CoreTypesNext DEF PreviewInv, PreviewTypeOK, Core, CoreTyped, Idle
<1>5. FateFits'
  <2>1. CASE Idle /\ kind # "skip"
    BY <1>1, <1>2, <2>1, RunFacts DEF FateFits
  <2>2. CASE Idle /\ kind = "skip"
    <3>1. job' = job /\ pending' = pending /\ intent' = intent /\ fate' = fate
      BY <1>1, <1>2, <2>2, RunFacts DEF Idle
    <3>2. QED BY <3>1 DEF PreviewInv, FateFits, Idle
  <2>3. CASE ~Idle
    BY <1>1, <1>2, <2>3 DEF PreviewInv, FateFits, Idle
  <2>4. QED BY <2>1, <2>2, <2>3
<1>6. fate' = "ok" => fate = "ok" /\ intent' = intent /\ Idle
  BY <1>1 DEF PreviewInv, FateFits
<1>7. TornDown' /\ UpIsWhole'
  BY <1>1, <1>6 DEF PreviewInv, TornDown, UpIsWhole
<1>8. QED BY <1>3, <1>4, <1>5, <1>7 DEF PreviewInv

LEMMA EventStep ==
  ASSUME PreviewInv, PrEvent
  PROVE  PreviewInv'
<1>1. label \in BOOLEAN /\ open \in BOOLEAN
  BY DEF PreviewInv, PreviewTypeOK
<1>2. label' \in BOOLEAN /\ open' \in BOOLEAN /\ \E kind \in {"up", "down", "skip"} : Queue(kind)
  BY <1>1 DEF PrEvent, AddLabel, RemoveLabel, OtherLabel, Close, Reopen
<1>3. QED BY <1>2, QueueStep

\* The end of a run decides the fate of the last event, if the run was that event's.
LEMMA RunEndsStep ==
  ASSUME PreviewInv, RunEnds
  PROVE  PreviewInv'
<1>1. /\ label' = label /\ open' = open /\ intent' = intent /\ eventCount' = eventCount
      /\ env' = env /\ fresh' = fresh /\ agents' = agents /\ deployments' = deployments
      /\ credentials' = credentials /\ faults' = faults
      /\ halfDown' = (IF job.kind = "down" THEN job.at = "failed" /\ (halfDown \/ ~env.exists)
                                           ELSE halfDown)
      /\ job.at \in {"finished", "failed"} /\ job' = Run(pending) /\ pending' = "none"
      /\ fate' = IF fate = "queued" /\ pending \notin {"up", "down"}
                 THEN IF job.at = "finished" THEN "ok" ELSE "failed"
                 ELSE fate
  BY DEF RunEnds, controlVars, At
<1>2. ~Idle
  BY <1>1 DEF Idle, NoJob
<1>3. pending \in {"none", "up", "down", "skip"} /\ halfDown \in BOOLEAN
  BY DEF PreviewInv, PreviewTypeOK
<1>4. halfDown' \/ \A a \in DOMAIN agents : agents[a].url \in env.domains \cap credentials
  <2>1. CASE job.kind = "down" /\ job.at = "finished"
    <3>1. agents = <<>>
      BY <2>1 DEF PreviewInv, Core, DownHas
    <3>2. QED BY <3>1
  <2>2. CASE job.kind = "down" /\ job.at = "failed"
    BY <1>1, <2>2 DEF PreviewInv, Core, DialsHome
  <2>3. CASE job.kind # "down"
    BY <1>1, <2>3 DEF PreviewInv, Core, DialsHome
  <2>4. QED BY <1>1, <2>1, <2>2, <2>3
<1>5. Core'
  BY <1>1, <1>3, <1>4, BeginCore DEF PreviewInv, controlVars
<1>6. PreviewTypeOK'
  BY <1>1, <1>3, <1>5, CoreTypesNext DEF PreviewInv, PreviewTypeOK, Core, CoreTyped, Idle
<1>7. fate # "ok"
  BY <1>2 DEF PreviewInv, FateFits
<1>8. FateFits'
  BY <1>1, <1>3, <1>7, RunFacts DEF PreviewInv, FateFits, Idle
<1>9. fate' = "ok" => job.kind = intent /\ intent # "none" /\ job.at = "finished"
  BY <1>1, <1>7 DEF PreviewInv, FateFits
<1>10. TornDown'
  BY <1>1, <1>9 DEF PreviewInv, Core, DownHas, TornDown
<1>11. UpIsWhole'
  <2>1. SUFFICES ASSUME job.kind = "up", job.at = "finished"
                 PROVE  /\ env.exists /\ env.branch = Repo /\ env.pinned = Repo
                        /\ env.deployed = Services
                        /\ env.domains \cap credentials # {}
                        /\ \E a \in DOMAIN agents, d \in DOMAIN deployments :
                              /\ deployments[d] = a
                              /\ agents[a].url \in env.domains \cap credentials \/ halfDown
    BY <1>1, <1>3, <1>9 DEF UpIsWhole
  <2>2. /\ env.exists /\ env.branch = Repo /\ env.pinned = Repo /\ env.deployed = Services
        /\ job.url \in env.domains \cap credentials
        /\ job.agent \in DOMAIN agents
        /\ \E d \in DOMAIN deployments : deployments[d] = job.agent
    BY <2>1 DEF PreviewInv, Core, UpHas
  <2>3. halfDown \/ agents[job.agent].url \in env.domains \cap credentials
    BY <2>1, <2>2 DEF PreviewInv, Core, DialsHome
  <2>4. QED BY <2>2, <2>3
<1>12. QED BY <1>5, <1>6, <1>8, <1>10, <1>11 DEF PreviewInv

-----------------------------------------------------------------------------
(* The steps of a run, and the theorems *)

\* No call changes the kind of its run.
LEMMA KindStays ==
  ASSUME job \in Jobs,
         \/ CallFails /\ job.kind # "none"
         \/ Find \/ CreateEnvironment \/ Detail \/ Retarget \/ Pin \/ EnsureDomain \/ Deploy
         \/ FindToDelete \/ DeleteEnvironment \/ ControlStep
  PROVE  job'.kind = job.kind /\ job.kind \in {"up", "down"}
<1>1. job.kind \in {"up", "down"}
  BY DEF Jobs, CallFails, Find, CreateEnvironment, Detail, Retarget, Pin, EnsureDomain, Deploy,
         FindToDelete, DeleteEnvironment, ControlStep, EnsureCredential, FindAgent, CreateAgent,
         UpdateAgent, UpsertDeployment, ArchiveDeployment, ArchiveAgent, DeleteCredentials, At
<1>2. \/ \E call : job' = [job EXCEPT !.at = call]
      \/ \E call, url : job' = [job EXCEPT !.at = call, !.url = url]
      \/ \E call, agent : job' = [job EXCEPT !.at = call, !.agent = agent]
      \/ \E call, agent, version :
            job' = [job EXCEPT !.at = call, !.agent = agent, !.version = version]
      \/ \E call, next : job' = [job EXCEPT !.next = next, !.at = call]
      \/ \E next : job' = [job EXCEPT !.next = next]
  <2>1. CASE CallFails \/ Find \/ CreateEnvironment \/ Retarget
    BY <2>1 DEF CallFails, Find, CreateEnvironment, Retarget, Goto, GoesOn
  <2>2. CASE Pin \/ Deploy
    BY <2>2 DEF Pin, Deploy, LoopsOn, Goto
  <2>3. CASE Detail \/ EnsureDomain
    BY <2>3 DEF Detail, EnsureDomain, Goto
  <2>4. CASE FindToDelete \/ DeleteEnvironment
    BY <2>4 DEF FindToDelete, DeleteEnvironment, Goto, GoesOn
  <2>5. CASE ControlStep
    <3>1. CASE FindAgent \/ CreateAgent
      BY <3>1 DEF FindAgent, CreateAgent, Goto
    <3>2. CASE EnsureCredential \/ UpdateAgent \/ UpsertDeployment
      BY <3>2 DEF EnsureCredential, UpdateAgent, UpsertDeployment, Goto, GoesOn
    <3>3. CASE ArchiveDeployment \/ ArchiveAgent \/ DeleteCredentials
      BY <3>3 DEF ArchiveDeployment, ArchiveAgent, DeleteCredentials, Goto, GoesOn
    <3>4. QED BY <2>5, <3>1, <3>2, <3>3 DEF ControlStep
  <2>6. QED BY <2>1, <2>2, <2>3, <2>4, <2>5
<1>3. job'.kind = job.kind
  BY <1>2 DEF Jobs
<1>4. QED BY <1>1, <1>3

\* While a run works, nothing is promised of what it leaves.
LEMMA WorkingStep ==
  ASSUME PreviewInv, Core', job'.kind = job.kind, job.kind \in {"up", "down"}, UNCHANGED prVars
  PROVE  PreviewInv'
<1>1. ~Idle /\ ~Idle'
  BY DEF Idle, NoJob
<1>2. /\ label' = label /\ open' = open /\ pending' = pending /\ intent' = intent
      /\ fate' = fate /\ halfDown' = halfDown /\ eventCount' = eventCount
  BY DEF prVars
<1>3. PreviewTypeOK'
  BY <1>1, <1>2, CoreTypesNext DEF PreviewInv, PreviewTypeOK, Core, CoreTyped
<1>4. FateFits'
  BY <1>1, <1>2 DEF PreviewInv, FateFits
<1>5. TornDown' /\ UpIsWhole'
  BY <1>1 DEF TornDown, UpIsWhole
<1>6. QED BY <1>3, <1>4, <1>5 DEF PreviewInv

LEMMA HostStepKeeps ==
  ASSUME PreviewInv, HostStep
  PROVE  PreviewInv'
<1>1. Core /\ job \in Jobs
  BY DEF PreviewInv, Core, Shapes
<1>2. UNCHANGED prVars /\ UNCHANGED <<prVars, controlVars>>
  BY DEF HostStep
<1>3. Core'
  BY <1>1, <1>2, FindCore, CreateEnvironmentCore, DetailCore, RetargetCore, PinCore,
     EnsureDomainCore, DeployCore, FindToDeleteCore, DeleteEnvironmentCore DEF HostStep
<1>4. job'.kind = job.kind /\ job.kind \in {"up", "down"}
  BY <1>1, KindStays DEF HostStep
<1>5. QED BY <1>2, <1>3, <1>4, WorkingStep

LEMMA AgentStepKeeps ==
  ASSUME PreviewInv, AgentStep
  PROVE  PreviewInv'
<1>1. Core /\ job \in Jobs
  BY DEF PreviewInv, Core, Shapes
<1>2. UNCHANGED prVars /\ UNCHANGED <<prVars, env>>
  BY DEF AgentStep
<1>3. Core'
  BY <1>1, <1>2, EnsureCredentialCore, FindAgentCore, CreateAgentCore, UpdateAgentCore,
     UpsertDeploymentCore, ArchiveDeploymentCore, ArchiveAgentCore, DeleteCredentialsCore
  DEF AgentStep, ControlStep
<1>4. job'.kind = job.kind /\ job.kind \in {"up", "down"}
  BY <1>1, KindStays DEF AgentStep
<1>5. QED BY <1>2, <1>3, <1>4, WorkingStep

LEMMA CallFailsKeeps ==
  ASSUME PreviewInv, CallFails
  PROVE  PreviewInv'
<1>1. Core /\ job \in Jobs
  BY DEF PreviewInv, Core, Shapes
<1>2. UNCHANGED prVars
  BY DEF CallFails
<1>3. job.kind # "none"
  BY <1>1 DEF PreviewInv, Core, Shapes, CallFails
<1>4. job'.kind = job.kind /\ job.kind \in {"up", "down"}
  BY <1>1, <1>3, KindStays
<1>5. QED BY <1>1, <1>2, <1>4, CallFailsCore, WorkingStep

\* An agent that is left after a down has not been torn down, and keeps its URL.
LEMMA OtherUpdateKeeps ==
  ASSUME PreviewInv, OtherUpdate, UNCHANGED <<prVars, env>>
  PROVE  PreviewInv'
<1>1. /\ Core'
      /\ job' = job /\ deployments' = deployments /\ credentials' = credentials
      /\ DOMAIN agents' = DOMAIN agents
      /\ \A b \in DOMAIN agents : agents'[b].url = agents[b].url
      /\ agents # <<>>
  BY OtherUpdateCore DEF PreviewInv
<1>2. /\ label' = label /\ open' = open /\ pending' = pending /\ intent' = intent
      /\ fate' = fate /\ halfDown' = halfDown /\ eventCount' = eventCount /\ env' = env
  BY DEF prVars
<1>3. PreviewTypeOK'
  BY <1>1, <1>2, CoreTypesNext DEF PreviewInv, PreviewTypeOK, Core, CoreTyped, Idle
<1>4. FateFits'
  BY <1>1, <1>2 DEF PreviewInv, FateFits, Idle
<1>5. TornDown'
  BY <1>1, <1>2 DEF PreviewInv, TornDown, Idle
<1>6. UpIsWhole'
  BY <1>1, <1>2 DEF PreviewInv, UpIsWhole, Idle
<1>7. QED BY <1>1, <1>3, <1>4, <1>5, <1>6 DEF PreviewInv

LEMMA StandingStill ==
  ASSUME PreviewInv, UNCHANGED previewVars
  PROVE  PreviewInv'
<1>1. /\ label' = label /\ open' = open /\ pending' = pending /\ intent' = intent
      /\ fate' = fate /\ halfDown' = halfDown /\ eventCount' = eventCount /\ env' = env
      /\ agents' = agents /\ deployments' = deployments /\ credentials' = credentials
      /\ fresh' = fresh /\ job' = job /\ faults' = faults
  BY DEF previewVars, prVars, controlVars
<1>2. Core'
  <2>1. Shapes'
    BY <1>1 DEF PreviewInv, Core, Shapes, Idle
  <2>2. UpHas'
    BY <1>1 DEF PreviewInv, Core, UpHas
  <2>3. LoopHas' /\ DownHas' /\ DialsHome'
    BY <1>1 DEF PreviewInv, Core, LoopHas, DownHas, DialsHome
  <2>4. QED BY <1>1, <2>1, <2>2, <2>3 DEF PreviewInv, Core
<1>3. PreviewTypeOK' /\ FateFits' /\ TornDown' /\ UpIsWhole'
  BY <1>1 DEF PreviewInv, PreviewTypeOK, FateFits, TornDown, UpIsWhole, Idle
<1>4. QED BY <1>2, <1>3 DEF PreviewInv

LEMMA InitPreviewInv == PreviewInit => PreviewInv
<1> SUFFICES ASSUME PreviewInit PROVE PreviewInv
  OBVIOUS
<1>1. Core /\ CoreTyped
  BY InitCore, CoreTypes
<1>2. PreviewTypeOK
  <2>1. /\ label \in BOOLEAN /\ open \in BOOLEAN /\ halfDown \in BOOLEAN
        /\ pending = "none" /\ intent = "none" /\ fate = "none"
        /\ eventCount \in 0 .. MaxEvents
    <3>1. eventCount = 0
      BY DEF PreviewInit
    <3>2. eventCount \in 0 .. MaxEvents
      BY <3>1, PreviewAssumption
    <3>3. label = FALSE /\ open = TRUE /\ halfDown = FALSE
      BY Zenon DEF PreviewInit
    <3>4. QED BY <3>2, <3>3 DEF PreviewInit
  <2>2. QED BY <1>1, <2>1 DEF PreviewTypeOK, Core, CoreTyped
<1>3. FateFits /\ TornDown /\ UpIsWhole
  BY DEF PreviewInit, FateFits, TornDown, UpIsWhole
<1>4. QED BY <1>1, <1>2, <1>3 DEF PreviewInv

LEMMA PreviewStepKeeps == PreviewInv /\ [PreviewNext]_previewVars => PreviewInv'
  BY EventStep, RunEndsStep, CallFailsKeeps, HostStepKeeps, AgentStepKeeps, OtherUpdateKeeps,
     StandingStill DEF PreviewNext

LEMMA PreviewInvHolds == PreviewSpec => []PreviewInv
  BY InitPreviewInv, PreviewStepKeeps, PTL DEF PreviewSpec

\* The state of the workflow, the environment and the vendors' objects is well-formed: one run
\* waits only while another runs, and there is at most one agent and one deployment of the name
\* (agentctl.py lists by name before it creates).
THEOREM PreviewTypesHold == PreviewSpec => []PreviewTypeOK
  BY PreviewInvHolds, PTL DEF PreviewInv

\* A down that succeeds leaves no environment, agent, deployment or credential behind, however many
\* ups and downs have failed at whichever call before it.
THEOREM NothingIsLeft == PreviewSpec => []TornDown
  BY PreviewInvHolds, PTL DEF PreviewInv

\* An up that succeeds leaves a whole preview, whatever it had to resume.
THEOREM APreviewIsWhole == PreviewSpec => []UpIsWhole
  BY PreviewInvHolds, PTL DEF PreviewInv
=============================================================================
