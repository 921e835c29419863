--------------------------- MODULE ReleaseProofs ---------------------------
(***************************************************************************)
(* Proofs about Release, for any services, images and files, whatever      *)
(* number of deploys stop half way or go back.                             *)
(***************************************************************************)
EXTENDS Release, TLAPS

-----------------------------------------------------------------------------
(* The inductive invariant *)

\* What each step of a deploy may rely on: until its files are applied, what is neither recorded
\* nor pending is not its image's; from then on all of them are recorded.
DeployOK(s) ==
  LET d == deploy[s] IN
  /\ d.at \in {"read", "apply", "record", "alembic", "serve"} => d.image \in Images
  /\ d.at \in {"read", "apply", "record", "alembic"} => Script[s] # "none"
  /\ d.at \in {"apply", "record"} => Files[d.image] \ recorded \subseteq d.pending
  /\ d.at = "record" => \A v \in Upcoming(s) : v \in NoTxn /\ effects[v] >= 1
  /\ d.at = "alembic" => Files[d.image] \subseteq recorded
  /\ d.at = "serve" =>
       /\ Script[s] # "none" => Files[d.image] \subseteq recorded
       /\ Script[s] = "upgrade" => revision >= HeadOf[d.image]

DeployInv == \A s \in Services : DeployOK(s)

IInv == ReleaseTypeOK /\ DeployInv /\ TakesEffectOnce /\ CodeHasItsSchema

LEMMA Constants ==
  /\ LastImage \in Nat \ {0}
  /\ Images \subseteq Nat \ {0}
  /\ HeadOf \in [Images -> Nat]
  /\ MaxStops \in Nat
  /\ Versions \subseteq Nat
  /\ \A k \in Images : Files[k] \subseteq Versions
  BY ReleaseAssumption DEF Images, Versions

LEMMA InitIInv == ReleaseInit => IInv
  BY Constants
  DEF ReleaseInit, IInv, ReleaseTypeOK, DeployInv, DeployOK, TakesEffectOnce, CodeHasItsSchema,
      Steps, Images, Upcoming

-----------------------------------------------------------------------------
(* Its preservation *)

\* A step of one deploy, which leaves the others' alone, keeps what they rely on: records and
\* effects are only added to, and the revision only grows.
LEMMA OthersAreKept ==
  ASSUME NEW t \in Services, DeployOK(t), UNCHANGED deploy[t],
         deploy[t].pending \subseteq Versions,
         effects \in [Versions -> Nat], effects' \in [Versions -> Nat],
         revision \in Nat, revision' \in Nat,
         recorded \subseteq recorded',
         \A v \in Versions : effects[v] <= effects'[v],
         revision <= revision'
  PROVE  DeployOK(t)'
<1>1. Upcoming(t)' = Upcoming(t) /\ Upcoming(t) \subseteq Versions
  BY DEF Upcoming
<1>2. deploy[t].at = "record" => \A v \in Upcoming(t)' : v \in NoTxn /\ effects'[v] >= 1
  BY <1>1 DEF DeployOK
<1>3. ASSUME deploy[t].at = "serve", Script[t] = "upgrade"
      PROVE  revision' >= HeadOf[deploy[t].image]
  <2>1. deploy[t].image \in Images /\ revision >= HeadOf[deploy[t].image]
    BY <1>3 DEF DeployOK
  <2>2. HeadOf[deploy[t].image] \in Nat
    BY <2>1, Constants
  <2> QED
    BY <2>1, <2>2
<1> QED
  BY <1>2, <1>3 DEF DeployOK

\* What a service serves stays on its schema.
LEMMA ServedIsKept ==
  ASSUME ReleaseTypeOK, CodeHasItsSchema,
         UNCHANGED serving, revision' \in Nat,
         recorded \subseteq recorded', revision <= revision'
  PROVE  CodeHasItsSchema'
<1> SUFFICES ASSUME NEW s \in Services, serving[s] # 0
             PROVE  /\ Script[s] # "none" => Files[serving[s]] \subseteq recorded'
                    /\ Script[s] = "upgrade" => revision' >= HeadOf[serving[s]]
  BY DEF CodeHasItsSchema
<1>1. serving[s] \in Images
  BY Constants DEF ReleaseTypeOK, Images
<1>2. HeadOf[serving[s]] \in Nat /\ revision \in Nat
  BY <1>1, Constants DEF ReleaseTypeOK
<1> QED
  BY <1>2 DEF CodeHasItsSchema

LEMMA TypeFacts ==
  ASSUME ReleaseTypeOK
  PROVE  /\ recorded \subseteq Versions
         /\ effects \in [Versions -> Nat]
         /\ revision \in Nat
         /\ newest \in Images
         /\ newest \in Nat
         /\ stops \in Nat
         /\ \A s \in Services :
              /\ serving[s] \in 0 .. newest
              /\ deploy[s].at \in Steps
              /\ deploy[s].image \in 0 .. newest
              /\ deploy[s].pending \subseteq Versions
              /\ deploy[s] = [at |-> deploy[s].at, image |-> deploy[s].image,
                              pending |-> deploy[s].pending]
  BY Constants DEF ReleaseTypeOK

\* What a step of one deploy makes of them all.
OneDeploy(s) ==
  /\ deploy' \in [Services -> [at : Steps, image : 0 .. newest, pending : SUBSET Versions]]
  /\ \A t \in Services \ {s} : deploy'[t] = deploy[t]
  /\ deploy'[s].at = "record" => Upcoming(s)' \subseteq NoTxn

\* A step that only takes one deploy to another place, where it may be.
LEMMA OnlyMoves ==
  ASSUME IInv, NEW s \in Services, OneDeploy(s),
         UNCHANGED <<schemaVars, newest, serving>>,
         stops' \in 0 .. MaxStops,
         DeployOK(s)'
  PROVE  IInv'
<1> USE DEF IInv
<1>1. ReleaseTypeOK'
  <2>1. \A t \in Services : deploy'[t].at = "record" => Upcoming(t)' \subseteq NoTxn
    BY DEF ReleaseTypeOK, Upcoming, OneDeploy
  <2> QED
    BY <2>1 DEF ReleaseTypeOK, schemaVars, OneDeploy
<1>2. DeployInv'
  <2> SUFFICES ASSUME NEW t \in Services, t # s PROVE DeployOK(t)'
    BY DEF DeployInv
  <2> QED
    BY TypeFacts, OthersAreKept DEF ReleaseTypeOK, DeployInv, schemaVars, OneDeploy
<1>3. TakesEffectOnce' /\ CodeHasItsSchema'
  BY DEF TakesEffectOnce, CodeHasItsSchema, schemaVars
<1> QED
  BY <1>1, <1>2, <1>3

\* A step of one deploy that records something, or takes the schema further.
LEMMA SchemaGrows ==
  ASSUME IInv, NEW s \in Services, OneDeploy(s),
         UNCHANGED <<newest, serving, stops>>,
         recorded \subseteq recorded', recorded' \subseteq Versions,
         effects' \in [Versions -> Nat],
         \A v \in Versions : effects[v] <= effects'[v],
         revision' \in {0} \cup {HeadOf[k] : k \in Images}, revision <= revision',
         DeployOK(s)', TakesEffectOnce'
  PROVE  IInv'
<1> USE DEF IInv
<1>1. ReleaseTypeOK'
  <2>1. \A t \in Services : deploy'[t].at = "record" => Upcoming(t)' \subseteq NoTxn
    BY DEF ReleaseTypeOK, Upcoming, OneDeploy
  <2> QED
    BY <2>1 DEF ReleaseTypeOK, OneDeploy
<1>2. revision' \in Nat
  BY Constants
<1>3. DeployInv'
  <2> SUFFICES ASSUME NEW t \in Services, t # s PROVE DeployOK(t)'
    BY DEF DeployInv
  <2> QED
    BY <1>2, TypeFacts, OthersAreKept DEF DeployInv, OneDeploy
<1>4. CodeHasItsSchema'
  BY <1>2, ServedIsKept
<1> QED
  BY <1>1, <1>3, <1>4

-----------------------------------------------------------------------------
(* Action by action *)

LEMMA PushStep == IInv /\ Push => IInv'
<1> SUFFICES ASSUME IInv, Push PROVE IInv'
  OBVIOUS
<1> USE DEF IInv, Push
<1>1. newest' \in Images /\ newest \in Nat /\ newest' = newest + 1
  BY TypeFacts DEF ReleaseTypeOK
<1>2. 0 .. newest \subseteq 0 .. newest'
  BY <1>1
<1>3. ReleaseTypeOK'
  <2>1. serving' \in [Services -> 0 .. newest']
    BY <1>2 DEF ReleaseTypeOK
  <2>2. deploy' \in [Services -> [at : Steps, image : 0 .. newest', pending : SUBSET Versions]]
    BY <1>2 DEF ReleaseTypeOK
  <2> QED
    BY <1>1, <2>1, <2>2 DEF ReleaseTypeOK, schemaVars, Upcoming
<1> QED
  BY <1>3 DEF DeployInv, DeployOK, TakesEffectOnce, CodeHasItsSchema, schemaVars, Upcoming

\* StartDeploy, of an image that there is.
LEMMA StartStep ==
  ASSUME IInv, NEW s \in Services, NEW k \in 1 .. newest, StartDeploy(s, k),
         UNCHANGED <<schemaVars, newest, serving>>, stops' \in 0 .. MaxStops
  PROVE  IInv'
<1> DEFINE at == IF Script[s] = "none" THEN "serve" ELSE "read"
<1>1. at \in Steps /\ at # "record" /\ k \in 0 .. newest /\ k \in Images
  BY TypeFacts, Constants DEF Steps, IInv, Images
<1>2. deploy'[s] = [at |-> at, image |-> k, pending |-> {}]
  BY DEF IInv, ReleaseTypeOK, StartDeploy
<1>3. OneDeploy(s)
  BY <1>1, <1>2 DEF OneDeploy, IInv, ReleaseTypeOK, StartDeploy
<1>4. DeployOK(s)'
  BY <1>1, <1>2, ReleaseAssumption DEF DeployOK
<1> HIDE DEF at
<1> QED
  BY <1>3, <1>4, OnlyMoves

LEMMA DeploysStep ==
  ASSUME IInv, NEW s \in Services, Deploys(s)
  PROVE  IInv'
<1>1. newest \in 1 .. newest /\ stops' \in 0 .. MaxStops
  BY TypeFacts, Constants DEF IInv, ReleaseTypeOK, Deploys
<1> QED
  BY <1>1, StartStep DEF Deploys

LEMMA GoesBackStep ==
  ASSUME IInv, NEW s \in Services, GoesBack(s)
  PROVE  IInv'
<1>1. PICK k \in 1 .. serving[s] - 1 : StartDeploy(s, k)
  BY DEF GoesBack
<1>2. k \in 1 .. newest
  <2>1. newest \in Nat /\ serving[s] \in 0 .. newest
    BY TypeFacts DEF IInv
  <2>2. k \in Int /\ 1 <= k /\ k <= serving[s] - 1
    BY <2>1
  <2> QED
    BY <2>1, <2>2
<1>3. stops' \in 0 .. MaxStops
  BY Constants DEF IInv, ReleaseTypeOK, GoesBack
<1> QED
  BY <1>1, <1>2, <1>3, StartStep DEF GoesBack

\* A deploy that fails owes nothing.
LEMMA FailsStep ==
  ASSUME IInv, NEW s \in Services, Fails(s),
         UNCHANGED <<schemaVars, newest, serving>>, stops' \in 0 .. MaxStops
  PROVE  IInv'
<1>1. deploy'[s].at = "failed" /\ OneDeploy(s)
  BY DEF IInv, ReleaseTypeOK, OneDeploy, Fails, Goto, Steps
<1>2. DeployOK(s)'
  BY <1>1 DEF DeployOK
<1> QED
  BY <1>1, <1>2, OnlyMoves

LEMMA StopsStep ==
  ASSUME IInv, NEW s \in Services, Stops(s)
  PROVE  IInv'
<1>1. stops' \in 0 .. MaxStops
  BY Constants DEF IInv, ReleaseTypeOK, Stops
<1> QED
  BY <1>1, FailsStep DEF Stops

LEMMA ReadsStep ==
  ASSUME IInv, NEW s \in Services, Reads(s)
  PROVE  IInv'
<1> DEFINE d == deploy[s]
<1>1. d.image \in Images /\ Script[s] # "none"
  BY DEF IInv, DeployInv, DeployOK, Reads
<1>2. Pending(d.image) \in SUBSET Versions
  BY <1>1, Constants DEF Pending
<1>3. /\ deploy'[s].at = "apply" /\ deploy'[s].image = d.image
      /\ deploy'[s].pending = Pending(d.image)
  BY DEF IInv, ReleaseTypeOK, Reads
<1>4. OneDeploy(s)
  BY <1>2, <1>3 DEF IInv, ReleaseTypeOK, OneDeploy, Steps, Reads
<1>5. DeployOK(s)'
  <2> HIDE DEF d
  <2> QED
    BY <1>1, <1>3 DEF DeployOK, Pending, Reads, schemaVars
<1>6. stops' \in 0 .. MaxStops
  BY DEF IInv, ReleaseTypeOK, Reads
<1> HIDE DEF d
<1> QED
  BY <1>4, <1>5, <1>6, OnlyMoves DEF Reads

LEMMA MigratedStep ==
  ASSUME IInv, NEW s \in Services, Migrated(s)
  PROVE  IInv'
<1> DEFINE d == deploy[s]
           at == IF Script[s] = "upgrade" THEN "alembic" ELSE "serve"
<1>1. d.image \in Images /\ Script[s] # "none" /\ Files[d.image] \subseteq recorded
  BY DEF IInv, DeployInv, DeployOK, Migrated
<1>2. deploy'[s].at = at /\ deploy'[s].image = d.image
  BY DEF IInv, ReleaseTypeOK, Migrated, Goto
<1>3. OneDeploy(s)
  BY <1>2 DEF IInv, ReleaseTypeOK, OneDeploy, Steps, Migrated, Goto
<1>4. DeployOK(s)'
  <2> HIDE DEF d
  <2> QED
    BY <1>1, <1>2 DEF DeployOK, Migrated, schemaVars
<1>5. stops' \in 0 .. MaxStops
  BY DEF IInv, ReleaseTypeOK, Migrated
<1> HIDE DEF d, at
<1> QED
  BY <1>3, <1>4, <1>5, OnlyMoves DEF Migrated

\* A file in one transaction with its record: it has not taken effect before, or nothing of it stays.
LEMMA AppliesStep ==
  ASSUME IInv, NEW s \in Services, Applies(s)
  PROVE  IInv'
<1> DEFINE d == deploy[s]
<1>1. d.image \in Images /\ Script[s] # "none" /\ Files[d.image] \ recorded \subseteq d.pending
  BY DEF IInv, DeployInv, DeployOK, Applies
<1>2. stops' \in 0 .. MaxStops
  BY DEF IInv, ReleaseTypeOK, Applies
<1>3. PICK v \in Upcoming(s) :
        /\ InTxn(v)
        /\ \/ /\ v \notin recorded
              /\ TakesEffect(v)
              /\ recorded' = recorded \cup {v}
              /\ deploy' = [deploy EXCEPT ![s].pending = @ \ {v}]
           \/ /\ v \in recorded
              /\ Fails(s)
              /\ UNCHANGED <<effects, recorded>>
  BY DEF Applies
<1>4. v \in Versions /\ v \in d.pending /\ v \notin NoTxn
  BY <1>3, TypeFacts DEF IInv, Upcoming, InTxn
<1>5. CASE v \in recorded
  <2>1. Fails(s) /\ UNCHANGED <<effects, recorded>>
    BY <1>3, <1>5
  <2> QED
    BY <1>2, <2>1, FailsStep DEF Applies, schemaVars
<1>6. CASE v \notin recorded
  <2>1. /\ effects' = [effects EXCEPT ![v] = @ + 1]
        /\ recorded' = recorded \cup {v}
        /\ deploy' = [deploy EXCEPT ![s].pending = @ \ {v}]
    BY <1>3, <1>6 DEF TakesEffect
  <2>2. effects[v] = 0
    BY <1>4, <1>6 DEF IInv, TakesEffectOnce
  <2>3. /\ effects' \in [Versions -> Nat]
        /\ \A w \in Versions : effects[w] <= effects'[w]
    BY <2>1, <2>2, <1>4, TypeFacts DEF IInv
  <2>4. TakesEffectOnce'
    BY <2>1, <2>2, <1>4, TypeFacts DEF IInv, TakesEffectOnce
  <2>5. deploy'[s].at = "apply" /\ deploy'[s].image = d.image /\ deploy'[s].pending = d.pending \ {v}
    BY <2>1 DEF IInv, ReleaseTypeOK, Applies
  <2>6. OneDeploy(s)
    BY <2>1, <2>5 DEF IInv, ReleaseTypeOK, OneDeploy, Steps, Applies
  <2>7. DeployOK(s)'
    <3> HIDE DEF d
    <3> QED
      BY <1>1, <2>1, <2>5 DEF DeployOK
  <2>8. recorded' \subseteq Versions /\ recorded \subseteq recorded'
    BY <2>1, <1>4, TypeFacts DEF IInv
  <2>9. revision' \in {0} \cup {HeadOf[k] : k \in Images} /\ revision <= revision'
    BY TypeFacts DEF IInv, ReleaseTypeOK, Applies
  <2> HIDE DEF d
  <2> QED
    BY <2>3, <2>4, <2>6, <2>7, <2>8, <2>9, SchemaGrows DEF Applies
<1> QED
  BY <1>5, <1>6

\* A file without a transaction takes effect and owes its record, or cannot be repeated and fails.
LEMMA ExecutesStep ==
  ASSUME IInv, NEW s \in Services, Executes(s)
  PROVE  IInv'
<1> DEFINE d == deploy[s]
<1>1. d.image \in Images /\ Script[s] # "none" /\ Files[d.image] \ recorded \subseteq d.pending
  BY DEF IInv, DeployInv, DeployOK, Executes
<1>2. CASE Fails(s) /\ UNCHANGED effects
  <2>1. stops' \in 0 .. MaxStops
    BY DEF IInv, ReleaseTypeOK, Executes
  <2> QED
    BY <1>2, <2>1, FailsStep DEF Executes, schemaVars
<1>3. CASE \E v \in Upcoming(s) : v \in NoTxn /\ TakesEffect(v) /\ Goto(s, "record")
  <2>1. PICK v \in Upcoming(s) : v \in NoTxn /\ effects' = [effects EXCEPT ![v] = @ + 1] /\ Goto(s, "record")
    BY <1>3 DEF TakesEffect
  <2>2. v \in Versions
    BY <2>1, TypeFacts DEF IInv, Upcoming
  <2>3. /\ effects' \in [Versions -> Nat]
        /\ \A w \in Versions : effects[w] <= effects'[w]
        /\ effects'[v] >= 1
    BY <2>1, <2>2, TypeFacts DEF IInv
  <2>4. TakesEffectOnce'
    BY <2>1, <2>2, TypeFacts DEF IInv, TakesEffectOnce, Executes
  <2>5. deploy'[s].at = "record" /\ deploy'[s].image = d.image /\ deploy'[s].pending = d.pending
    BY <2>1 DEF IInv, ReleaseTypeOK, Executes, Goto
  <2>6. \A w \in Upcoming(s)' : w = v
    <3> SUFFICES ASSUME NEW w \in Upcoming(s)' PROVE w = v
      OBVIOUS
    <3>1. w \in d.pending /\ w <= v /\ v <= w
      BY <2>1, <2>5 DEF Upcoming
    <3>2. w \in Nat /\ v \in Nat
      BY <3>1, <2>2, TypeFacts, Constants DEF IInv
    <3> QED
      BY <3>1, <3>2
  <2>7. OneDeploy(s)
    BY <2>1, <2>5, <2>6 DEF IInv, ReleaseTypeOK, OneDeploy, Steps, Executes, Goto
  <2>8. DeployOK(s)'
    <3> HIDE DEF d
    <3> QED
      BY <1>1, <2>1, <2>3, <2>5, <2>6 DEF DeployOK, Executes
  <2>9. revision' \in {0} \cup {HeadOf[k] : k \in Images} /\ revision <= revision'
    BY TypeFacts DEF IInv, ReleaseTypeOK, Executes
  <2> HIDE DEF d
  <2> QED
    BY <2>3, <2>4, <2>7, <2>8, <2>9, TypeFacts, SchemaGrows DEF Executes, IInv
<1> QED
  BY <1>2, <1>3 DEF Executes, InTxn

\* The record of a file that has taken effect.
LEMMA RecordsStep ==
  ASSUME IInv, NEW s \in Services, Records(s)
  PROVE  IInv'
<1> DEFINE d == deploy[s]
<1>1. /\ d.image \in Images /\ Script[s] # "none" /\ Files[d.image] \ recorded \subseteq d.pending
      /\ \A v \in Upcoming(s) : v \in NoTxn /\ effects[v] >= 1
  BY DEF IInv, DeployInv, DeployOK, Records
<1>2. stops' \in 0 .. MaxStops
  BY DEF IInv, ReleaseTypeOK, Records
<1>3. PICK v \in Upcoming(s) :
        \/ /\ v \notin recorded
           /\ recorded' = recorded \cup {v}
           /\ deploy' = [deploy EXCEPT ![s].at = "apply", ![s].pending = @ \ {v}]
        \/ /\ v \in recorded
           /\ Fails(s)
           /\ UNCHANGED recorded
  BY DEF Records
<1>4. v \in Versions /\ v \in d.pending
  BY <1>3, TypeFacts DEF IInv, Upcoming
<1>5. CASE v \in recorded
  <2>1. Fails(s) /\ UNCHANGED recorded
    BY <1>3, <1>5
  <2> QED
    BY <1>2, <2>1, FailsStep DEF Records, schemaVars
<1>6. CASE v \notin recorded
  <2>1. /\ recorded' = recorded \cup {v}
        /\ deploy' = [deploy EXCEPT ![s].at = "apply", ![s].pending = @ \ {v}]
    BY <1>3, <1>6
  <2>2. TakesEffectOnce'
    BY <1>1, <1>3, <1>4, <2>1, TypeFacts DEF IInv, TakesEffectOnce, Records
  <2>3. deploy'[s].at = "apply" /\ deploy'[s].image = d.image /\ deploy'[s].pending = d.pending \ {v}
    BY <2>1 DEF IInv, ReleaseTypeOK
  <2>4. OneDeploy(s)
    BY <2>1, <2>3 DEF IInv, ReleaseTypeOK, OneDeploy, Steps, Records
  <2>5. DeployOK(s)'
    <3> HIDE DEF d
    <3> QED
      BY <1>1, <2>1, <2>3 DEF DeployOK
  <2>6. recorded' \subseteq Versions /\ recorded \subseteq recorded'
    BY <2>1, <1>4, TypeFacts DEF IInv
  <2>7. effects' \in [Versions -> Nat] /\ \A w \in Versions : effects[w] <= effects'[w]
    BY TypeFacts DEF IInv, Records
  <2>8. revision' \in {0} \cup {HeadOf[k] : k \in Images} /\ revision <= revision'
    BY TypeFacts DEF IInv, ReleaseTypeOK, Records
  <2> HIDE DEF d
  <2> QED
    BY <2>2, <2>4, <2>5, <2>6, <2>7, <2>8, SchemaGrows DEF Records
<1> QED
  BY <1>5, <1>6

LEMMA UpgradesAlembicStep ==
  ASSUME IInv, NEW s \in Services, UpgradesAlembic(s)
  PROVE  IInv'
<1> DEFINE d == deploy[s]
           head == HeadOf[d.image]
<1>1. d.image \in Images /\ Files[d.image] \subseteq recorded
  BY DEF IInv, DeployInv, DeployOK, UpgradesAlembic
<1>2. stops' \in 0 .. MaxStops
  BY DEF IInv, ReleaseTypeOK, UpgradesAlembic
<1>3. revision \in Nat /\ head \in Nat
  BY <1>1, TypeFacts, Constants DEF IInv
<1>4. CASE revision > head
  <2>1. Fails(s) /\ UNCHANGED revision
    BY <1>3, <1>4 DEF UpgradesAlembic
  <2> QED
    BY <1>2, <2>1, FailsStep DEF UpgradesAlembic, schemaVars
<1>5. CASE revision <= head
  <2>1. revision' = head /\ Goto(s, "serve")
    BY <1>3, <1>5 DEF UpgradesAlembic
  <2>2. deploy'[s].at = "serve" /\ deploy'[s].image = d.image
    BY <2>1 DEF IInv, ReleaseTypeOK, Goto
  <2>3. OneDeploy(s)
    BY <2>1, <2>2 DEF IInv, ReleaseTypeOK, OneDeploy, Steps, Goto
  <2>4. revision' \in {0} \cup {HeadOf[k] : k \in Images} /\ revision <= revision'
    BY <1>1, <1>5, <2>1
  <2> HIDE DEF d
  <2>5. DeployOK(s)'
    BY <1>1, <1>3, <2>1, <2>2 DEF DeployOK, UpgradesAlembic
  <2>6. TakesEffectOnce'
    BY DEF IInv, TakesEffectOnce, UpgradesAlembic
  <2>7. effects' \in [Versions -> Nat] /\ \A w \in Versions : effects[w] <= effects'[w]
    BY TypeFacts DEF IInv, UpgradesAlembic
  <2> QED
    BY <2>3, <2>4, <2>5, <2>6, <2>7, TypeFacts, SchemaGrows DEF IInv, UpgradesAlembic
<1> QED
  BY <1>3, <1>4, <1>5

\* The image a deploy has prepared comes to be served: what was owed for it is there.
LEMMA ServesStep ==
  ASSUME IInv, NEW s \in Services, Serves(s)
  PROVE  IInv'
<1> DEFINE d == deploy[s]
<1>1. /\ d.image \in Images
      /\ Script[s] # "none" => Files[d.image] \subseteq recorded
      /\ Script[s] = "upgrade" => revision >= HeadOf[d.image]
  BY DEF IInv, DeployInv, DeployOK, Serves
<1>2. serving' = [serving EXCEPT ![s] = d.image] /\ UNCHANGED <<schemaVars, newest, stops>>
  BY DEF Serves
<1>3. deploy'[s].at = "idle" /\ \A t \in Services \ {s} : deploy'[t] = deploy[t]
  BY DEF IInv, ReleaseTypeOK, Serves, Goto
<1>4. ReleaseTypeOK'
  <2>1. serving' \in [Services -> 0 .. newest]
    BY <1>2, TypeFacts DEF IInv, ReleaseTypeOK
  <2>2. deploy' \in [Services -> [at : Steps, image : 0 .. newest, pending : SUBSET Versions]]
    BY DEF IInv, ReleaseTypeOK, Serves, Goto, Steps
  <2>3. \A t \in Services : deploy'[t].at = "record" => Upcoming(t)' \subseteq NoTxn
    BY <1>3 DEF IInv, ReleaseTypeOK, Upcoming
  <2> QED
    BY <1>2, <2>1, <2>2, <2>3 DEF IInv, ReleaseTypeOK, schemaVars
<1>5. DeployInv'
  <2>1. DeployOK(s)'
    BY <1>3 DEF DeployOK
  <2>2. ASSUME NEW t \in Services, t # s PROVE DeployOK(t)'
    <3>1. DeployOK(t) /\ UNCHANGED deploy[t]
      BY <1>3, <2>2 DEF IInv, DeployInv
    <3>2. /\ deploy[t].pending \subseteq Versions
          /\ effects \in [Versions -> Nat] /\ revision \in Nat
      BY TypeFacts DEF IInv
    <3>3. recorded' = recorded /\ effects' = effects /\ revision' = revision
      BY <1>2 DEF schemaVars
    <3>4. \A v \in Versions : effects[v] <= effects'[v]
      BY <3>2, <3>3
    <3> QED
      BY <3>1, <3>2, <3>3, <3>4, OthersAreKept
  <2> QED
    BY <2>1, <2>2 DEF DeployInv
<1>6. CodeHasItsSchema'
  <2> SUFFICES ASSUME NEW t \in Services, serving'[t] # 0
               PROVE  /\ Script[t] # "none" => Files[serving'[t]] \subseteq recorded
                      /\ Script[t] = "upgrade" => revision >= HeadOf[serving'[t]]
    BY <1>2 DEF CodeHasItsSchema, schemaVars
  <2>1. CASE t = s
    <3>1. serving'[t] = d.image
      BY <1>2, <2>1 DEF IInv, ReleaseTypeOK
    <3> QED
      BY <1>1, <2>1, <3>1
  <2>2. CASE t # s
    <3>1. serving'[t] = serving[t]
      BY <1>2, <2>2 DEF IInv, ReleaseTypeOK
    <3> QED
      BY <3>1 DEF IInv, CodeHasItsSchema
  <2> QED
    BY <2>1, <2>2
<1>7. TakesEffectOnce'
  BY <1>2 DEF IInv, TakesEffectOnce, schemaVars
<1> QED
  BY <1>4, <1>5, <1>6, <1>7 DEF IInv

LEMMA NextStep == IInv /\ [ReleaseNext]_releaseVars => IInv'
<1> SUFFICES ASSUME IInv, [ReleaseNext]_releaseVars PROVE IInv'
  OBVIOUS
<1>1. CASE Push
  BY <1>1, PushStep
<1>2. ASSUME NEW s \in Services, DeployStep(s) \/ Stops(s) \/ GoesBack(s)
      PROVE  IInv'
  BY <1>2, DeploysStep, ServesStep, ReadsStep, AppliesStep, ExecutesStep, RecordsStep,
     MigratedStep, UpgradesAlembicStep, StopsStep, GoesBackStep
  DEF DeployStep
<1>3. CASE UNCHANGED releaseVars
  BY <1>3 DEF IInv, ReleaseTypeOK, DeployInv, DeployOK, TakesEffectOnce, CodeHasItsSchema,
              Upcoming, releaseVars, schemaVars
<1> QED
  BY <1>1, <1>2, <1>3 DEF ReleaseNext

-----------------------------------------------------------------------------
(* The theorems *)

LEMMA InvariantHolds == ReleaseSpec => []IInv
  BY InitIInv, NextStep, PTL DEF ReleaseSpec

\* The state has its type: among it, that only a file that is marked is ever between its statements
\* and its record (migrate.py's two branches).
THEOREM ReleaseTypeCorrect == ReleaseSpec => []ReleaseTypeOK
  BY InvariantHolds, PTL DEF IInv

\* However many services apply migrations at once, stop half way and begin again, a file that runs in
\* a transaction takes effect once exactly, and is recorded: what migrate.py promises.
THEOREM OnceOnly == ReleaseSpec => []TakesEffectOnce
  BY InvariantHolds, PTL DEF IInv

\* No service that has a preDeploy serves an image whose files, or whose Alembic revision if it is
\* the API, the database lacks.
THEOREM SchemaFirst == ReleaseSpec => []CodeHasItsSchema
  BY InvariantHolds, PTL DEF IInv
=============================================================================
