# TLA+ models of the RavenDB operator

The operator (Go, controller-runtime) keeps a RavenDB cluster on Kubernetes in
line with a `RavenDBCluster` resource. This directory models its admission
webhooks, its manifests, its reconcile loop, its rolling upgrade with the gates,
its health evaluation and the scripts of its bootstrapper Job, checks them with
TLC on small instances and proves their safety properties with TLAPS.

## 1. The system

| part | state it keeps | operations |
|---|---|---|
| reconcile loop (`internal/controller`) | the work queue of controller-runtime; status of the cluster | `Reconcile`: load, director, upgrader, collect, evaluate, patch the status |
| director (`pkg/director`) | none | run the per-cluster actors, or the actors of one node, and stop at the first error |
| per-cluster actors (`pkg/actor`) | Ingress, bootstrapper Job, hook ConfigMaps | apply, each under its `ShouldAct` |
| per-node actors (`pkg/actor`) | StatefulSet and Service of a node | apply, with the image frozen unless the StatefulSet carries the upgrade annotation |
| upgrader (`pkg/upgrade`) | the annotation on a StatefulSet; `status.nodes` | `Run`: select one node, gate, mark, apply, gate, clear |
| gates (`pkg/upgrade`) | none | HTTP checks: node alive, cluster connected, databases online; retried until a deadline |
| collector, evaluator (`pkg/health`) | none | list seven kinds of objects; derive conditions, `Ready` and the phase |
| bootstrapper scripts (`pkg/scripts`) | the RavenDB cluster itself | wait for pods, register the admin certificate, join the nodes |
| admission webhooks (`pkg/webhook`) | none | reject downgrades, changes of immutable fields and invalid specs |
| resource builders (`pkg/resource`) | none | turn the spec into manifests |

They meet in the API server. The operator writes StatefulSets, Services, the
Job, the Ingress and its own status; Kubernetes turns StatefulSets into pods;
the Job forms the cluster; changes of owned objects come back as events that
queue the next reconcile. Reads go through an informer cache, so the operator
may not see its own last write.

What is hard: a reconcile is a long sequence of reads and writes that can stop
anywhere (returned error, swallowed error, crash) and is repeated by whatever
event comes next; the gates look at a cluster that Kubernetes is changing at the
same time, and judge its databases by a report that may be older still; reads
may be stale; requests have no timeout; one reconcile creates or rolls one node only, so
progress depends on the next wake-up. The hazards, line by line, are in
`PROJECT.json`.

Correct means: one node at a time, in the order of the spec, never backwards
(upgrader); what a passed gate vouches for was so a short time ago, and waiting
for it is bounded (gates); an accepted spec can be built, applied and edited again, and versions
never go down (webhooks, builders); a completed Job has joined every node, and a
retry picks up what was left (scripts); nothing is reported that is not so
(statuses, conditions, phase); and the cluster reaches its spec in the end
(reconcile loop).

## 2. The modules

| module | models | uses |
|---|---|---|
| `NodeByNode` | what a rolling upgrade promises | |
| `RollingUpgrade` | `upgrader.Run`, per-node actors, StatefulSet controller | refines `NodeByNode` |
| `RollingUpgradeProofs` | types, order and one at a time, proved | `RollingUpgrade` |
| `RefinementProofs` | the refinement, proved | `RollingUpgradeProofs` |
| `AvailabilityProofs` | when databases stay online, proved | `RollingUpgradeProofs` |
| `LagProofs` | what survives a lagging cache, proved | `RollingUpgradeProofs` |
| `Gates`, `GatesProofs` | `wait` and the three gates, with a clock | |
| `Health` | the evaluator and the roll-up of the status | |
| `Reconciler`, `ReconcilerProofs` | the reconcile loop, per-cluster actors, collector, status | `Health` |
| `Admission` | the validators of the webhook | |
| `Manifests` | the resource builders | `Admission` |
| `Provisioning`, `ProvisioningProofs` | create and edit, webhook, reconcile, API server | `Manifests` |
| `Bootstrap`, `BootstrapProofs` | the two scripts of the bootstrapper Job | |
| `MCProvisioning`, `MCBootstrap` | instances: images, tags | |

**NodeByNode** is the abstract specification: nodes are created in order; then
one node at a time is taken up, once all nodes before it have the image, and
only the node that is taken up moves to a newer image.

**RollingUpgrade** models `upgrader.Run` with the per-node actors. `pc` is the
place in `Run`; each action is one read or write of the code together with the
branch that follows it, so a crash or a change of the world can fall between any
two. `sts` is the StatefulSet in the API server (image and annotation, 0 for
none), `seen` the informer's copy, from which `Annotated` and `Act` compute what
is written. `FindInFlight`, `FindMissing` and `FindMismatch` are the three scans
of `pickSelectedTag`; `Load` and `LoadMark` the two reads of the selected
StatefulSet; `preNode`/`postNode` the gates, with a failing twin each; `Clear`
runs after success and failure alike, and its error is ignored; `Statuses` is
what `Run` returns on each path and `Report` stores it. A failing write may or
may not have been carried out. A pod is down, loading or ok; images are numbers
from old to new. The gates of node and connectivity ask the pods; the one of the
databases reads `reported`, what RavenDB's observer last noted of each node
(`Observe`), however long ago. `MaxLag` says whether the cache may be a version
behind, and `ShortLag` that it is so for less time than a pod takes to change its
state and than the ten seconds of grace in `postNode`. Reads of a synced informer
cache do not fail; only `loadSTSByNodeTag`, whose error `Run` returns, has a
failing twin. It implements NodeByNode with the image of each StatefulSet as
`image` and the marked node as `active`.

Three conditions on the world are named beside the specification, because some
promises depend on them and no code waits for them: `Replaced` (the StatefulSet
controller has replaced every pod before the connectivity gate of a later run
passes), `Noticed` (the observer notices that a node is down before it is up
again; both together are `CarefulSpec`) and `MarkSeen` (the cache shows the mark
when `Act` reads the StatefulSet; `MarkSeenSpec`). Only theorems and the run
`slow_rollout` use them.

**Gates** takes one gate of RollingUpgrade apart: event, check, event, test of
the deadline, sleep, back-off, the next gate of the phase. Time passes in
requests, in sleeps, in the grace period and in the pause of 200 ms that `emit`
makes after each event (`EmitDelay`), and nowhere else. The databases are judged
by what the first node's observer saw last (`reported`), which may be `ReportLag`
old; one node that could not load a database fails the check although others
serve. A cancelled context ends a request and the grace period, but no
`time.Sleep`, neither that of the loop nor that of `emit`. The HTTP client has no
timeout: a request takes at most `MaxRequest` or hangs (`Hang`), and then only a
cancelled context ends it (`Abort`). `timing` has the defaults or what the
annotations say, a non-positive value counting as none. A gate's error for an
empty URL is left out: the CRD demands URLs.

**Health** has one operator per `eval...` function, `ComputeReady` and
`UpdatePhaseFromConditions`, over sets of facts. Conditions keep status and
reason.

**Reconciler** extends Health with `Reconcile`: the queue (`queued`; an event
during a reconcile queues the cluster again), the per-cluster actors, one run of
the upgrader as one step (what RollingUpgrade shows step by step: create the
first missing node, or roll the first that differs, or nothing), the seven
lists in their order, evaluation and patch. `Run` builds the gates' client first
(`buildGates`) and refuses to do anything while the client's secret is missing
(`RunRefused`). Errors of the director and of the patch are returned and
requeue; those of `Run` and `Collect` are swallowed. The reconcile reads its own
status from the cache: `seen` is that copy, whether the Job is applied depends on
it (`IsBootstrapped`), and the patch writes only the fields in which the new
status differs from it (`Merged`). `blind` says that the last reconcile failed to
list or read an outdated status. Pods, PVCs and secrets do not wake the operator:
they are not owned by the cluster. Secrets come and go without an event
(`AddSecret`, `RemoveSecret`); a pod's change reaches the operator only when the
StatefulSet controller has recorded it, in a step of its own (`RecordStatus`),
which may come late or sum up several changes. The lists show objects as they
are; only the status may be read outdated.

**Admission** has one operator per rule, and `RunCreate`, `RunUpdate` run them
as the webhook does. A spec is a record; an image is its form, its build and its
version, a sequence of numbers, read by `Atoi`, which turns a number beyond
`MaxInt` into `MaxInt` (the code ignores its range error); what a secret holds is one of five kinds (with
the file names the operator expects, with others, with several files, with
foreign ones, absent).

**Manifests** builds StatefulSets, Services, the Ingress and the Job from such a
spec, keeps what depends on it, and says where a builder dereferences nil
(`...Panics`).

**Provisioning** puts the two together: the user creates and edits a cluster and
its secrets, and a reconcile, here one step, applies what the builders make, one
node each, until it panics or is rejected. The API server rejects names used
twice (`Collides`), changed immutable fields (`ClaimsChange`, `JobRejected`) and
names with upper-case letters, which tags may have (`ValidTag`); an Ingress that
is rejected keeps the Job and the nodes from being applied.

**Bootstrap** has one action per step of `check-nodes-discoverability.sh` and
`init-cluster.sh`, each with its exits, and the container that is restarted
until the backoff limit. No `curl` has a time limit: a request may hang
(`Hang`), after or before it was carried out, and nothing but the connection's
end (`Break`) frees the script. `fronted` says that an ingress or proxy redirects
requests for a node that does not answer, which the reachability check logs and
passes. Beside it the operator creates the nodes one by one and nodes start,
serve and fail, with their pods or within them (`LosePod`, `FailNode`). The limit can also cut off an attempt
(`GiveUp`: the Job's controller counts pods and restarts at its own pace). What
RavenDB answers when a member is joined again is not in the repository: `rejoin`
is either. The leader's own tag is chosen by the server and left out; failing to
install the tools is folded into the step that first needs them.

In every module `Troubles` and `MaxTrouble` choose and bound the failures, and
operators introduced by "Mutation" are variants with a plausible bug, which the
properties detect when put in place of the original; no specification uses them.

## 3. The runs

| run | checks | instance |
|---|---|---|
| `upgrade` | `TypeOK`, `AtMostOneInFlight`, `NoRollback`, `UpgradesInSpecOrder`, `UpgradesNodeByNode`, `Converges` | 2 nodes, 3 images, any 1 trouble, fresh reads, `FairSpec` |
| `lagging_cache` | `NoRollback` | 2 nodes, 3 images, cache one version behind (`ShortLag`), a crash or node failure |
| `gate_wait` | `TypeOK`, `WaitBounded`, `CancelBounded`, `PassMeansServing`, `PhaseEndsUnlessHung` | 2 nodes, a replicated and a single database, default and overlong timings, one node changes its state |
| `admission` | `TypeOK`, `ValidIsBuildable`, `MountedIsExpected`, `NeverLockedOut`, `FreshIsAccepted`, `NeverDowngraded` | valid first specs of 2 nodes in both modes, 7 images, 2 edits of any field and of any secret |
| `bootstrap` | `TypeOK`, `CompletedMeansFormed`, `JoinsWaitForAll`, `JobEndsUnlessHung`, `RetryCompletes` | 3 nodes, any 2 failed or hanging requests or lost nodes, with and without a proxy |
| `reconcile_status` | `TypeOK`, `StatusIsAccurate`, `RunningMeansFormed` | 2 nodes with an Ingress, any 1 trouble except a failed Job |
| `reconcile_liveness` | `Settles` | 1 node with a load balancer, 2 images, a swallowed error, an outdated status or a failed Job, `FairSpec` |
| `slow_rollout` | `DatabasesStayOnline`, violated | 2 nodes, no trouble, `NoticedSpec` |
| `unseen_mark` | `SuccessMeansRolled`, violated | 2 nodes, no trouble, cache one version behind |
| `resume_failed` | `ResumesFromSameNode`, violated | 2 nodes, no trouble |
| `bootstrap_wedge` | `MatchesSpec`, violated | 1 node, 2 images, `FairSpec` |
| `spec_drift` | `SpecReachesNodes`, violated | 2 images, one edit of the access, `FairSpec` |

Bounds. Two nodes are enough for order, for one-at-a-time and for "the next
node"; three with overlapping databases make each node the only other replica of
some database, and three make a Job that can stop between two joins. Three
images allow a second change while the first is in flight. One trouble in the
upgrade and in the reconcile is one failure of any kind at any step, and every
safety property is proved for any number of them; two troubles of the Job allow
a failure during the retry after a failure. Two edits make a spec valid, then
something else, then something else again; the images have versions with two and
three numbers, of two builds, none, and numbers beyond `MaxInt`, which is 100 in
the run. `RestartThreshold` is 5 in the code and 1 in the runs, the rounds of
waiting for pods 30 and 2, the backoff limit 3 and 2: only reaching them matters.
The durations of Gates are in units of one pause; the annotation of 5 exceeds the
cap of the back-off and both maximal waits, which is where the first sleep
overruns them.

Fairness. The operator goes on because errors requeue, owned objects raise
events, and the informers' resync (ten hours by default) hands owned objects out
again. In RollingUpgrade that is weak fairness of the operator's next step, of
the StatefulSet controller and pod of each node, and of RavenDB's observer. In
Reconciler the resync is an action of its own (`Resync`) that happens again and
again: `Settles` needs it, because a swallowed error, a missing secret at `Run`
included, raises no event. Kubernetes eventually starts pods, binds volumes and
allocates addresses; the user eventually provides the secrets. In Gates the loop
and time go on and the observer looks again; in Bootstrap the container runs.
In neither is anything assumed of a request that hangs, nor in Bootstrap of the
nodes. In Provisioning the reconcile is repeated, also after a panic, which
controller-runtime recovers and turns into an error. Failures are never fair.

`CHECK_DEADLOCK FALSE` where the system may stop: a cluster that matches its
spec leaves nothing to do (Reconciler), gates and Jobs end (Gates, Bootstrap),
and edits are bounded (Provisioning).

### What does not hold

Five runs show the code at odds with its documentation; each stops at a
counterexample.

- `slow_rollout`: nothing waits for the StatefulSet controller. The post-gates
  can pass on the old pod, the next node is rolled, and both are down at once.
  An observer's report from before the rollout has the same effect when the
  controller is in time: with `ReplacedSpec` in place of `NoticedSpec` the run
  finds that behaviour.
- `unseen_mark`: `Act` reads the StatefulSet from the cache right after `Run`
  has patched the mark. If the cache does not show it yet the image is frozen,
  the post-gates pass on the old pod and the node is reported upgraded.
- `resume_failed`: a node that fails its post-gates loses the annotation and
  already has the new image, so the next run goes on with the next node.
- `bootstrap_wedge`: raising the image before the bootstrap is recorded makes
  every later reconcile fail at the immutable Job, also when it has completed.
- `spec_drift`: a node is selected only when its StatefulSet is missing or has
  another image; other edits that the webhook admits reach no node.

What the passing runs except or assume, for the same kind of reason:

- A Service whose first apply fails is never applied again, so `Converges` is
  conditional on the Services being there.
- Stale reads of StatefulSets: besides `unseen_mark`, a later run that still sees
  the cleared mark rolls the node without gates. `AtMostOneInFlight`,
  `UpgradesInSpecOrder`, `UpgradesNodeByNode` and `Converges` need fresh reads;
  `NoRollback` survives a short lag unless writes fail too, and any lag if `Act`
  sees the mark.
- A request of a gate that is accepted and never answered keeps the phase, and
  with it the only worker of the operator, until the operator is shut down; one
  of the scripts keeps the Job active. `PhaseEndsUnlessHung`,
  `JobEndsUnlessHung` and `WaitBounded` say so.
- Behind an ingress or proxy that redirects requests for a missing node, the
  script joins nodes before all of them exist: `JoinsWaitForAll` is about
  clusters without one. `CompletedMeansFormed` holds behind one too.
- Six of the nine conditions rest on pods, PVCs or secrets, among them `Ready`.
  A secret that is removed, for one, raises no event, and `CertificatesReady` and
  `Ready` stay True until something else starts a reconcile. `StatusIsAccurate` is
  about the three that rest on owned objects (`OwnedConditions`).
- A patch computed from an outdated status leaves phase and conditions from
  different reconciles until the next one; `StatusIsAccurate` is about reconciles
  that read the last status, `Settles` shows that the mixture does not stay.
- With Traefik no Ingress exists, `ExternalAccessReady` stays False and the phase
  never becomes Running. `Settles` is checked with a load balancer.
- Numbers of a version that do not fit into an int are all read as the largest
  one, so a downgrade between two such versions is admitted; `NeverDowngraded` is
  about versions that can be read.
- Nothing keeps upper-case letters out of tags, and the API server rejects the
  objects that are named after them; `FreshIsAccepted` excepts such tags.
- An update is checked for immutable fields only. It can take away what the
  builders dereference, and every reconcile then panics; it can change volume
  claims, which the API server never accepts. Hence `ValidIsBuildable`,
  `MountedIsExpected` and `FreshIsAccepted` speak of specs that could be, or have
  just been, created.
- A create accepts a tag without a version, and no later update can be compared
  with it; `NeverLockedOut` excepts it.
- Names and paths of the user may collide with those of the builders
  (`ChoosesNames` in `FreshIsAccepted`).
- Certificates are accepted under any file name, while the upgrader and the Job's
  script read fixed ones; the script then fails in every attempt
  (`RetryCompletes` assumes the fixed names).
- The script names a member by the first letter of its host, while tags may have
  four characters: two tags with a common first letter cannot both be joined
  (`RetryCompletes` is checked for tags of one letter).

## 4. The proofs

Every invariant and every action property of the passing runs, and the
refinement, is a theorem: TLC checks it on the instance of section 3, TLAPS
proves it for every value of the constants. What `slow_rollout` and `unseen_mark`
refute is proved under the conditions that are missing there. The constants are
restricted by the named assumptions of the modules only (sizes are positive,
databases are placed on nodes, bounds are numbers, a tag has a letter), which TLC
evaluates on every run; what a theorem assumes beyond them is in its statement.

| module | theorem | states | assuming |
|---|---|---|---|
| `RollingUpgradeProofs` | `TypeCorrect` | `TypeOK` | |
| | `OneInFlight` | `AtMostOneInFlight` | `MaxLag = 0` |
| | `NeverRollsBack`, `InSpecOrder` | `NoRollback`, `UpgradesInSpecOrder` | `MaxLag = 0` |
| `RefinementProofs` | `ImplementsNodeByNode` | `UpgradesNodeByNode` | `MaxLag = 0` |
| `AvailabilityProofs` | `StaysOnline` | `DatabasesStayOnline` | `MaxLag = 0`, no node fails by itself, `CarefulSpec` |
| `LagProofs` | `NeverRollsBackLagging` | `NoRollback` | `ShortLag`, no failing writes |
| | `SuccessIsRolled`, `NeverRollsBackSeen` | `SuccessMeansRolled`, `NoRollback` | `MarkSeenSpec` |
| `GatesProofs` | `TypeCorrect`, `WaitIsBounded`, `CancelIsBounded`, `PassVouches` | `TypeOK`, `WaitBounded`, `CancelBounded`, `PassMeansServing` | |
| `BootstrapProofs` | `TypeCorrect`, `CompletedIsFormed`, `NoEarlyJoin` | `TypeOK`, `CompletedMeansFormed`, `JoinsWaitForAll` | |
| `ReconcilerProofs` | `TypeCorrect`, `RunningIsFormed`, `NoLostWakeup` | `TypeOK`, `RunningMeansFormed`, `StatusIsAccurate` | |
| `ProvisioningProofs` | `TypeCorrect`, `ValidNeverPanics`, `FreshNeverRejected` | `TypeOK`, `ValidIsBuildable`, `FreshIsAccepted` | |
| | `MountsAreExpected`, `AlwaysEditable`, `VersionsOnlyRise` | `MountedIsExpected`, `NeverLockedOut`, `NeverDowngraded` | |

Section 3 says what the code does without the hypotheses. Every inductive
invariant was first checked by TLC on a small instance.

**Upgrade, fresh reads.** Typing goes first (`TypeInv` adds which `pc` has a
selected node and a wanted image). The safety properties share one inductive
invariant, `FreshInv`, because none is inductive alone. One-in-flight needs to
know that when a node is about to be marked no other is (`OthersUnmarked`),
which the scan for a marked node establishes and which stays true only because
every later step writes the selected node. No-rollback needs all images bounded
by `want` and `want` by the spec (`ImagesBounded`). Order needs that
while a node is gated and about to be marked every earlier node of the spec
already has the wanted image (`InOrder`).
Actions that leave the operator's writes alone are dismissed by `QuietStep`,
writes of one node by `WriteStep`.

**Refinement.** NodeByNode creates a node only after those before it and takes
up only an outdated node of a complete cluster. Run decides that in its scans and
acts on it many steps later, so `Chosen` carries the decision: a run that is
going to mark a node found all nodes in existence and this one outdated, one
that is going to create a node found the earlier ones. Then marking maps to
taking up, an apply to creating, moving or nothing, clearing to letting go, a
change of the image in the spec to the same, and all else, failures and crashes
included, to stuttering (`StepMaps`).

**Availability.** "Some node serves" is not inductive: what must be carried from
the database gate to the moment the pod goes down is that every replicated
database has a serving node *other than* the one in flight. `AvailInv` says so of
every node that is marked, about to be marked, or about to have its pod replaced
(`SelectedSpared`, `MarkedSpared`). The gate itself sees only the report, which
may be outdated about nodes that are down (`Watched`, from `Noticed`); no node is,
and no pod is about to be replaced, when the gate of the databases is reached
(`CalmGate`, from the connectivity gate and `Replaced`). That at most one pod is
about to be replaced is `OneRolling`.

**Lagging cache.** The danger is a copy in the cache that shows a node unmarked
and with an image it no longer has (`Misread`), for `Act` would write that image
back. The proof attempt showed that such copies do come about: when an upgrade is
resumed on a mark that is cleared already, and when a node that is not seen yet
is created a second time. What saves the node is that its pod does not answer
before the cache has caught up (`MisreadDown`, from `ShortLag`), so the first
gate fails and no write is based on that copy (`ReadRight`). A crash or a failing
node does not disturb the argument. A write that fails although it is carried out
does: it ends the run without the wait of the post-gates, and the next run may
pass its gates on the old pod while the cache is still behind.

For success another argument is needed, without any bound on the lag. If `Act`
sees the mark it writes the wanted image (`Given`), and nothing older is written
later, because an apply without an upgrade is never based on a copy with an
image that the node no longer has (`PlainReadRight`).
A failing write does not disturb this one, since it no longer depends on when
runs end (`SeenInv`).

**Gates.** `Budget` counts the time still to pass in a sleep, a request or a
pause as spent: a sleep starts before the deadline, a request after a sleep, an
event after a request, so a gate ends within its maximal wait, a request, a sleep
and two pauses unless a request hangs. `Overtime` does the same from the
cancellation on, where only pauses and the sleep in progress can still pass.
`Reports` and `Answered` follow a positive answer back to its origin: the
observer saw the node ok, the answer was made from that report, and both were at
most `ReportLag` and `MaxRequest` old, to which the pause after the event is
added.

**Bootstrap.** `JoinedSoFar` says that the nodes before the one about to be
joined are members, across attempts that failed or hung after a join was carried
out, and whatever the check of the URLs was worth; that the index of a join is a
node is `Counting`. For `NoEarlyJoin`: the wait for pods can be passed although
none runs, since a failing `kubectl` prints nothing; without a proxy the check of
the URLs guarantees, node by node, that the nodes exist (`Checked`, with
`PodsInOrder`: what answers has been created). Pods may be lost behind the check,
StatefulSets are not.

**Reconciler.** `RunningIsFormed` survives patches computed from an outdated
status, because a phase is Running only if the lists of that reconcile showed a
completed Job and a completed Job stays so (`Formed`). `NoLostWakeup` needs that
while no event has queued the cluster again the lists of StatefulSets, Jobs,
Services and Ingresses still say what they would say now (`ListsFresh`), that a
reconcile which was not blind works on the stored status (`ClearSight`), and
hence that the three conditions it stores are those of the objects
(`StatusFresh`). Pods, PVCs and secrets change unnoticed meanwhile, and the lists
of them mix several moments; no condition of the three depends on them. Lemmas on
`ComputeReady` and on the evaluators (`ReadyRollUp`, `EvaluateFacts`,
`PhaseFacts`) are about Health alone.

**Provisioning.** `Admitted` is what every admission checks and no later step
undoes, judged with the secrets in place (`IntactSuffices`: what a check accepts
with some secrets missing it accepts with all of them); `Fresh` is that until the
first update spec and objects are those of the create. The rest are lemmas on the
operators: `CreatableBuilds` (no builder dereferences nil on a creatable spec),
`PlainAccepted` (no name is used twice), `PodMounts` and `JobMounts` (what is
mounted is expected), `AtoiReads` and `ParsedVersion` (a version that fits is
read as it is, a number that does not as `MaxInt`), `CompareTriples` and
`CompareIsOrder` (`compareSemver` on parsed versions is the lexicographic order
of what was read). The theorems hold for any images and any number of edits,
`VersionsOnlyRise` from any version that fits into an int to one of any size; the
values of the other fields are those the module's edits choose from, one or two
nodes included.

Only model-checked: the liveness properties `Converges`, `PhaseEndsUnlessHung`,
`JobEndsUnlessHung`, `RetryCompletes` and `Settles`, which are out of the
prover's reach, and the five counterexamples of section 3. Only proved:
`StaysOnline` and `SuccessIsRolled`.


## 5. Not modelled

- Deletion of a cluster: left to garbage collection through owner references.
- Events and log lines, of conditions and of gates: output that nothing reads
  back. The pause after an event of a gate is modelled.
- Objects other than the status read outdated by the collector, and nodes with
  several roles in a database.
- Certificate hook scripts: run by RavenDB in its pods, when and how often is
  decided there; they keep no state of the operator.
- Labels, ports, annotations, resources and fixed names of the manifests; the
  messages and times of conditions.
- API types and generated code: data declarations.
- The start of the operator (`cmd/main.go`): flags and wiring.

## 6. Plan

Done: all modules of section 2 with their runs, and the theorems of section 4.
Next:

1. What NodeByNode promises (one node taken up, images only rise, creation in
   order) as invariants and theorems of NodeByNode itself, which RollingUpgrade
   then has by the refinement instead of by its own proofs.
2. The step of the upgrader in Reconciler is RollingUpgrade's run in one step:
   state the relation between the two.
3. Safety halves of the liveness properties, for example that a step of the
   retried Job never loses a member.
4. A bound on how long conditions that rest on pods, PVCs and secrets may be
   outdated, in terms of the resync.
