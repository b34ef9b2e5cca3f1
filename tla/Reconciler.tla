----------------------------- MODULE Reconciler -----------------------------
(***************************************************************************)
(* The reconcile loop of a RavenDBCluster (internal/controller): the work  *)
(* queue and the watches that feed it, the director with its per-cluster   *)
(* actors, a run of the upgrader (abstracted to what it leaves behind; the *)
(* module RollingUpgrade has its steps), the collector, which lists one    *)
(* kind of object after another, the evaluator (module Health) and the     *)
(* status patch.                                                           *)
(*                                                                         *)
(* Beside it run the user, the StatefulSet controller, the bootstrapper    *)
(* Job, the load balancers and the nodes. Only objects that the cluster    *)
(* owns wake the operator up: pods belong to their StatefulSets, secrets   *)
(* to the user and PVCs to nobody, so their changes do not. A pod's change *)
(* does so later, once the StatefulSet controller has recorded it.         *)
(***************************************************************************)
EXTENDS Health, Sequences

CONSTANTS
    N,             \* number of nodes in spec.nodes
    MaxImage,      \* newest image; images are numbered from old to new
    Access,        \* the kinds of external access considered
    ClientSecrets, \* what the gates' HTTPS client is built from
    Troubles,      \* the kinds of trouble considered
    MaxTrouble     \* how many troubles one behaviour may contain

ASSUME SizeAssumption == N \in Nat \ {0} /\ MaxImage \in Nat \ {0}
ASSUME AccessAssumption ==
    Access \subseteq {"none", "ingress", "traefik", "lb"}
ASSUME SecretAssumption == ClientSecrets \subseteq CertSecrets
ASSUME TroubleAssumption ==
    /\ Troubles \subseteq {"api", "swallowed", "stale", "crash", "pod", "job",
                           "secret"}
    /\ MaxTrouble \in Nat

Node == 1 .. N
Image == 1 .. MaxImage
NoImage == 0

VARIABLES
    image,      \* spec.image
    access,     \* spec.externalAccessConfiguration
    secrets,    \* the user's secrets in the namespace
    sts,        \* image of the node's StatefulSet
    status,     \* what the StatefulSet controller has recorded in its status
    pod,        \* the node's pod
    bound,      \* is the node's PVC bound?
    svc,        \* the node's Service: does it exist, with an address?
    ingress,    \* the Ingress
    job,        \* the bootstrapper Job
    stored,     \* status of the RavenDBCluster
    seen,       \* status in the informer's cache, which a reconcile works on
    queued,     \* is the cluster in the work queue?
    pc,         \* where the operator is in a reconcile
    want,       \* spec.image of the copy this reconcile works on
    facts,      \* what the collector has listed so far
    blind,      \* did it fail to list or read an old status?
    trouble     \* troubles so far

nodes == <<sts, status, pod, bound, svc>>
objects == <<nodes, ingress, job>>
user == <<image, access, secrets>>
local == <<seen, pc, want, facts, blind>>
vars == <<image, access, secrets, sts, status, pod, bound, svc, ingress, job,
          stored, seen, queued, pc, want, facts, blind, trouble>>

Lists == <<"statefulSets", "jobs", "pods", "pvcs", "services", "ingresses",
           "secrets">>
Kinds == {Lists[i] : i \in DOMAIN Lists}

Steps == {"idle", "ingress", "bootstrapper", "hooks", "run", "patch"}
            \cup Kinds

NoPod == [image |-> NoImage, state |-> "none", restarts |-> 0]
NoJob == [image |-> NoImage, state |-> "none"]
NoStatus == [pod |-> "none", current |-> NoImage, update |-> NoImage]

TypeOK ==
    /\ image \in Image
    /\ access \in Access
    /\ secrets \subseteq CertSecrets \cup {LicenseSecret}
    /\ sts \in [Node -> Image \cup {NoImage}]
    /\ status \in [Node -> [pod : {"none", "pending", "ready"},
                            current : Image \cup {NoImage},
                            update : Image \cup {NoImage}]]
    /\ pod \in [Node -> [image : Image \cup {NoImage},
                         state : {"none", "pending", "running", "ready"},
                         restarts : 0 .. RestartThreshold]]
    /\ bound \in [Node -> BOOLEAN]
    /\ svc \in [Node -> {"none", "pending", "ready"}]
    /\ ingress \in {"none", "pending", "ready"}
    /\ job \in [image : Image \cup {NoImage},
                state : {"none", "active", "completed", "failed"}]
    /\ DOMAIN stored.conds = Conditions /\ DOMAIN seen.conds = Conditions
    /\ stored.phase \in Phases /\ seen.phase \in Phases
    /\ queued \in BOOLEAN
    /\ pc \in Steps
    /\ want \in Image \cup {NoImage}
    /\ DOMAIN facts = Kinds
    /\ blind \in BOOLEAN
    /\ trouble \in 0 .. MaxTrouble

Init ==
    /\ image = 1
    /\ access \in Access
    /\ secrets = {}
    /\ sts = [n \in Node |-> NoImage]
    /\ status = [n \in Node |-> NoStatus]
    /\ pod = [n \in Node |-> NoPod]
    /\ bound = [n \in Node |-> FALSE]
    /\ svc = [n \in Node |-> "none"]
    /\ ingress = "none"
    /\ job = NoJob
    /\ stored = [conds |-> [c \in Conditions |-> Unset], phase |-> ""]
    /\ seen = stored
    /\ queued = TRUE
    /\ pc = "idle"
    /\ want = NoImage
    /\ facts = NoFacts
    /\ blind = FALSE
    /\ trouble = 0

-----------------------------------------------------------------------------
(* Helpers *)

Go(from, to) == pc = from /\ pc' = to

Hit(kind) ==
    /\ kind \in Troubles
    /\ trouble < MaxTrouble
    /\ trouble' = trouble + 1

(* Mutation: an event that arrives during a reconcile is dropped.          *)
WakeWhenIdle(changed) == queued' = (queued \/ (changed /\ pc = "idle"))

(* Apply an object: a change wakes the operator up, a no-op does not.      *)
Wake(changed) == queued' = (queued \/ changed)

(* Reconcile ends; an error that it returns puts the cluster back into the *)
(* queue. By the next reconcile the cache has what this one has stored.    *)
EndReconcile(error) ==
    /\ pc' = "idle"
    /\ want' = NoImage
    /\ facts' = NoFacts
    /\ seen' = stored'
    /\ Wake(error)

external == access # "none"

-----------------------------------------------------------------------------
(* Reconcile: load the cluster, run the per-cluster actors. *)

(* The copy it works on comes from the cache, which may still have to see  *)
(* the status that the last reconcile has stored.                          *)
Get ==
    /\ Go("idle", "ingress")
    /\ queued
    /\ queued' = FALSE
    /\ want' = image
    /\ seen' \in {seen, stored}
    /\ blind' = (seen' # stored)
    /\ UNCHANGED <<user, objects, stored, facts, trouble>>

(* No Ingress is built for Traefik: its routes are the user's own.         *)
ApplyIngress ==
    /\ Go("ingress", "bootstrapper")
    /\ IF access = "ingress" /\ ingress = "none"
       THEN ingress' = "pending" /\ Wake(TRUE)
       ELSE UNCHANGED <<ingress, queued>>
    /\ UNCHANGED <<user, nodes, job, stored, seen, want, facts, blind, trouble>>

IsBootstrapped == IsTrue(seen.conds["BootstrapCompleted"])

BuildJob == [image |-> want, state |-> "active"]

(* A Job's pod template is immutable: the API server rejects an apply that *)
(* names another image.                                                    *)
Conflicting == job # NoJob /\ job.image # BuildJob.image

ApplyJob ==
    /\ Go("bootstrapper", "hooks")
    /\ IsBootstrapped \/ ~Conflicting
    /\ IF ~IsBootstrapped /\ job = NoJob
       THEN job' = BuildJob /\ Wake(TRUE)
       ELSE UNCHANGED <<job, queued>>
    /\ UNCHANGED <<user, nodes, ingress, stored, seen, want, facts, blind,
                   trouble>>

ApplyJobRejected ==
    /\ pc = "bootstrapper"
    /\ ~IsBootstrapped
    /\ Conflicting
    /\ UNCHANGED <<user, objects, stored, blind, trouble>>
    /\ EndReconcile(TRUE)

(* ConfigMaps with the hook scripts, which nothing here reads.             *)
ApplyHooks ==
    /\ Go("hooks", "run")
    /\ UNCHANGED <<user, objects, stored, seen, queued, want, facts, blind,
                   trouble>>

ExecutePerClusterFails ==
    /\ pc \in {"ingress", "bootstrapper", "hooks"}
    /\ Hit("api")
    /\ UNCHANGED <<user, objects, stored, blind>>
    /\ EndReconcile(TRUE)

-----------------------------------------------------------------------------
(* Reconcile: run the upgrader, which creates or rolls one node. *)

FirstOf(n, S) == n \in S /\ \A m \in S : n <= m

Missing == {n \in Node : sts[n] = NoImage}
Mismatched == {n \in Node : sts[n] # NoImage /\ sts[n] # want}

AllReady == \A n \in Node : pod[n].state = "ready"

applyNode(n) ==
    /\ sts' = [sts EXCEPT ![n] = want]
    /\ svc' = [svc EXCEPT ![n] = IF @ = "none" THEN "pending" ELSE @]
    /\ Wake(TRUE)
    /\ UNCHANGED <<status, pod, bound>>

(* The gates are built first, with or without a node to roll.              *)
buildGates == ClientSecrets \subseteq secrets

(* A missing node is created without gates; a rollout passes the gates     *)
(* when all nodes are up, and may or may not pass them otherwise.          *)
Run ==
    /\ Go("run", "statefulSets")
    /\ buildGates
    /\ \/ \E n \in Node : FirstOf(n, Missing) /\ applyNode(n)
       \/ /\ Missing = {}
          /\ \E n \in Node : FirstOf(n, Mismatched) /\ applyNode(n)
       \/ /\ Missing = {}
          /\ Mismatched = {}
          /\ UNCHANGED <<nodes, queued>>
    /\ UNCHANGED <<user, ingress, job, stored, seen, want, facts, blind, trouble>>

(* Run returns an error before it has touched a node: a secret is missing  *)
(* or the gates do not pass. It is logged and the reconcile goes on.       *)
RunRefused ==
    /\ Go("run", "statefulSets")
    /\ \/ ~buildGates
       \/ Missing = {} /\ Mismatched # {} /\ ~AllReady
    /\ UNCHANGED <<user, objects, stored, seen, queued, want, facts, blind,
                   trouble>>

(* So is any other error of Run.                                           *)
RunFails ==
    /\ Go("run", "statefulSets")
    /\ Hit("swallowed")
    /\ UNCHANGED <<user, objects, stored, seen, queued, want, facts, blind>>

-----------------------------------------------------------------------------
(* Reconcile: collect facts, one list after the other. *)

HasPod(n) == pod[n].state # "none"

collectStatefulSets ==
    {[updating |-> status[n].current # status[n].update] : n \in Node \ Missing}

collectJobs ==
    IF job = NoJob THEN {}
    ELSE {[completed |-> job.state = "completed",
           active |-> IF job.state = "active" THEN 1 ELSE 0,
           failed |-> IF job.state = "failed" THEN 1 ELSE 0]}

collectPodsAndPVCRefs ==
    {[node |-> n,
      phase |-> IF pod[n].state = "pending" THEN "Pending" ELSE "Running",
      ready |-> pod[n].state = "ready",
      restarts |-> pod[n].restarts] : n \in {m \in Node : HasPod(m)}}

(* The PVCs that one of the pods just listed refers to.                    *)
collectPVCs == {[bound |-> bound[p.node]] : p \in facts.pods}

collectServices ==
    {[type |-> IF access = "lb" THEN "LoadBalancer" ELSE "ClusterIP",
      lbReady |-> svc[n] = "ready"] : n \in {m \in Node : svc[m] # "none"}}

collectIngresses ==
    IF ingress = "none" THEN {} ELSE {[lbReady |-> ingress = "ready"]}

(* Mutation: like the other lists, only what the cluster owns, which no    *)
(* secret of the user is.                                                  *)
collectOwnedSecrets == {}

(* All secrets of the namespace.                                           *)
collectSecrets == secrets

Listed(kind) ==
    CASE kind = "statefulSets" -> collectStatefulSets
      [] kind = "jobs"         -> collectJobs
      [] kind = "pods"         -> collectPodsAndPVCRefs
      [] kind = "pvcs"         -> collectPVCs
      [] kind = "services"     -> collectServices
      [] kind = "ingresses"    -> collectIngresses
      [] kind = "secrets"      -> collectSecrets

Collect ==
    \E i \in DOMAIN Lists :
       /\ Go(Lists[i], IF i < Len(Lists) THEN Lists[i + 1] ELSE "patch")
       /\ facts' = [facts EXCEPT ![Lists[i]] = Listed(Lists[i])]
       /\ UNCHANGED <<user, objects, stored, seen, queued, want, blind,
                      trouble>>

(* The first error ends the collection; what is there is evaluated.        *)
CollectFails ==
    /\ pc \in Kinds
    /\ pc' = "patch"
    /\ Hit("swallowed")
    /\ blind' = TRUE
    /\ UNCHANGED <<user, objects, stored, seen, queued, want, facts>>

-----------------------------------------------------------------------------
(* Reconcile: evaluate the facts and patch the status. *)

(* The patch is the difference of the evaluated copy to the copy that was  *)
(* read: a field in which the two agree keeps the value that is stored. The*)
(* conditions are one field.                                               *)
Merged ==
    LET conds == Evaluate(seen.conds, external, facts)
        phase == UpdatePhaseFromConditions(conds)
    IN  [conds |-> IF conds = seen.conds THEN stored.conds ELSE conds,
         phase |-> IF phase = seen.phase THEN stored.phase ELSE phase]

Patch ==
    /\ pc = "patch"
    /\ stored' = Merged
    /\ EndReconcile(FALSE)
    /\ UNCHANGED <<user, objects, blind, trouble>>

(* The next reconcile may start before the cache has seen the patch.       *)
PatchUnseen ==
    /\ Go("patch", "idle")
    /\ Hit("stale")
    /\ stored' = Merged
    /\ want' = NoImage
    /\ facts' = NoFacts
    /\ UNCHANGED <<user, objects, seen, queued, blind>>

PatchFails ==
    /\ pc = "patch"
    /\ Hit("api")
    /\ stored' \in {stored, Merged}
    /\ EndReconcile(TRUE)
    /\ UNCHANGED <<user, objects, blind>>

(* A new process, or a new leader, starts with every cluster queued.       *)
Crash ==
    /\ pc # "idle"
    /\ Hit("crash")
    /\ UNCHANGED <<user, objects, stored, blind>>
    /\ EndReconcile(TRUE)

-----------------------------------------------------------------------------
(* The user. *)

RaiseImage ==
    /\ \E i \in Image : i > image /\ image' = i
    /\ Wake(TRUE)
    /\ UNCHANGED <<access, secrets, objects, stored, local, trouble>>

(* Nobody owns a secret: neither its coming nor its going is an event.     *)
AddSecret ==
    /\ \E s \in (CertSecrets \cup {LicenseSecret}) \ {""} :
          s \notin secrets /\ secrets' = secrets \cup {s}
    /\ UNCHANGED <<image, access, objects, stored, queued, local, trouble>>

RemoveSecret ==
    /\ Hit("secret")
    /\ \E s \in secrets : secrets' = secrets \ {s}
    /\ UNCHANGED <<image, access, objects, stored, queued, local>>

-----------------------------------------------------------------------------
(* Kubernetes. *)

Becomes(n, p) ==
    /\ pod' = [pod EXCEPT ![n] = p]
    /\ UNCHANGED <<user, sts, status, bound, svc, ingress, job, stored, queued,
                   local>>

(* What the StatefulSet controller makes of the node's pod: whether there  *)
(* is one, whether it is ready, and which revision is rolled out.          *)
Observed(n) ==
    [pod |-> IF pod[n].state = "running" THEN "pending" ELSE pod[n].state,
     update |-> sts[n],
     current |-> IF \/ status[n].current = NoImage
                    \/ pod[n].state = "ready" /\ pod[n].image = sts[n]
                 THEN sts[n]
                 ELSE status[n].current]

(* It records that in a step of its own, which wakes the operator up.      *)
RecordStatus(n) ==
    /\ sts[n] # NoImage
    /\ status[n] # Observed(n)
    /\ status' = [status EXCEPT ![n] = Observed(n)]
    /\ Wake(TRUE)
    /\ UNCHANGED <<user, sts, pod, bound, svc, ingress, job, stored, local,
                   trouble>>

CreatePod(n) ==
    /\ sts[n] # NoImage
    /\ pod[n] = NoPod
    /\ Becomes(n, [NoPod EXCEPT !.image = sts[n], !.state = "pending"])
    /\ UNCHANGED trouble

DeletePod(n) ==
    /\ pod[n] # NoPod
    /\ pod[n].image # sts[n]
    /\ Becomes(n, NoPod)
    /\ UNCHANGED trouble

BindPVC(n) ==
    /\ HasPod(n)
    /\ ~bound[n]
    /\ bound' = [bound EXCEPT ![n] = TRUE]
    /\ UNCHANGED <<user, sts, status, pod, svc, ingress, job, stored, queued,
                   local, trouble>>

(* A pod mounts its PVC and its secrets before its container starts.       *)
StartPod(n) ==
    /\ pod[n].state = "pending"
    /\ bound[n]
    /\ CertSecrets \cup ({LicenseSecret} \ {""}) \subseteq secrets
    /\ Becomes(n, [pod[n] EXCEPT !.state = "running"])
    /\ UNCHANGED trouble

ReadyPod(n) ==
    /\ pod[n].state = "running"
    /\ Becomes(n, [pod[n] EXCEPT !.state = "ready"])
    /\ UNCHANGED trouble

RestartPod(n) ==
    /\ pod[n].state \in {"running", "ready"}
    /\ pod[n].restarts < RestartThreshold
    /\ Hit("pod")
    /\ Becomes(n, [pod[n] EXCEPT !.state = "running", !.restarts = @ + 1])

AllocateService(n) ==
    /\ access = "lb"
    /\ svc[n] = "pending"
    /\ svc' = [svc EXCEPT ![n] = "ready"]
    /\ Wake(TRUE)
    /\ UNCHANGED <<user, sts, status, pod, bound, ingress, job, stored, local,
                   trouble>>

AllocateIngress ==
    /\ ingress = "pending"
    /\ ingress' = "ready"
    /\ Wake(TRUE)
    /\ UNCHANGED <<user, nodes, job, stored, local, trouble>>

(* The Job's script succeeds when every node has joined, which only a node *)
(* whose server runs can do, be its pod ready or not (CompletedMeansFormed *)
(* of the module Bootstrap).                                               *)
CompleteJob ==
    /\ job.state = "active"
    /\ \A n \in Node : pod[n].state \in {"running", "ready"}
    /\ job' = [job EXCEPT !.state = "completed"]
    /\ Wake(TRUE)
    /\ UNCHANGED <<user, nodes, ingress, stored, local, trouble>>

(* Its retries are used up.                                                *)
FailJob ==
    /\ job.state = "active"
    /\ Hit("job")
    /\ job' = [job EXCEPT !.state = "failed"]
    /\ Wake(TRUE)
    /\ UNCHANGED <<user, nodes, ingress, stored, local>>

(* Every ten hours the informers hand out all owned objects again.         *)
Resync ==
    /\ pc = "idle"
    /\ ~queued
    /\ queued' = TRUE
    /\ UNCHANGED <<user, objects, stored, local, trouble>>

-----------------------------------------------------------------------------
Reconcile ==
    \/ Get
    \/ ApplyIngress \/ ApplyJob \/ ApplyJobRejected \/ ApplyHooks
    \/ Run \/ RunRefused
    \/ Collect
    \/ Patch

ReconcileFails ==
    \/ ExecutePerClusterFails \/ RunFails \/ CollectFails \/ PatchFails
    \/ PatchUnseen

(* What Kubernetes, the load balancer and the Job do when nothing fails.   *)
Progress ==
    \/ \E n \in Node :
          CreatePod(n) \/ DeletePod(n) \/ BindPVC(n) \/ StartPod(n)
             \/ ReadyPod(n) \/ RecordStatus(n) \/ AllocateService(n)
    \/ AllocateIngress \/ CompleteJob

Next ==
    \/ Reconcile \/ ReconcileFails
    \/ RaiseImage \/ AddSecret \/ RemoveSecret
    \/ Progress
    \/ Crash \/ FailJob \/ \E n \in Node : RestartPod(n)
    \/ Resync

Spec == Init /\ [][Next]_vars

(* The operator works off its queue and is resynced, Kubernetes drives the *)
(* objects towards their specs, and the user provides the secrets that the *)
(* spec names.                                                             *)
Fairness ==
    /\ WF_vars(Reconcile)
    /\ WF_vars(Progress)
    /\ WF_vars(AddSecret)
    /\ WF_vars(Resync)

FairSpec == Spec /\ Fairness

-----------------------------------------------------------------------------
(* Properties *)

(* What the collector would find if it looked now.                         *)
Now == [statefulSets |-> collectStatefulSets,
        jobs |-> collectJobs,
        pods |-> collectPodsAndPVCRefs,
        pvcs |-> {[bound |-> bound[n]] : n \in {m \in Node : HasPod(m)}},
        services |-> collectServices,
        ingresses |-> collectIngresses,
        secrets |-> collectSecrets]

Quiet == pc = "idle" /\ ~queued /\ ~blind

Accurate(c) ==
    stored.conds[c].status = Evaluate(stored.conds, external, Now)[c].status

(* The conditions that rest on objects the cluster owns: on StatefulSets,  *)
(* Jobs, Services and Ingresses. The other six ask for pods, PVCs or       *)
(* secrets, Ready with them.                                               *)
OwnedConditions == {"BootstrapCompleted", "ExternalAccessReady", "Progressing"}

(* No wake-up by an owned object is lost: when the operator has nothing    *)
(* left to do, the three conditions that rest on such objects are what a   *)
(* new reconcile would find, although facts change while they are listed   *)
(* (Collect) and patches start from copies (Reconcile).                    *)
StatusIsAccurate == Quiet => \A c \in OwnedConditions : Accurate(c)

(* The phase is not Running before the Job has formed the cluster from all *)
(* nodes of the spec. The evaluator sees only the nodes that exist, and    *)
(* Run creates one per reconcile: it is the Job that waits for the rest.   *)
RunningMeansFormed ==
    stored.phase = "Running" => job.state = "completed" /\ Missing = {}

(* The Job is there with another image than the spec's, and the stored     *)
(* status does not say that it has completed: every reconcile ends at it.  *)
Wedged == job # NoJob /\ job.image # image /\ ~IsBootstrapped

UpToDate == \A n \in Node : sts[n] = image

(* In the end the phase is Running with every node on the spec's image, or *)
(* it is Error and the Job has failed, or the reconcile is wedged, provided*)
(* that the user comes to provide the secrets. It takes the resync for     *)
(* that: an error that Reconcile swallows, a secret that is missing at Run *)
(* included, is not retried. Traefik is left out: for it the evaluator     *)
(* never finds an address.                                                 *)
Settles ==
    <>[](\/ stored.phase = "Running" /\ UpToDate
         \/ stored.phase = "Error" /\ job.state = "failed"
         \/ Wedged)

(* Every node comes to have the image of the spec (the comment on the      *)
(* reconcile flow: keep the real cluster matching the spec).               *)
MatchesSpec == <>[]UpToDate

=============================================================================
