--------------------------- MODULE RollingUpgrade ---------------------------
(***************************************************************************)
(* The rolling upgrade of a RavenDB cluster: one reconcile after another   *)
(* runs the upgrader (pkg/upgrade), which works on one node per run, with  *)
(* the per-node actors (pkg/actor) that it calls to apply the node.        *)
(*                                                                         *)
(* The operator is one process: leader election leaves one active replica  *)
(* and the controller never runs two reconciles of a cluster at once.      *)
(* Around it, at any point of a run: the user raises spec.image, the       *)
(* StatefulSet controller replaces pods, nodes start, load databases and   *)
(* fail, RavenDB's observer takes note of it later, requests fail, and the *)
(* operator itself crashes.                                                *)
(*                                                                         *)
(* Reads go to the informer cache (`seen'), writes to the API server       *)
(* (`sts'), so a read may miss the operator's own last write.              *)
(***************************************************************************)
EXTENDS Integers

CONSTANTS
    N,           \* number of nodes in spec.nodes
    MaxImage,    \* newest image; images are numbered from old to new
    Databases,   \* the databases, each one the set of nodes it is placed on
    MaxLag,      \* versions the informer cache may be behind: 0 or 1
    ShortLag,    \* does it catch up before pods change and grace ends?
    Troubles,    \* the kinds of trouble considered
    MaxTrouble   \* how many troubles one behaviour may contain

ASSUME NAssumption == N \in Nat \ {0}
ASSUME ImageAssumption == MaxImage \in Nat \ {0}
ASSUME DatabasesAssumption == Databases \subseteq SUBSET (1 .. N)
ASSUME LagAssumption == MaxLag \in {0, 1} /\ ShortLag \in BOOLEAN
ASSUME TroubleAssumption ==
    /\ Troubles \subseteq {"api", "crash", "node"}
    /\ MaxTrouble \in Nat

Node == 1 .. N              \* spec.nodes, in the order of the spec
Image == 1 .. MaxImage
NoImage == 0                \* no StatefulSet, no pod, no annotation

VARIABLES
    spec,        \* spec.image of the RavenDBCluster
    sts,         \* the node's StatefulSet in the API server
    seen,        \* the operator's cached copy of it
    svc,         \* does the node's Service exist?
    pod,         \* what the node's pod runs, and how far it has come
    formed,      \* has the bootstrapper joined the nodes into a cluster?
    reported,    \* which nodes the observer's last report calls ok
    status,      \* status.nodes
    pc,          \* where the operator is in a reconcile
    want,        \* desiredImg of this run, a copy of spec.image
    sel,         \* the node this run works on, 0 before one is selected
    upgrading,   \* isUpgrading(...) of that node
    outcome,     \* how the run ended
    trouble      \* troubles so far

kube == <<sts, seen, svc>>
world == <<spec, pod, formed, reported>>
run == <<pc, want, sel, upgrading, outcome>>
vars == <<spec, sts, seen, svc, pod, formed, reported, status,
          pc, want, sel, upgrading, outcome, trouble>>

Steps == {"idle", "inflight", "missing", "mismatch", "load", "loadMark",
          "preAlive", "preConn", "preDB", "mark", "applySts", "applySvc",
          "postAlive", "postConn", "postDB", "clear", "report"}
Outcomes == {"none", "nogates", "nothing", "unloaded", "failed", "applied",
             "upgraded"}

StatefulSet == [image : Image \cup {NoImage}, mark : Image \cup {NoImage}]
Pod == [image : Image \cup {NoImage}, state : {"down", "loading", "ok"}]
NodeStatus == [phase : {"", "Created", "Failed"},
               attempted : Image \cup {NoImage}]

Absent == [image |-> NoImage, mark |-> NoImage]
NoStatus == [phase |-> "", attempted |-> NoImage]

TypeOK ==
    /\ spec \in Image
    /\ sts \in [Node -> StatefulSet]
    /\ seen \in [Node -> StatefulSet]
    /\ svc \in [Node -> BOOLEAN]
    /\ pod \in [Node -> Pod]
    /\ formed \in BOOLEAN
    /\ reported \in [Node -> BOOLEAN]
    /\ status \in [Node -> NodeStatus]
    /\ pc \in Steps
    /\ want \in Image \cup {NoImage}
    /\ sel \in Node \cup {0}
    /\ upgrading \in BOOLEAN
    /\ outcome \in Outcomes
    /\ trouble \in 0 .. MaxTrouble

Init ==
    /\ spec = 1
    /\ sts = [n \in Node |-> Absent]
    /\ seen = [n \in Node |-> Absent]
    /\ svc = [n \in Node |-> FALSE]
    /\ pod = [n \in Node |-> [image |-> NoImage, state |-> "down"]]
    /\ formed = FALSE
    /\ reported = [n \in Node |-> FALSE]
    /\ status = [n \in Node |-> NoStatus]
    /\ pc = "idle"
    /\ want = NoImage
    /\ sel = 0
    /\ upgrading = FALSE
    /\ outcome = "none"
    /\ trouble = 0

-----------------------------------------------------------------------------
(* Helpers *)

Go(from, to) == pc = from /\ pc' = to

Hit(kind) ==
    /\ kind \in Troubles
    /\ trouble < MaxTrouble
    /\ trouble' = trouble + 1

Exists(s) == s.image # NoImage
Marked(s) == s.mark # NoImage

(* The API server stores v; a write that changes nothing makes no version. *)
(* The cache shows the version before, or v itself when MaxLag is 0.       *)
Store(n, v) ==
    /\ sts' = [sts EXCEPT ![n] = v]
    /\ seen' = IF v = sts[n] THEN seen
               ELSE [seen EXCEPT ![n] = IF MaxLag = 0 THEN v ELSE sts[n]]

(* Holds when something happens that takes longer than a short lag: a pod  *)
(* changes, or the ten seconds of grace after a rollout pass.              *)
CaughtUp == ShortLag => seen = sts

(* A write that returns an error may or may not have been carried out.     *)
StoreFails(n, v) ==
    /\ Hit("api")
    /\ Store(n, v) \/ UNCHANGED <<sts, seen>>

-----------------------------------------------------------------------------
(* Gates: what the HTTP checks of pkg/upgrade/gate_*.go find. The cluster- *)
(* wide ones ask the first node of the spec.                               *)

NodeAlive(n) == svc[n] /\ pod[n].state # "down"

(* The first node pings the members of its cluster: itself until formed.   *)
ClusterConnectivity ==
    /\ NodeAlive(1)
    /\ formed => \A n \in Node : NodeAlive(n)

Replicated == {d \in Databases : \E m, n \in d : m # n}

Serving(n) == pod[n].state = "ok"

(* The first node answers with the observer's last report.                 *)
DatabasesOnline(excluded) ==
    /\ NodeAlive(1)
    /\ formed => \A d \in Replicated : \E n \in d \ {excluded} : reported[n]

-----------------------------------------------------------------------------
(* What the operator writes, computed from its cached copy. *)

(* setUpgradeAnnotation: a merge patch of the difference to the cached     *)
(* copy, hence empty when that copy already is as wanted or is missing.    *)
Annotated(n, value) ==
    IF ~Exists(seen[n]) \/ seen[n].mark = value
    THEN sts[n]
    ELSE [sts[n] EXCEPT !.mark = value]

(* StatefulSetActor.Act: the cached annotations are applied again, and the *)
(* cached image instead of the new one unless the cached copy is marked.   *)
Act(n) ==
    IF ~Exists(seen[n])
    THEN [sts[n] EXCEPT !.image = want]
    ELSE IF Marked(seen[n])
         THEN [image |-> want, mark |-> seen[n].mark]
         ELSE [sts[n] EXCEPT !.image = seen[n].image]

(* Mutation: a marked node that has its image already is done.             *)
isUpgradingByImage(differs, marked) == differs

(* Mutation: an outdated node that is not marked needs no gates.           *)
isUpgradingByMark(differs, marked) == marked

(* Of a node that exists: its image differs, or it is marked.              *)
isUpgrading(differs, marked) == differs \/ marked

-----------------------------------------------------------------------------
(* Run: build the gates and select a node. *)

BuildGates ==
    /\ Go("idle", "inflight")
    /\ want' = spec
    /\ UNCHANGED <<kube, world, status, sel, upgrading, outcome, trouble>>

BuildGatesFails ==
    /\ Go("idle", "report")
    /\ Hit("api")
    /\ want' = spec
    /\ outcome' = "nogates"
    /\ UNCHANGED <<kube, world, status, sel, upgrading>>

Select(n) ==
    /\ sel' = n
    /\ pc' = "load"
    /\ UNCHANGED outcome

(* Mutation: the nodes are visited in no particular order.                 *)
AnyOf(n, S) == n \in S

First(n, S) == n \in S /\ \A m \in S : n <= m

(* Mutation: an upgrade left in flight is not looked for.                  *)
NoneInFlight == {}

InFlight == {n \in Node : Exists(seen[n]) /\ Marked(seen[n])}

Missing == {n \in Node : ~Exists(seen[n])}
Mismatched == {n \in Node : Exists(seen[n]) /\ seen[n].image # want}

FindInFlight ==
    /\ pc = "inflight"
    /\ \/ \E n \in Node : First(n, InFlight) /\ Select(n)
       \/ InFlight = {} /\ pc' = "missing" /\ UNCHANGED <<sel, outcome>>
    /\ UNCHANGED <<kube, world, status, want, upgrading, trouble>>

FindMissing ==
    /\ pc = "missing"
    /\ \/ \E n \in Node : First(n, Missing) /\ Select(n)
       \/ Missing = {} /\ pc' = "mismatch" /\ UNCHANGED <<sel, outcome>>
    /\ UNCHANGED <<kube, world, status, want, upgrading, trouble>>

FindMismatch ==
    /\ pc = "mismatch"
    /\ \/ \E n \in Node : First(n, Mismatched) /\ Select(n)
       \/ /\ Mismatched = {}
          /\ pc' = "report"
          /\ outcome' = "nothing"
          /\ UNCHANGED sel
    /\ UNCHANGED <<kube, world, status, want, upgrading, trouble>>

-----------------------------------------------------------------------------
(* Run: work on the selected node. *)

(* The image is read first, the mark in a second read. A node that the     *)
(* first one does not find is created, whatever the second one finds.      *)
Load ==
    /\ pc = "load"
    /\ upgrading' = (Exists(seen[sel]) /\ seen[sel].image # want)
    /\ pc' = IF Exists(seen[sel]) THEN "loadMark" ELSE "applySts"
    /\ UNCHANGED <<kube, world, status, want, sel, outcome, trouble>>

(* A marked node was gated by an earlier run: the pre-gates are skipped.   *)
LoadMark ==
    /\ pc = "loadMark"
    /\ upgrading' = isUpgrading(upgrading, Marked(seen[sel]))
    /\ pc' = IF upgrading' /\ ~Marked(seen[sel]) THEN "preAlive"
                                                 ELSE "applySts"
    /\ UNCHANGED <<kube, world, status, want, sel, outcome, trouble>>

LoadFails ==
    /\ Go("load", "report")
    /\ Hit("api")
    /\ outcome' = "unloaded"
    /\ UNCHANGED <<kube, world, status, want, sel, upgrading>>

(* wait: retry until the check passes, or time out on a failed check (the  *)
(* module Gates has the loop).                                             *)
Gate(from, check, to) ==
    /\ Go(from, to)
    /\ check
    /\ UNCHANGED <<kube, world, status, want, sel, upgrading, outcome, trouble>>

(* The check is false to the end, or requests fail although it would hold. *)
GateFails(from, check, to) ==
    /\ Go(from, to)
    /\ \/ ~check /\ UNCHANGED trouble
       \/ check /\ Hit("api")
    /\ outcome' = "failed"
    /\ UNCHANGED <<kube, world, status, want, sel, upgrading>>

preNode ==
    \/ Gate("preAlive", NodeAlive(sel), "preConn")
    \/ Gate("preConn", ClusterConnectivity, "preDB")
    \/ Gate("preDB", DatabasesOnline(sel), "mark")

preNodeFails ==
    \/ GateFails("preAlive", NodeAlive(sel), "report")
    \/ GateFails("preConn", ClusterConnectivity, "report")
    \/ GateFails("preDB", DatabasesOnline(sel), "report")

Mark ==
    /\ Go("mark", "applySts")
    /\ Store(sel, Annotated(sel, want))
    /\ UNCHANGED <<svc, world, status, want, sel, upgrading, outcome, trouble>>

MarkFails ==
    /\ Go("mark", "clear")
    /\ StoreFails(sel, Annotated(sel, want))
    /\ outcome' = "failed"
    /\ UNCHANGED <<svc, world, status, want, sel, upgrading>>

ApplyStatefulSet ==
    /\ Go("applySts", "applySvc")
    /\ Store(sel, Act(sel))
    /\ UNCHANGED <<svc, world, status, want, sel, upgrading, outcome, trouble>>

AfterApplyFailed == IF upgrading THEN "clear" ELSE "report"

ApplyStatefulSetFails ==
    /\ Go("applySts", AfterApplyFailed)
    /\ StoreFails(sel, Act(sel))
    /\ outcome' = "failed"
    /\ UNCHANGED <<svc, world, status, want, sel, upgrading>>

ApplyService ==
    /\ Go("applySvc", IF upgrading THEN "postAlive" ELSE "report")
    /\ svc' = [svc EXCEPT ![sel] = TRUE]
    /\ outcome' = IF upgrading THEN outcome ELSE "applied"
    /\ UNCHANGED <<sts, seen, world, status, want, sel, upgrading, trouble>>

ApplyServiceFails ==
    /\ Go("applySvc", AfterApplyFailed)
    /\ Hit("api")
    /\ \E b \in {svc[sel], TRUE} : svc' = [svc EXCEPT ![sel] = b]
    /\ outcome' = "failed"
    /\ UNCHANGED <<sts, seen, world, status, want, sel, upgrading>>

(* The grace period follows the first check.                               *)
postNode ==
    \/ CaughtUp /\ Gate("postAlive", NodeAlive(sel), "postConn")
    \/ Gate("postConn", ClusterConnectivity, "postDB")
    \/ /\ Go("postDB", "clear")
       /\ DatabasesOnline(0)
       /\ outcome' = "upgraded"
       /\ UNCHANGED <<kube, world, status, want, sel, upgrading, trouble>>

postNodeFails ==
    \/ GateFails("postAlive", NodeAlive(sel), "clear")
    \/ GateFails("postConn", ClusterConnectivity, "clear")
    \/ GateFails("postDB", DatabasesOnline(0), "clear")

(* After success and after failure alike; an error is ignored.             *)
Clear ==
    /\ Go("clear", "report")
    /\ \/ Store(sel, Annotated(sel, NoImage)) /\ UNCHANGED trouble
       \/ StoreFails(sel, Annotated(sel, NoImage))
    /\ UNCHANGED <<svc, world, status, want, sel, upgrading, outcome>>

-----------------------------------------------------------------------------
(* Reconcile: store the statuses that Run returned. *)

statusOrCreated(n) ==
    IF status[n] = NoStatus
    THEN [phase |-> "Created", attempted |-> NoImage]
    ELSE status[n]

(* Mutation: a phase that the CRD does not know.                           *)
selectedStatusUpgraded ==
    [phase |-> IF outcome = "upgraded" THEN "Upgraded" ELSE "Failed",
     attempted |-> want]

selectedStatus ==
    CASE outcome = "unloaded" -> [phase |-> "Failed", attempted |-> NoImage]
      [] outcome = "failed"   -> [phase |-> "Failed", attempted |-> want]
      [] outcome = "upgraded" -> [phase |-> "Created", attempted |-> want]
      [] OTHER                -> statusOrCreated(sel)

(* On an error Run returns what it has collected so far: nothing when the  *)
(* gates could not be built, else the nodes up to the selected one.        *)
Returned(n) ==
    CASE outcome = "nogates"             -> FALSE
      [] outcome \in {"unloaded", "failed"} -> n <= sel
      [] OTHER                           -> TRUE

Statuses ==
    [n \in Node |-> IF ~Returned(n) THEN NoStatus
                    ELSE IF n = sel THEN selectedStatus
                    ELSE statusOrCreated(n)]

EndRun ==
    /\ pc' = "idle"
    /\ want' = NoImage
    /\ sel' = 0
    /\ upgrading' = FALSE
    /\ outcome' = "none"

Report ==
    /\ pc = "report"
    /\ EndRun
    /\ \/ status' = Statuses /\ UNCHANGED trouble
       \/ Hit("api") /\ UNCHANGED status
    /\ UNCHANGED <<kube, world>>

(* The next process, or the next leader, starts with a fresh cache.        *)
Crash ==
    /\ pc # "idle"
    /\ Hit("crash")
    /\ EndRun
    /\ seen' = sts
    /\ UNCHANGED <<sts, svc, world, status>>

-----------------------------------------------------------------------------
(* The world around the operator. *)

(* Mutation: any other image is admitted.                                  *)
ChangeImage ==
    /\ \E i \in Image : i # spec /\ spec' = i
    /\ UNCHANGED <<kube, pod, formed, reported, status, run, trouble>>

(* The admission webhook rejects a downgrade.                              *)
RaiseImage ==
    /\ \E i \in Image : i > spec /\ spec' = i
    /\ UNCHANGED <<kube, pod, formed, reported, status, run, trouble>>

Deliver(n) ==
    /\ seen[n] # sts[n]
    /\ seen' = [seen EXCEPT ![n] = sts[n]]
    /\ UNCHANGED <<sts, svc, world, status, run, trouble>>

Outdated(n) == Exists(sts[n]) /\ pod[n].image # sts[n].image

ReplacePod(n) ==
    /\ Outdated(n)
    /\ CaughtUp
    /\ pod' = [pod EXCEPT ![n] = [image |-> sts[n].image, state |-> "down"]]
    /\ UNCHANGED <<kube, spec, formed, reported, status, run, trouble>>

StartPod(n) ==
    /\ pod[n].image # NoImage
    /\ pod[n].state = "down"
    /\ CaughtUp
    /\ pod' = [pod EXCEPT ![n].state = "loading"]
    /\ UNCHANGED <<kube, spec, formed, reported, status, run, trouble>>

LoadDatabases(n) ==
    /\ pod[n].state = "loading"
    /\ CaughtUp
    /\ pod' = [pod EXCEPT ![n].state = "ok"]
    /\ UNCHANGED <<kube, spec, formed, reported, status, run, trouble>>

FailPod(n) ==
    /\ pod[n].state # "down"
    /\ Hit("node")
    /\ CaughtUp
    /\ pod' = [pod EXCEPT ![n].state = "down"]
    /\ UNCHANGED <<kube, spec, formed, reported, status, run>>

(* The bootstrapper job joins the nodes once all of them answer.           *)
Bootstrap ==
    /\ ~formed
    /\ \A n \in Node : NodeAlive(n) /\ Serving(n)
    /\ CaughtUp
    /\ formed' = TRUE
    /\ UNCHANGED <<kube, spec, pod, reported, status, run, trouble>>

(* RavenDB's cluster observer takes note of what has become of a node.     *)
Observe(n) ==
    /\ formed
    /\ reported[n] # Serving(n)
    /\ reported' = [reported EXCEPT ![n] = Serving(n)]
    /\ UNCHANGED <<kube, spec, pod, formed, status, run, trouble>>

-----------------------------------------------------------------------------
Operator ==
    \/ BuildGates \/ BuildGatesFails
    \/ FindInFlight \/ FindMissing \/ FindMismatch
    \/ Load \/ LoadMark \/ LoadFails
    \/ preNode \/ preNodeFails
    \/ Mark \/ MarkFails
    \/ ApplyStatefulSet \/ ApplyStatefulSetFails
    \/ ApplyService \/ ApplyServiceFails
    \/ postNode \/ postNodeFails
    \/ Clear \/ Report

World ==
    \/ RaiseImage
    \/ Bootstrap
    \/ \E n \in Node :
          Deliver(n) \/ ReplacePod(n) \/ StartPod(n) \/ LoadDatabases(n)
             \/ FailPod(n) \/ Observe(n)

Next == Operator \/ Crash \/ World

Spec == Init /\ [][Next]_vars

(* Conditions on the world that no code of the operator waits for. First:  *)
(* the StatefulSet controller has created or replaced every pod before a   *)
(* later run's connectivity gate, ahead of the next node, passes.          *)
Replaced ==
    pc = "preConn" /\ pc' = "preDB" => \A n \in Node : ~Outdated(n)

(* Second: the observer notices that a node is down before it is up again. *)
Noticed ==
    \A n \in Node :
       pod[n].state = "down" /\ pod'[n].state # "down" => ~reported[n]

ReplacedSpec == Init /\ [][Next /\ Replaced]_vars
NoticedSpec == Init /\ [][Next /\ Noticed]_vars

CarefulNext == Next /\ Replaced /\ Noticed
CarefulSpec == Init /\ [][CarefulNext]_vars

(* Third: the mark that a run has set, or has found, is in the cache by    *)
(* the time the actor reads the StatefulSet, and still is.                 *)
MarkSeen ==
    pc = "applySts" /\ upgrading =>
       /\ pc' \in {"applySvc", "clear"} => Marked(seen[sel])
       /\ pc' = "applySts" /\ Marked(seen[sel]) => Marked(seen'[sel])

MarkSeenNext == Next /\ MarkSeen
MarkSeenSpec == Init /\ [][MarkSeenNext]_vars

(* The operator retries for ever: the informers' periodic resync of the    *)
(* owned objects starts a run even when no event does. Kubernetes goes on  *)
(* delivering events and driving pods towards their StatefulSets, and      *)
(* RavenDB goes on observing its nodes.                                    *)
Fairness ==
    /\ WF_vars(Operator)
    /\ WF_vars(Bootstrap)
    /\ \A n \in Node : WF_vars(Observe(n))
    /\ \A n \in Node :
          WF_vars(Deliver(n) \/ ReplacePod(n) \/ StartPod(n) \/ LoadDatabases(n))

FairSpec == Spec /\ Fairness

-----------------------------------------------------------------------------
(* Properties *)

(* At no time are two nodes in the middle of an upgrade: two StatefulSets  *)
(* never carry the upgrade annotation (findInFlightTag resumes the only    *)
(* one), through failed gates, failed writes and crashes of the operator.  *)
AtMostOneInFlight ==
    \A m, n \in Node : Marked(sts[m]) /\ Marked(sts[n]) => m = n

(* The operator never puts an older image on a node: neither the freeze of *)
(* StatefulSetActor.Act, which writes back the image of a cached copy, nor *)
(* an upgrade resumed after spec.image has moved on.                       *)
NoRollback ==
    [][\A n \in Node : sts[n].image <= sts'[n].image]_vars

(* A node is marked for an image only when every node before it in the     *)
(* spec already has that image or a newer one (pickSelectedTag).           *)
UpgradesInSpecOrder ==
    [][\A n \in Node :
          ~Marked(sts[n]) /\ Marked(sts'[n]) =>
             \A m \in 1 .. (n - 1) : sts[m].image >= sts'[n].mark]_vars

(* The node that carries the upgrade annotation, 0 when there is none.     *)
Active ==
    IF \E n \in Node : Marked(sts[n])
    THEN CHOOSE n \in Node : Marked(sts[n])
    ELSE 0

Abstract == INSTANCE NodeByNode
               WITH target <- spec,
                    image <- [n \in Node |-> sts[n].image],
                    active <- Active

(* Run, with everything that may fail in it, is an upgrade node by node as *)
(* NodeByNode specifies it: created in order, one node taken up at a time, *)
(* and an image changed only while its node is taken up.                   *)
UpgradesNodeByNode == Abstract!Spec

(* A node that Run reports as upgraded to an image has been given it, by   *)
(* Act in between the mark that Run sets and the gates that Run waits for, *)
(* and has not lost it since.                                              *)
SuccessMeansRolled ==
    \A n \in Node :
       status[n].phase = "Created" => status[n].attempted <= sts[n].image

(* While no node fails by itself, upgrades leave every replicated database *)
(* a node that serves it: what the gates before and after a node are for.  *)
DatabasesStayOnline ==
    formed => \A d \in Replicated : \E n \in d : Serving(n)

(* Once every Service exists all nodes come to run the image of the spec,  *)
(* and no upgrade stays unfinished, whatever failed on the way.            *)
Converges ==
    <>(\A n \in Node : svc[n]) =>
       <>[](\A n \in Node :
               /\ sts[n] = [image |-> spec, mark |-> NoImage]
               /\ pod[n] = [image |-> spec, state |-> "ok"])

(* After a failed upgrade of a node no other node is upgraded to the same  *)
(* image before that node (README: resumes from the same node).            *)
ResumesFromSameNode ==
    [][\A m, n \in Node :
          ~Marked(sts[m]) /\ Marked(sts'[m])
             /\ status[n] = [phase |-> "Failed", attempted |-> sts'[m].mark]
          => m = n]_vars

=============================================================================
